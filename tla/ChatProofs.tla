----------------------------- MODULE ChatProofs -----------------------------
(***************************************************************************)
(* The two halves of Chat proved for any number of messages, connections,  *)
(* chats, emojis and handler runs: first ChatMessages, then ChatEvents.    *)
(*                                                                         *)
(* UnreadExact says nothing while a mark runs, and a mark overwrites the   *)
(* counter with what it counted before.  What carries it over is that a    *)
(* mark that still calls itself clean is alone, has no increment on its    *)
(* way and has counted what is unread now; and that an increment on its    *)
(* way is for a message that is unread and that no join took off.          *)
(***************************************************************************)
EXTENDS Chat, FiniteSetTheorems, TLAPS

\* The positions of each handler, and the message it is about.
TaskOK(r) == task[r] # NoTask =>
    /\ task[r].op = "send" => task[r].at \in {"begun", "saved", "linked"}
    /\ task[r].op = "mark" => task[r].at \in {"begun", "counted"}
    /\ task[r].op \in {"join", "update", "delete"} => task[r].at = "begun"
    /\ task[r].op \in {"update", "delete"} => task[r].msg \in 1..sent
    /\ task[r].at \in {"saved", "linked"} =>
        task[r].msg \in 1..sent /\ sender[task[r].msg] = task[r].user
    /\ task[r].at = "saved" => task[r].msg \notin linked
    /\ task[r].at = "linked" => ~task[r].inRoom
TasksOK == \A r \in Requests : TaskOK(r)
Saved(r) == task[r] # NoTask /\ task[r].at \in {"saved", "linked"}
\* Every send has saved a message of its own.
OwnMessages == \A r, x \in Requests : Saved(r) /\ Saved(x) /\ r # x => task[r].msg # task[x].msg
Typed == TypeOK /\ TasksOK /\ OwnMessages

\* What was linked when a message was saved is linked.
OlderLinked == \A m \in Messages : older[m] \subseteq linked
LinkInv == OlderLinked /\ LastNeverGoesBack

\* An edit of a message that is deleted by now is known.
EditsKnown == \A r \in Requests :
    Running(r, "update", "begun") /\ task[r].msg \in deleted => task[r].msg \in contested
TextInv == EditsKnown /\ TextFits

\* A mark that nothing has overlapped is alone, and has counted what is unread.
CleanMarks(u) == \A r \in Marks(u) : task[r].clean =>
    /\ PendingTo(u) = {} /\ Marks(u) = {r}
    /\ task[r].at = "counted" => task[r].seen = Cardinality(UnreadTo(u))
Exact(u) ==
    /\ unread[u] + Cardinality(PendingTo(u)) = Cardinality(UnreadTo(u) \ zeroed[u])
    /\ PendingMessages(u) \subseteq UnreadTo(u) \ zeroed[u]
UserInv(u) ==
    /\ zeroed[u] \subseteq 1..sent
    /\ CleanMarks(u)
    /\ u \notin blurred /\ Marks(u) = {} => Exact(u)
UnreadInv == \A u \in Users : UserInv(u)

-----------------------------------------------------------------------------
(* Types and positions, action by action *)

TaskTyped == task \in [Requests -> Tasks \cup {NoTask}] /\ TasksOK /\ OwnMessages
RowsTyped ==
    /\ sent \in 0..MaxMessages
    /\ sender \in [Messages -> Users]
    /\ read \subseteq 1..sent /\ deleted \subseteq 1..sent /\ blank \subseteq 1..sent
ChatTyped == last \in 0..sent /\ unread \in [Users -> Nat]
SocketsTyped == online \subseteq Sockets /\ room \subseteq online
HistoryTyped ==
    /\ zeroed \in [Users -> SUBSET Messages]
    /\ blurred \subseteq Users
    /\ linked \subseteq 1..sent
    /\ older \in [Messages -> SUBSET Messages]
    /\ contested \subseteq deleted

LEMMA TypedParts ==
  Typed <=> RowsTyped /\ ChatTyped /\ SocketsTyped /\ TaskTyped /\ served \subseteq Requests /\ HistoryTyped
BY DEF Typed, TypeOK, RowsTyped, ChatTyped, SocketsTyped, TaskTyped, HistoryTyped

LEMMA TypedPartsNext ==
  Typed' <=> /\ RowsTyped' /\ ChatTyped' /\ SocketsTyped' /\ TaskTyped'
             /\ served' \subseteq Requests /\ HistoryTyped'
BY DEF Typed, TypeOK, RowsTyped, ChatTyped, SocketsTyped, TaskTyped, HistoryTyped

LEMMA OtherIs == ASSUME NEW u \in Users PROVE
    /\ Other(u) \in Users /\ Other(u) # u /\ Other(Other(u)) = u
    /\ \A v \in Users : v # u => v = Other(u)
BY TwoUsers DEF Users, Other

LEMMA TaskIs == ASSUME Typed, NEW r \in Requests, task[r] # NoTask PROVE
    task[r] \in Tasks /\ TaskOK(r) /\ task[r].user \in Users /\ task[r].seen \in Nat
BY DEF Typed, TypeOK, TasksOK, Tasks

LEMMA SentIs == Typed => /\ sent \in Nat /\ 1..sent \subseteq Messages
                         /\ read \subseteq Messages /\ linked \subseteq Messages
BY MessageBound DEF Typed, TypeOK, Messages

LEMMA BegunIs == ASSUME NEW u \in Users, NEW op \in {"send", "join", "mark", "update", "delete"} PROVE
    /\ Begun(op, u) \in Tasks
    /\ Begun(op, u).op = op /\ Begun(op, u).at = "begun" /\ Begun(op, u).user = u
BY MessageBound DEF Begun, Tasks

LEMMA BeginTyped ==
  ASSUME Typed, NEW r \in Requests, NEW t \in Tasks, t.at = "begun", Begin(r, t),
         t.op \in {"update", "delete"} => t.msg \in 1..sent,
         UNCHANGED <<sent, sender, linked>>
  PROVE  TaskTyped' /\ served' \subseteq Requests
<1>1. task' \in [Requests -> Tasks \cup {NoTask}] /\ served' \subseteq Requests
  BY DEF Typed, TypeOK, Begin
<1>2. task'[r] = t /\ \A x \in Requests : x # r => task'[x] = task[x]
  BY DEF Begin, Typed, TypeOK
<1>3. TaskOK(r)'
  BY <1>2 DEF TaskOK, Tasks
<1>4. ASSUME NEW x \in Requests, x # r PROVE TaskOK(x)'
  BY <1>2, <1>4 DEF TaskOK, Typed, TasksOK
<1>5. OwnMessages'
  BY <1>2 DEF Typed, OwnMessages, Saved
<1>. QED  BY <1>1, <1>3, <1>4, <1>5 DEF TaskTyped, TasksOK

LEMMA FinishTyped ==
  ASSUME Typed, NEW r \in Requests, Finish(r), UNCHANGED <<sent, sender>>,
         \/ linked' = linked
         \/ linked' = linked \cup {task[r].msg} /\ Saved(r)
  PROVE  TaskTyped' /\ served' \subseteq Requests
<1>1. task' \in [Requests -> Tasks \cup {NoTask}] /\ served' \subseteq Requests
  BY DEF Typed, TypeOK, Finish
<1>2. task'[r] = NoTask /\ \A x \in Requests : x # r => task'[x] = task[x]
  BY DEF Finish, Typed, TypeOK
<1>3. ASSUME NEW x \in Requests PROVE TaskOK(x)'
  <2>1. CASE x = r
    BY <1>2, <2>1 DEF TaskOK
  <2>2. CASE x # r
    BY <1>2, <2>2 DEF TaskOK, Typed, TasksOK, OwnMessages, Saved
  <2>. QED  BY <2>1, <2>2
<1>4. OwnMessages'
  BY <1>2 DEF Typed, OwnMessages, Saved
<1>. QED  BY <1>1, <1>3, <1>4 DEF TaskTyped, TasksOK

LEMMA TypedInit == Init => Typed
BY MessageBound, TwoUsers DEF Init, Typed, TypeOK, TasksOK, TaskOK, OwnMessages, Saved, Users,
   Messages

LEMMA SocketStepTyped == ASSUME Typed, SocketStep PROVE Typed'
BY DEF Typed, TypeOK, TasksOK, TaskOK, OwnMessages, Saved, SocketStep, Connect, Disconnect,
   LeaveChat,
       rows, chat, history

LEMMA JoinResetTyped == ASSUME Typed, NEW r \in Requests, NEW s \in Sockets, JoinReset(r, s) PROVE Typed'
<1>. DEFINE u == Owner[s]
<1>1. u \in Users /\ s \in Sockets \cup {NoSocket}
  BY OwnerIsUser
<1>2. [Begun("join", u) EXCEPT !.socket = s] \in Tasks
  BY <1>1, BegunIs DEF Tasks
<1>3. TaskTyped' /\ served' \subseteq Requests
  BY <1>1, <1>2, BegunIs, BeginTyped DEF JoinReset, rows, Begun
<1>4. UnreadTo(u) \subseteq Messages
  BY SentIs DEF UnreadTo
<1>5. HistoryTyped' /\ ChatTyped'
  BY <1>1, <1>4 DEF Typed, TypeOK, HistoryTyped, ChatTyped, JoinReset, rows
<1>. QED  BY <1>3, <1>5, TypedParts, TypedPartsNext DEF JoinReset, rows, sockets, RowsTyped,
             SocketsTyped

LEMMA JoinRoomTyped == ASSUME Typed, NEW r \in Requests, JoinRoom(r) PROVE Typed'
<1>1. Finish(r) /\ UNCHANGED <<sent, sender>> /\ linked' = linked
  BY DEF JoinRoom, rows, history
<1>2. TaskTyped' /\ served' \subseteq Requests
  BY <1>1, FinishTyped
<1>. QED  BY <1>2, TypedParts, TypedPartsNext
    DEF JoinRoom, rows, chat, history, RowsTyped, ChatTyped, SocketsTyped, HistoryTyped

LEMMA SendCheckTyped == ASSUME Typed, NEW r \in Requests, NEW u \in Users, SendCheck(r, u) PROVE Typed'
<1>1. [Begun("send", u) EXCEPT !.inRoom = InRoom(Other(u))] \in Tasks
  <2>1. InRoom(Other(u)) \in BOOLEAN
    BY DEF InRoom
  <2>. QED  BY <2>1, BegunIs DEF Tasks
<1>2. TaskTyped' /\ served' \subseteq Requests
  BY <1>1, BeginTyped DEF SendCheck, rows, history, Begun
<1>. QED  BY <1>2, TypedParts, TypedPartsNext
    DEF SendCheck, rows, chat, sockets, history, RowsTyped, ChatTyped, SocketsTyped, HistoryTyped

LEMMA SendSaveTyped == ASSUME Typed, NEW r \in Requests, SendSave(r) PROVE Typed'
<1>. DEFINE m == sent + 1
            v == Other(task[r].user)
<1>1. task[r] \in Tasks /\ task[r].user \in Users /\ task[r] # NoTask /\ task[r].op = "send" /\ m \in Messages
  BY TaskIs DEF SendSave, Running
<1>2. sent \in Nat /\ sent' = m /\ sent' \in 0..MaxMessages /\ 1..sent \subseteq 1..m /\ m \in 1..m
      /\ m \notin 1..sent /\ 1..sent \subseteq Messages
  BY <1>1, SentIs, MessageBound DEF SendSave, Messages
<1>3. RowsTyped' /\ ChatTyped'
  BY <1>1, <1>2 DEF Typed, TypeOK, RowsTyped, ChatTyped, SendSave, chat
<1>4. HistoryTyped'
  BY <1>1, <1>2, SentIs DEF Typed, TypeOK, HistoryTyped, SendSave
<1>5. task'[r] = [task[r] EXCEPT !.at = "saved", !.msg = m]
      /\ \A x \in Requests : x # r =>
            (task'[x] = task[x] \/ (x \in Marks(v) /\ task'[x] = [task[x] EXCEPT !.clean = FALSE]))
  BY DEF SendSave, Typed, TypeOK
<1>6. task'[r] \in Tasks /\ task'[r].at = "saved" /\ task'[r].msg = m /\ task'[r].op = "send"
      /\ task'[r].user = task[r].user
  <2>1. m \in 0..MaxMessages
    BY <1>2
  <2>. HIDE DEF m
  <2>. QED  BY <1>1, <1>5, <2>1 DEF Tasks
<1>7. ASSUME NEW x \in Requests, x # r PROVE
        /\ task'[x] \in Tasks \cup {NoTask}
        /\ task[x] = NoTask => task'[x] = NoTask
        /\ task[x] # NoTask => task'[x].op = task[x].op /\ task'[x].at = task[x].at
              /\ task'[x].user = task[x].user /\ task'[x].msg = task[x].msg
              /\ task'[x].inRoom = task[x].inRoom
        /\ task'[x] = NoTask => task[x] = NoTask
  <2>1. CASE task'[x] = task[x]
    BY <2>1 DEF Typed, TypeOK
  <2>2. CASE x \in Marks(v) /\ task'[x] = [task[x] EXCEPT !.clean = FALSE]
    BY <2>2, TaskIs DEF Marks, Tasks, NoTask
  <2>. QED  BY <1>5, <1>7, <2>1, <2>2
<1>8. task' \in [Requests -> Tasks \cup {NoTask}]
  <2>1. \A x \in Requests : task'[x] \in Tasks \cup {NoTask}
    BY <1>6, <1>7
  <2>2. task' = [x \in Requests |-> task'[x]]
    BY DEF SendSave
  <2>. QED  BY <2>1, <2>2
<1>9. sender'[m] = task[r].user /\ \A i \in 1..sent : sender'[i] = sender[i]
  BY <1>2, <1>1 DEF SendSave, Typed, TypeOK
<1>10. TaskOK(r)'
  BY <1>1, <1>2, <1>6, <1>9 DEF TaskOK, SendSave, Typed, TypeOK
<1>11. ASSUME NEW x \in Requests, x # r PROVE TaskOK(x)'
  <2>1. TaskOK(x) /\ linked' = linked
    BY DEF Typed, TasksOK, SendSave
  <2>2. CASE task[x] = NoTask
    BY <1>7, <1>11, <2>2 DEF TaskOK
  <2>3. CASE task[x] # NoTask
    BY <1>2, <1>7, <1>9, <1>11, <2>1, <2>3 DEF TaskOK
  <2>. QED  BY <2>2, <2>3
<1>12. OwnMessages'
  <2>1. ASSUME NEW x \in Requests, x # r, Saved(x)' PROVE task'[x].msg # m /\ Saved(x) /\ task'[x].msg = task[x].msg
    BY <1>2, <1>7, <2>1 DEF Saved, Typed, TasksOK, TaskOK
  <2>. QED  BY <1>6, <2>1 DEF OwnMessages, Typed
<1>. QED  BY <1>3, <1>4, <1>8, <1>10, <1>11, <1>12, TypedParts, TypedPartsNext
    DEF SendSave, sockets, SocketsTyped, TaskTyped, TasksOK

LEMMA SendLinkTyped == ASSUME Typed, NEW r \in Requests, SendLink(r) PROVE Typed'
<1>1. task[r] \in Tasks /\ task[r] # NoTask /\ TaskOK(r) /\ Saved(r) /\ task[r].op = "send"
      /\ task[r].at = "saved" /\ task[r].msg \in 1..sent
  BY TaskIs DEF SendLink, Running, Saved, TaskOK
<1>2. linked' = linked \cup {task[r].msg} /\ sent' = sent /\ sender' = sender
  BY DEF SendLink, rows
<1>3. TaskTyped' /\ served' \subseteq Requests
  <2>1. CASE Finish(r)
    BY <1>1, <1>2, <2>1, FinishTyped
  <2>2. CASE ~task[r].inRoom /\ task' = [task EXCEPT ![r].at = "linked"] /\ UNCHANGED served
    <3>1. [task[r] EXCEPT !.at = "linked"] \in Tasks
      BY <1>1 DEF Tasks
    <3>2. task' \in [Requests -> Tasks \cup {NoTask}] /\ served' \subseteq Requests
      BY <2>2, <3>1 DEF Typed, TypeOK
    <3>3. task'[r].at = "linked" /\ task'[r].op = "send" /\ task'[r].msg = task[r].msg
          /\ task'[r].user = task[r].user /\ task'[r].inRoom = task[r].inRoom
          /\ \A x \in Requests : x # r => task'[x] = task[x]
      BY <1>1, <2>2 DEF Typed, TypeOK, Tasks
    <3>4. TaskOK(r)'
      BY <1>1, <1>2, <2>2, <3>3 DEF TaskOK
    <3>5. ASSUME NEW x \in Requests, x # r PROVE TaskOK(x)'
      BY <1>1, <1>2, <3>3, <3>5 DEF TaskOK, Typed, TasksOK, OwnMessages, Saved
    <3>6. OwnMessages'
      BY <1>1, <3>3 DEF Typed, OwnMessages, Saved, NoTask
    <3>. QED  BY <3>2, <3>4, <3>5, <3>6 DEF TaskTyped, TasksOK
  <2>. QED  BY <2>1, <2>2 DEF SendLink
<1>4. ChatTyped'
  BY <1>1 DEF SendLink, rows, Typed, TypeOK, ChatTyped
<1>5. HistoryTyped'
  BY <1>1, <1>2 DEF SendLink, rows, Typed, TypeOK, HistoryTyped
<1>. QED  BY <1>3, <1>4, <1>5, TypedParts, TypedPartsNext
    DEF SendLink, rows, sockets, RowsTyped, SocketsTyped

LEMMA SendCountTyped == ASSUME Typed, NEW r \in Requests, SendCount(r) PROVE Typed'
<1>1. task[r].user \in Users
  BY TaskIs DEF SendCount, Running
<1>2. Finish(r) /\ UNCHANGED <<sent, sender>> /\ linked' = linked
  BY DEF SendCount, rows, history
<1>3. TaskTyped' /\ served' \subseteq Requests
  BY <1>2, FinishTyped
<1>4. ChatTyped'
  BY <1>1, OtherIs DEF SendCount, rows, Typed, TypeOK, ChatTyped
<1>. QED  BY <1>3, <1>4, TypedParts, TypedPartsNext
    DEF SendCount, rows, sockets, history, RowsTyped, SocketsTyped, HistoryTyped

LEMMA MarkReadTyped ==
  ASSUME Typed, NEW r \in Requests, NEW u \in Users, NEW upto, MarkRead(r, u, upto) PROVE Typed'
<1>. DEFINE c == PendingTo(u) = {} /\ Marks(u) = {}
            t == [Begun("mark", u) EXCEPT !.clean = c]
<1>1. t \in Tasks /\ t.op = "mark" /\ t.at = "begun"
  <2>1. ASSUME NEW b \in BOOLEAN PROVE
          LET x == [Begun("mark", u) EXCEPT !.clean = b] IN x \in Tasks /\ x.op = "mark" /\ x.at = "begun"
    BY BegunIs DEF Tasks
  <2>2. c \in BOOLEAN
    OBVIOUS
  <2>. HIDE DEF c
  <2>. QED  BY <2>1, <2>2
<1>2. task'[r] = t /\ task[r] = NoTask /\ UNCHANGED <<sent, sender, linked, served>>
      /\ \A x \in Requests : x # r =>
            (task'[x] = task[x] \/ (x \in Marks(u) /\ task'[x] = [task[x] EXCEPT !.clean = FALSE]))
  BY DEF MarkRead, Typed, TypeOK, history
<1>. HIDE DEF t
<1>3. ASSUME NEW x \in Requests, x # r PROVE
        /\ task'[x] \in Tasks \cup {NoTask}
        /\ task[x] = NoTask => task'[x] = NoTask
        /\ task[x] # NoTask => task'[x].op = task[x].op /\ task'[x].at = task[x].at
              /\ task'[x].user = task[x].user /\ task'[x].msg = task[x].msg
              /\ task'[x].inRoom = task[x].inRoom
        /\ task'[x] = NoTask => task[x] = NoTask
  <2>1. CASE task'[x] = task[x]
    BY <2>1 DEF Typed, TypeOK
  <2>2. CASE x \in Marks(u) /\ task'[x] = [task[x] EXCEPT !.clean = FALSE]
    BY <2>2, TaskIs DEF Marks, Tasks, NoTask
  <2>. QED  BY <1>2, <1>3, <2>1, <2>2
<1>4. task' \in [Requests -> Tasks \cup {NoTask}]
  <2>1. \A x \in Requests : task'[x] \in Tasks \cup {NoTask}
    BY <1>1, <1>2, <1>3
  <2>2. task' = [x \in Requests |-> task'[x]]
    BY DEF MarkRead
  <2>. QED  BY <2>1, <2>2
<1>5. TaskOK(r)'
  BY <1>1, <1>2 DEF TaskOK
<1>6. ASSUME NEW x \in Requests, x # r PROVE TaskOK(x)'
  <2>1. TaskOK(x)
    BY DEF Typed, TasksOK
  <2>2. CASE task[x] = NoTask
    BY <1>3, <1>6, <2>2 DEF TaskOK
  <2>3. CASE task[x] # NoTask
    BY <1>2, <1>3, <1>6, <2>1, <2>3 DEF TaskOK
  <2>. QED  BY <2>2, <2>3
<1>7. OwnMessages'
  BY <1>1, <1>2, <1>3 DEF Typed, OwnMessages, Saved
<1>8. RowsTyped'
  BY DEF Typed, TypeOK, RowsTyped, MarkRead, UnreadTo
<1>. QED  BY <1>2, <1>4, <1>5, <1>6, <1>7, <1>8, TypedParts, TypedPartsNext
    DEF MarkRead, chat, sockets, history, ChatTyped, SocketsTyped, HistoryTyped, TaskTyped, TasksOK

LEMMA UnreadFinite ==
  ASSUME Typed, NEW u, NEW Z
  PROVE  /\ IsFiniteSet(UnreadTo(u)) /\ Cardinality(UnreadTo(u)) \in Nat
         /\ IsFiniteSet(UnreadTo(u) \ Z) /\ Cardinality(UnreadTo(u) \ Z) \in Nat
<1>1. IsFiniteSet(1..sent)
  BY SentIs, FS_Interval
<1>2. IsFiniteSet(UnreadTo(u)) /\ IsFiniteSet(UnreadTo(u) \ Z)
  BY <1>1, FS_Subset DEF UnreadTo
<1>. QED  BY <1>2, FS_CardinalityType

LEMMA MarkRecountTyped == ASSUME Typed, NEW r \in Requests, MarkRecount(r) PROVE Typed'
<1>. DEFINE n == Cardinality(UnreadTo(task[r].user))
            t == [task[r] EXCEPT !.at = "counted", !.seen = n]
<1>1. task[r] \in Tasks /\ task[r] # NoTask /\ task[r].op = "mark"
  BY TaskIs DEF MarkRecount, Running
<1>2. n \in Nat
  BY UnreadFinite
<1>. HIDE DEF n
<1>3. t \in Tasks /\ t.op = "mark" /\ t.at = "counted"
  BY <1>1, <1>2 DEF Tasks
<1>4. task' = [task EXCEPT ![r] = t]
  BY <1>1 DEF MarkRecount, n, Tasks, Typed, TypeOK
<1>. HIDE DEF t
<1>5. task' \in [Requests -> Tasks \cup {NoTask}]
  BY <1>3, <1>4 DEF Typed, TypeOK
<1>6. task'[r] = t /\ \A x \in Requests : x # r => task'[x] = task[x]
  BY <1>4 DEF Typed, TypeOK
<1>7. UNCHANGED <<sent, sender, linked>>
  BY DEF MarkRecount, rows, history
<1>8. TaskOK(r)'
  BY <1>3, <1>6 DEF TaskOK
<1>9. ASSUME NEW x \in Requests, x # r PROVE TaskOK(x)'
  BY <1>6, <1>7, <1>9 DEF TaskOK, Typed, TasksOK
<1>10. OwnMessages'
  BY <1>3, <1>6 DEF OwnMessages, Saved, Typed
<1>. QED  BY <1>5, <1>8, <1>9, <1>10, TypedParts, TypedPartsNext
    DEF MarkRecount, rows, chat, sockets, history, RowsTyped, ChatTyped, SocketsTyped, HistoryTyped,
        TaskTyped, TasksOK

LEMMA MarkStoreTyped == ASSUME Typed, NEW r \in Requests, MarkStore(r) PROVE Typed'
<1>1. task[r].user \in Users /\ task[r].seen \in Nat
  BY TaskIs DEF MarkStore, Running
<1>2. Finish(r) /\ UNCHANGED <<sent, sender>> /\ linked' = linked
  BY DEF MarkStore, rows
<1>3. TaskTyped' /\ served' \subseteq Requests
  BY <1>2, FinishTyped
<1>4. ChatTyped' /\ HistoryTyped'
  BY <1>1 DEF MarkStore, rows, Typed, TypeOK, ChatTyped, HistoryTyped
<1>. QED  BY <1>3, <1>4, TypedParts, TypedPartsNext DEF MarkStore, rows, sockets, RowsTyped,
             SocketsTyped

LEMMA ValidateTyped ==
  ASSUME Typed, NEW r \in Requests, NEW u \in Users, NEW m \in Messages,
         NEW op \in {"update", "delete"}, Validate(r, op, u, m)
  PROVE  Typed'
<1>1. [Begun(op, u) EXCEPT !.msg = m] \in Tasks
  BY BegunIs, MessageBound DEF Tasks, Messages
<1>2. TaskTyped' /\ served' \subseteq Requests
  BY <1>1, BegunIs, BeginTyped DEF Validate, rows, history, Begun
<1>. QED  BY <1>2, TypedParts, TypedPartsNext
    DEF Validate, rows, chat, sockets, history, RowsTyped, ChatTyped, SocketsTyped, HistoryTyped

LEMMA WritesTyped == ASSUME Typed, NEW r \in Requests, UpdateWrite(r) \/ DeleteWrite(r) PROVE Typed'
<1>1. task[r].msg \in 1..sent
  BY TaskIs DEF UpdateWrite, DeleteWrite, Running, TaskOK
<1>2. Finish(r) /\ UNCHANGED <<sent, sender>> /\ linked' = linked
  BY DEF UpdateWrite, DeleteWrite, history
<1>3. TaskTyped' /\ served' \subseteq Requests
  BY <1>2, FinishTyped
<1>4. RowsTyped' /\ HistoryTyped'
  BY <1>1 DEF UpdateWrite, DeleteWrite, history, Typed, TypeOK, RowsTyped, HistoryTyped
<1>. QED  BY <1>3, <1>4, TypedParts, TypedPartsNext
    DEF UpdateWrite, DeleteWrite, chat, sockets, ChatTyped, SocketsTyped

LEMMA AbortTyped == ASSUME Typed, NEW r \in Requests, Abort(r) PROVE Typed'
<1>1. Finish(r) /\ UNCHANGED <<sent, sender>> /\ linked' = linked
  BY DEF Abort, rows
<1>2. TaskTyped' /\ served' \subseteq Requests
  BY <1>1, FinishTyped
<1>. QED  BY <1>2, TypedParts, TypedPartsNext
    DEF Abort, rows, chat, sockets, RowsTyped, ChatTyped, SocketsTyped, HistoryTyped, Typed, TypeOK

LEMMA TypedNext == Typed /\ [Next]_vars => Typed'
<1>. SUFFICES ASSUME Typed, [Next]_vars PROVE Typed'
  OBVIOUS
<1>1. CASE UNCHANGED vars
  BY <1>1 DEF Typed, TypeOK, TasksOK, TaskOK, OwnMessages, Saved, vars, rows, chat, sockets, history
<1>2. CASE SocketStep
  BY <1>2, SocketStepTyped
<1>3. CASE BeginStep
  BY <1>3, JoinResetTyped, SendCheckTyped, MarkReadTyped, ValidateTyped DEF BeginStep
<1>4. CASE ResumeStep
  BY <1>4, JoinRoomTyped, SendSaveTyped, SendLinkTyped, SendCountTyped, MarkRecountTyped,
     MarkStoreTyped, WritesTyped, AbortTyped DEF ResumeStep
<1>. QED  BY <1>1, <1>2, <1>3, <1>4 DEF Next

\* ChatMessages' types: among them that only connected sockets are in the room,
\* and that the flags and the last message speak of messages that are saved.
THEOREM TypeCorrect == Spec => []TypeOK
<1>1. Typed => TypeOK
  BY DEF Typed
<1>. QED  BY <1>1, TypedInit, TypedNext, PTL DEF Spec

-----------------------------------------------------------------------------
(* The last message and the texts *)

LEMMA LinkInit == Init => LinkInv
BY DEF Init, LinkInv, OlderLinked, LastNeverGoesBack

LEMMA LinkKept == ASSUME LinkInv, UNCHANGED <<last, linked, older>> PROVE LinkInv'
BY DEF LinkInv, OlderLinked, LastNeverGoesBack

LEMMA SaveLink == ASSUME Typed, LinkInv, NEW r \in Requests, SendSave(r) PROVE LinkInv'
<1>1. sent + 1 \notin linked
  BY SentIs DEF Typed, TypeOK
<1>2. \A m \in Messages : older'[m] = IF m = sent + 1 THEN linked ELSE older[m]
  BY DEF SendSave, Typed, TypeOK
<1>. QED  BY <1>1, <1>2, SentIs DEF SendSave, chat, LinkInv, OlderLinked, LastNeverGoesBack

\* What is linked now was not when any of the messages linked so far was saved.
LEMMA LinkLink == ASSUME Typed, LinkInv, NEW r \in Requests, SendLink(r) PROVE LinkInv'
<1>1. task[r].msg \notin linked /\ task[r].msg \in 1..sent
  BY TaskIs DEF SendLink, Running, TaskOK
<1>2. last' = task[r].msg /\ linked' = linked \cup {task[r].msg} /\ older' = older
  BY DEF SendLink
<1>. QED  BY <1>1, <1>2, SentIs DEF LinkInv, OlderLinked, LastNeverGoesBack

LEMMA LinkNext == Typed /\ LinkInv /\ [Next]_vars => LinkInv'
<1>. SUFFICES ASSUME Typed, LinkInv, [Next]_vars PROVE LinkInv'
  OBVIOUS
<1>1. CASE UNCHANGED <<last, linked, older>>
  BY <1>1, LinkKept
<1>2. ASSUME NEW r \in Requests, SendSave(r) \/ SendLink(r) PROVE LinkInv'
  BY <1>2, SaveLink, LinkLink
<1>3. CASE SocketStep
  BY <1>1, <1>3 DEF SocketStep, Connect, Disconnect, LeaveChat, chat, history
<1>4. CASE BeginStep
  BY <1>1, <1>4 DEF BeginStep, JoinReset, SendCheck, MarkRead, Validate, chat, history
<1>5. CASE ResumeStep
  <2>. SUFFICES ASSUME NEW r \in Requests,
                       \/ JoinRoom(r) \/ SendCount(r) \/ MarkRecount(r) \/ MarkStore(r)
                       \/ UpdateWrite(r) \/ DeleteWrite(r) \/ Abort(r)
                PROVE  LinkInv'
    BY <1>2, <1>5 DEF ResumeStep
  <2>. QED  BY <1>1 DEF JoinRoom, SendCount, MarkRecount, MarkStore, UpdateWrite, DeleteWrite,
               Abort,
                        chat, history
<1>. QED  BY <1>1, <1>3, <1>4, <1>5 DEF Next, vars, chat, history

LEMMA TextInit == Init => TextInv
BY DEF Init, TextInv, EditsKnown, TextFits, Running

\* A step that leaves the texts and begins no edit.
LEMMA TextKept ==
  ASSUME Typed, TextInv, UNCHANGED <<deleted, blank, contested>>,
         \A x \in Requests : Running(x, "update", "begun")' /\ task'[x].msg \in deleted =>
            Running(x, "update", "begun") /\ task'[x].msg = task[x].msg
  PROVE  TextInv'
BY DEF TextInv, EditsKnown, TextFits

LEMMA BeginText ==
  ASSUME Typed, TextInv, NEW r \in Requests, NEW t, Begin(r, t), UNCHANGED <<deleted, blank, contested>>,
         t.op = "update" => t.msg \notin deleted
  PROVE  TextInv'
<1>1. task'[r] = t /\ \A x \in Requests : x # r => task'[x] = task[x]
  BY DEF Begin, Typed, TypeOK
<1>. QED  BY <1>1, TextKept DEF Running

LEMMA FinishText ==
  ASSUME Typed, TextInv, NEW r \in Requests, Finish(r), UNCHANGED <<deleted, blank, contested>>
  PROVE  TextInv'
<1>1. task'[r] = NoTask /\ \A x \in Requests : x # r => task'[x] = task[x]
  BY DEF Finish, Typed, TypeOK
<1>. QED  BY <1>1, TextKept DEF Running

LEMMA WritesText ==
  ASSUME Typed, TextInv, NEW r \in Requests, UpdateWrite(r) \/ DeleteWrite(r) PROVE TextInv'
<1>1. task'[r] = NoTask /\ \A x \in Requests : x # r => task'[x] = task[x]
  BY DEF UpdateWrite, DeleteWrite, Finish, Typed, TypeOK
<1>2. \A x \in Requests : Running(x, "update", "begun")' =>
        Running(x, "update", "begun") /\ task'[x].msg = task[x].msg
  BY <1>1 DEF Running
<1>3. CASE UpdateWrite(r)
  BY <1>2, <1>3 DEF UpdateWrite, history, TextInv, EditsKnown, TextFits
<1>4. CASE DeleteWrite(r)
  BY <1>2, <1>4 DEF DeleteWrite, TextInv, EditsKnown, TextFits
<1>. QED  BY <1>3, <1>4

LEMMA TextNext == Typed /\ TextInv /\ [Next]_vars => TextInv'
<1>. SUFFICES ASSUME Typed, TextInv, [Next]_vars PROVE TextInv'
  OBVIOUS
<1>1. CASE UNCHANGED vars \/ SocketStep
  BY <1>1, TextKept DEF vars, rows, history, SocketStep, Connect, Disconnect, LeaveChat, Running
<1>2. ASSUME NEW r \in Requests, NEW s \in Sockets, JoinReset(r, s) PROVE TextInv'
  BY <1>2, OwnerIsUser, BeginText DEF JoinReset, rows, Begun
<1>3. ASSUME NEW r \in Requests, NEW u \in Users, SendCheck(r, u) PROVE TextInv'
  BY <1>3, BeginText DEF SendCheck, rows, history, Begun
<1>4. ASSUME NEW r \in Requests, NEW u \in Users, NEW m \in Messages, NEW op \in {"update", "delete"},
             Validate(r, op, u, m) PROVE TextInv'
  BY <1>4, BeginText DEF Validate, rows, history, Begun
<1>5. ASSUME NEW r \in Requests, NEW u \in Users, NEW upto, MarkRead(r, u, upto) PROVE TextInv'
  <2>1. \A x \in Requests : Running(x, "update", "begun")' => task'[x] = task[x]
    <3>1. task'[r].op = "mark" /\ \A x \in Marks(u) : task[x] \in Tasks /\ task[x].op = "mark"
      BY <1>5, TaskIs DEF MarkRead, Begun, Marks
    <3>2. \A x \in Requests : x # r =>
            (task'[x] = task[x] \/ (x \in Marks(u) /\ task'[x] = [task[x] EXCEPT !.clean = FALSE]))
      BY <1>5 DEF MarkRead
    <3>3. \A x \in Marks(u) : [task[x] EXCEPT !.clean = FALSE].op = "mark"
      BY <3>1 DEF Tasks
    <3>. QED  BY <3>1, <3>2, <3>3 DEF Running
  <2>. QED  BY <1>5, <2>1, TextKept DEF MarkRead, history, Running
<1>6. ASSUME NEW r \in Requests, SendSave(r) PROVE TextInv'
  <2>1. \A x \in Requests : Running(x, "update", "begun")' => task'[x] = task[x]
    <3>1. task[r] \in Tasks /\ task[r].op = "send"
      BY <1>6, TaskIs DEF SendSave, Running
    <3>2. task'[r].op = "send"
      BY <1>6, <3>1 DEF SendSave, Tasks
    <3>3. \A x \in Marks(Other(task[r].user)) : task[x] \in Tasks /\ task[x].op = "mark"
      BY TaskIs DEF Marks
    <3>4. \A x \in Requests : x # r =>
            (task'[x] = task[x] \/ (x \in Marks(Other(task[r].user))
                                    /\ task'[x] = [task[x] EXCEPT !.clean = FALSE]))
      BY <1>6 DEF SendSave
    <3>5. \A x \in Marks(Other(task[r].user)) : [task[x] EXCEPT !.clean = FALSE].op = "mark"
      BY <3>3 DEF Tasks
    <3>. QED  BY <3>2, <3>4, <3>5 DEF Running
  <2>. QED  BY <1>6, <2>1, TextKept DEF SendSave, Running
<1>7. ASSUME NEW r \in Requests, SendLink(r) \/ MarkRecount(r) PROVE TextInv'
  <2>1. \/ task[r] \in Tasks /\ task[r].op \in {"send", "mark"} /\ task'[r].op = task[r].op
        \/ task'[r] = NoTask
    BY <1>7, TaskIs DEF SendLink, MarkRecount, Finish, Running, Tasks, Typed, TypeOK
  <2>2. \A x \in Requests : x # r => task'[x] = task[x]
    BY <1>7 DEF SendLink, MarkRecount, Finish, Typed, TypeOK
  <2>. QED  BY <1>7, <2>1, <2>2, TextKept DEF SendLink, MarkRecount, rows, history, Running
<1>8. ASSUME NEW r \in Requests, JoinRoom(r) \/ SendCount(r) \/ MarkStore(r) \/ Abort(r) PROVE TextInv'
  BY <1>8, FinishText DEF JoinRoom, SendCount, MarkStore, Abort, rows, history
<1>9. CASE BeginStep
  BY <1>2, <1>3, <1>4, <1>5, <1>9 DEF BeginStep
<1>10. CASE ResumeStep
  BY <1>6, <1>7, <1>8, <1>10, WritesText DEF ResumeStep
<1>. QED  BY <1>1, <1>9, <1>10 DEF Next

\* The chat's last message never goes back to one that had been last before a
\* later linked message was saved; a message has the text of a deletion exactly
\* if it is deleted, unless an edit of it overlapped the deletion.
THEOREM MessagesSoundHolds == Spec => []MessagesSound
<1>1. Init => Typed /\ LinkInv /\ TextInv
  BY TypedInit, LinkInit, TextInit
<1>2. Typed /\ LinkInv /\ TextInv /\ [Next]_vars => (Typed /\ LinkInv /\ TextInv)'
  BY TypedNext, LinkNext, TextNext
<1>3. Typed /\ LinkInv /\ TextInv => MessagesSound
  BY DEF LinkInv, TextInv, MessagesSound
<1>. QED  BY <1>1, <1>2, <1>3, PTL DEF Spec

-----------------------------------------------------------------------------
(* The unread counters *)

LEMMA PendingFinite == ASSUME NEW u PROVE
    IsFiniteSet(PendingTo(u)) /\ Cardinality(PendingTo(u)) \in Nat
BY FiniteRequests, FS_Subset, FS_CardinalityType DEF PendingTo

LEMMA UnreadInit == Init => UnreadInv
<1>. SUFFICES ASSUME Init, NEW u \in Users PROVE UserInv(u)
  BY DEF UnreadInv
<1>1. PendingTo(u) = {} /\ PendingMessages(u) = {} /\ Marks(u) = {}
  BY DEF Init, PendingTo, PendingMessages, Marks
<1>2. UnreadTo(u) = {} /\ unread[u] = 0 /\ zeroed[u] = {}
  BY DEF Init, UnreadTo
<1>3. UnreadTo(u) \ zeroed[u] = {}
  BY <1>2
<1>4. Cardinality(PendingTo(u)) = 0 /\ Cardinality(UnreadTo(u) \ zeroed[u]) = 0
  BY <1>1, <1>3, FS_EmptySet
<1>. QED  BY <1>1, <1>2, <1>4 DEF UserInv, CleanMarks, Exact

\* Steps of tasks that neither count for u nor mark for u.
LEMMA TasksAside ==
  ASSUME NEW u,
         \A x \in Requests : task'[x] = task[x]
            \/ (x \notin PendingTo(u) \cup Marks(u) /\ x \notin (PendingTo(u) \cup Marks(u))')
  PROVE  /\ PendingTo(u)' = PendingTo(u) /\ PendingMessages(u)' = PendingMessages(u)
         /\ Marks(u)' = Marks(u) /\ \A x \in Marks(u) : task'[x] = task[x]
<1>1. PendingTo(u)' = PendingTo(u) /\ Marks(u)' = Marks(u)
  BY DEF PendingTo, Marks
<1>2. \A x \in PendingTo(u) \cup Marks(u) : task'[x] = task[x]
  BY DEF PendingTo, Marks
<1>. QED  BY <1>1, <1>2 DEF PendingMessages

LEMMA UnreadKept ==
  ASSUME NEW u, UserInv(u), 1..sent \subseteq 1..sent', UnreadTo(u)' = UnreadTo(u),
         unread'[u] = unread[u], zeroed'[u] = zeroed[u], u \in blurred => u \in blurred',
         PendingTo(u)' = PendingTo(u), PendingMessages(u)' = PendingMessages(u),
         Marks(u)' = Marks(u), \A x \in Marks(u) : task'[x] = task[x]
  PROVE  UserInv(u)'
BY DEF UserInv, CleanMarks, Exact

LEMMA UnreadSame == ASSUME UNCHANGED <<sent, sender, read>>, NEW u PROVE
    UnreadTo(u)' = UnreadTo(u) /\ 1..sent \subseteq 1..sent'
BY DEF UnreadTo

LEMMA BeginAside ==
  ASSUME Typed, NEW r \in Requests, NEW t, Begin(r, t), NEW u,
         t.op # "mark", t.at = "begun"
  PROVE  \A x \in Requests : task'[x] = task[x]
            \/ (x \notin PendingTo(u) \cup Marks(u) /\ x \notin (PendingTo(u) \cup Marks(u))')
<1>1. task[r] = NoTask /\ task'[r] = t /\ \A x \in Requests : x # r => task'[x] = task[x]
  BY DEF Begin, Typed, TypeOK
<1>. QED  BY <1>1 DEF PendingTo, Marks

LEMMA FinishAside ==
  ASSUME Typed, NEW r \in Requests, Finish(r), NEW u, r \notin PendingTo(u) \cup Marks(u)
  PROVE  \A x \in Requests : task'[x] = task[x]
            \/ (x \notin PendingTo(u) \cup Marks(u) /\ x \notin (PendingTo(u) \cup Marks(u))')
<1>1. task'[r] = NoTask /\ \A x \in Requests : x # r => task'[x] = task[x]
  BY DEF Finish, Typed, TypeOK
<1>. QED  BY <1>1 DEF PendingTo, Marks

\* Beginning to send or to write, and what is neither a send nor a mark.
LEMMA AsideUnread ==
  ASSUME Typed, UnreadInv, UNCHANGED <<sent, sender, read, unread, zeroed, blurred>>,
         \/ UNCHANGED task
         \/ \E r \in Requests : \E t : Begin(r, t) /\ t.op # "mark" /\ t.at = "begun"
         \/ \E r \in Requests : Finish(r) /\ task[r] # NoTask /\ task[r].op \in {"join", "update", "delete"}
  PROVE  UnreadInv'
<1>. SUFFICES ASSUME NEW u \in Users PROVE UserInv(u)'
  BY DEF UnreadInv
<1>1. UserInv(u)
  BY DEF UnreadInv
<1>2. CASE UNCHANGED task
  BY <1>1, <1>2, TasksAside, UnreadKept, UnreadSame
<1>3. CASE \E r \in Requests : \E t : Begin(r, t) /\ t.op # "mark" /\ t.at = "begun"
  BY <1>1, <1>3, BeginAside, TasksAside, UnreadKept, UnreadSame
<1>4. CASE \E r \in Requests : Finish(r) /\ task[r] # NoTask /\ task[r].op \in {"join", "update", "delete"}
  <2>1. PICK r \in Requests : Finish(r) /\ task[r] # NoTask /\ task[r].op \in {"join", "update", "delete"}
    BY <1>4
  <2>2. r \notin PendingTo(u) \cup Marks(u)
    BY <2>1 DEF PendingTo, Marks
  <2>. QED  BY <1>1, <2>1, <2>2, FinishAside, TasksAside, UnreadKept, UnreadSame
<1>. QED  BY <1>2, <1>3, <1>4

LEMMA JoinResetUnread ==
  ASSUME Typed, UnreadInv, NEW r \in Requests, NEW s \in Sockets, JoinReset(r, s) PROVE UnreadInv'
<1>. SUFFICES ASSUME NEW u \in Users PROVE UserInv(u)'
  BY DEF UnreadInv
<1>1. UserInv(u) /\ Owner[s] \in Users
  BY OwnerIsUser DEF UnreadInv
<1>2. PendingTo(u)' = PendingTo(u) /\ PendingMessages(u)' = PendingMessages(u)
      /\ Marks(u)' = Marks(u) /\ \A x \in Marks(u) : task'[x] = task[x]
  BY BeginAside, TasksAside DEF JoinReset, Begun
<1>3. CASE u # Owner[s]
  BY <1>1, <1>2, <1>3, UnreadKept, UnreadSame DEF JoinReset, rows, Typed, TypeOK
<1>4. CASE u = Owner[s]
  <2>1. unread'[u] = 0 /\ zeroed'[u] = UnreadTo(u) \ PendingMessages(u) /\ UnreadTo(u)' = UnreadTo(u)
        /\ sent' = sent /\ blurred' = IF PendingTo(u) = {} THEN blurred \ {u} ELSE blurred
    BY <1>1, <1>4 DEF JoinReset, rows, UnreadTo, Typed, TypeOK
  <2>2. zeroed'[u] \subseteq 1..sent' /\ CleanMarks(u)'
    BY <1>1, <1>2, <2>1 DEF UserInv, CleanMarks, UnreadTo
  <2>3. ASSUME u \notin blurred', Marks(u)' = {} PROVE Exact(u)'
    <3>1. PendingMessages(u) \subseteq UnreadTo(u)
      BY <1>1, <1>2, <2>1, <2>3 DEF UserInv, Exact, PendingMessages
    <3>2. UnreadTo(u)' \ zeroed'[u] = PendingMessages(u)
      BY <2>1, <3>1
    <3>3. Cardinality(PendingMessages(u)) = Cardinality(PendingTo(u))
      <4>1. \A x, y \in PendingTo(u) : task[x].msg = task[y].msg => x = y
        BY DEF PendingTo, Typed, OwnMessages, Saved
      <4>2. LET f == [x \in PendingTo(u) |-> task[x].msg] IN f \in Bijection(PendingTo(u), PendingMessages(u))
        BY <4>1 DEF PendingMessages, Bijection, Injection, Surjection, IsInjective
      <4>3. ExistsBijection(PendingTo(u), PendingMessages(u))
        BY <4>2 DEF ExistsBijection
      <4>. QED  BY <4>3, PendingFinite, FS_Bijection
    <3>. QED  BY <1>2, <2>1, <3>2, <3>3, PendingFinite DEF Exact
  <2>. QED  BY <2>2, <2>3 DEF UserInv
<1>. QED  BY <1>3, <1>4

\* A message to u that is saved is unread and has its increment on the way, or
\* is read and has none.
LEMMA SendSaveUnread == ASSUME Typed, UnreadInv, NEW r \in Requests, SendSave(r) PROVE UnreadInv'
<1>. DEFINE m == sent + 1
            v == Other(task[r].user)
<1>1. task[r] \in Tasks /\ task[r].user \in Users /\ task[r] # NoTask /\ task[r].op = "send"
      /\ task[r].at = "begun" /\ m \in Messages
  BY TaskIs DEF SendSave, Running
<1>2. sent \in Nat /\ sent' = m /\ 1..sent' = 1..sent \cup {m} /\ m \notin 1..sent /\ m \notin read
  <2>1. sent \in Nat /\ sent' = m /\ read \subseteq 1..sent
    BY SentIs DEF SendSave, Typed, TypeOK
  <2>. QED  BY <2>1
<1>3. task'[r] = [task[r] EXCEPT !.at = "saved", !.msg = m]
      /\ \A x \in Requests : x # r =>
            (task'[x] = IF x \in Marks(v) THEN [task[x] EXCEPT !.clean = FALSE] ELSE task[x])
  BY DEF SendSave
<1>4. task'[r].op = "send" /\ task'[r].at = "saved" /\ task'[r].msg = m /\ task'[r] # NoTask
      /\ task'[r].user = task[r].user /\ task'[r].inRoom = task[r].inRoom
  BY <1>1, <1>3 DEF Tasks, NoTask
<1>5. \A x \in Marks(v) : task[x] \in Tasks
  BY TaskIs DEF Marks
<1>6. \A x \in Marks(v) : [task[x] EXCEPT !.clean = FALSE].op = "mark"
        /\ [task[x] EXCEPT !.clean = FALSE].user = v /\ [task[x] EXCEPT !.clean = FALSE].clean = FALSE
  BY <1>5 DEF Marks, Tasks
<1>7. \A u : r \notin Marks(u) /\ r \notin Marks(u)' /\ r \notin PendingTo(u)
  BY <1>1, <1>4 DEF Marks, PendingTo
<1>. SUFFICES ASSUME NEW u \in Users PROVE UserInv(u)'
  BY DEF UnreadInv
<1>8. UserInv(u)
  BY DEF UnreadInv
<1>9. sender'[m] = task[r].user /\ \A i \in 1..sent : sender'[i] = sender[i]
  BY <1>1, <1>2 DEF SendSave, Typed, TypeOK
<1>10. UNCHANGED <<unread, zeroed, blurred>> /\ read' = IF task[r].inRoom THEN read \cup {m} ELSE read
  BY DEF SendSave, chat
<1>11. CASE u # v
  <2>1. u = task[r].user /\ Other(u) # u
    BY <1>1, <1>11, OtherIs
  <2>2. UnreadTo(u)' = UnreadTo(u)
    BY <1>2, <1>9, <1>10, <2>1 DEF UnreadTo
  <2>3. r \notin PendingTo(u)'
    BY <1>4, <2>1 DEF PendingTo
  <2>4. \A x \in Marks(v) : x \notin PendingTo(u) \cup Marks(u) /\ x \notin (PendingTo(u) \cup Marks(u))'
    BY <1>3, <1>6, <1>7, <1>11 DEF PendingTo, Marks
  <2>5. /\ PendingTo(u)' = PendingTo(u) /\ PendingMessages(u)' = PendingMessages(u)
        /\ Marks(u)' = Marks(u) /\ \A x \in Marks(u) : task'[x] = task[x]
    <3>1. \A x \in Requests : task'[x] = task[x]
            \/ (x \notin PendingTo(u) \cup Marks(u) /\ x \notin (PendingTo(u) \cup Marks(u))')
      BY <1>3, <1>7, <2>3, <2>4
    <3>. QED  BY <3>1, TasksAside
  <2>. QED  BY <1>2, <1>8, <1>10, <2>2, <2>5, UnreadKept
<1>12. CASE u = v
  <2>1. Other(u) = task[r].user
    BY <1>1, <1>12, OtherIs
  <2>2. Marks(u)' = Marks(u) /\ \A x \in Marks(u) : ~task'[x].clean
    <3>1. \A x \in Marks(u) : x \in Requests /\ x # r /\ task'[x] = [task[x] EXCEPT !.clean = FALSE]
      BY <1>3, <1>7, <1>12 DEF Marks
    <3>2. \A x \in Marks(u) : task'[x] # NoTask /\ task'[x].op = "mark" /\ task'[x].user = u
      <4>1. \A x \in Marks(u) : task'[x].op = "mark" /\ task'[x].user = u
        BY <1>6, <1>12, <3>1
      <4>. QED  BY <4>1 DEF NoTask
    <3>3. \A x \in Marks(u) : task'[x].clean = FALSE
      BY <1>6, <1>12, <3>1
    <3>4. \A x \in Requests : x \notin Marks(u) /\ x # r => task'[x] = task[x]
      BY <1>3, <1>12
    <3>5. \A x \in Requests : x \in Marks(u)' <=> x \in Marks(u)
      BY <1>7, <3>2, <3>4 DEF Marks
    <3>6. Marks(u)' = Marks(u)
      BY <3>5 DEF Marks
    <3>. QED  BY <3>3, <3>6
  <2>3. zeroed'[u] \subseteq 1..sent' /\ CleanMarks(u)'
    BY <1>2, <1>8, <1>10, <2>2 DEF UserInv, CleanMarks
  <2>4. ASSUME u \notin blurred', Marks(u)' = {} PROVE Exact(u)'
    <3>1. Exact(u) /\ zeroed[u] \subseteq 1..sent
      BY <1>8, <1>10, <2>2, <2>4 DEF UserInv
    <3>2. \A x \in Requests : x # r => task'[x] = task[x]
      BY <1>3, <1>12, <2>2, <2>4
    <3>3. CASE task[r].inRoom
      <4>1. UnreadTo(u)' = UnreadTo(u)
        BY <1>2, <1>9, <1>10, <3>3 DEF UnreadTo
      <4>2. r \notin PendingTo(u)'
        BY <1>4, <3>3 DEF PendingTo
      <4>3. PendingTo(u)' = PendingTo(u) /\ PendingMessages(u)' = PendingMessages(u)
        <5>1. \A x \in Requests : task'[x] = task[x]
                \/ (x \notin PendingTo(u) \cup Marks(u) /\ x \notin (PendingTo(u) \cup Marks(u))')
          BY <1>7, <3>2, <4>2
        <5>. QED  BY <5>1, TasksAside
      <4>. QED  BY <1>10, <3>1, <4>1, <4>3 DEF Exact
    <3>4. CASE ~task[r].inRoom
      <4>1. UnreadTo(u)' = UnreadTo(u) \cup {m} /\ m \notin UnreadTo(u)
        BY <1>2, <1>9, <1>10, <2>1, <3>4 DEF UnreadTo
      <4>2. UnreadTo(u)' \ zeroed'[u] = (UnreadTo(u) \ zeroed[u]) \cup {m}
            /\ m \notin UnreadTo(u) \ zeroed[u]
        BY <1>2, <1>10, <3>1, <4>1
      <4>3. PendingTo(u)' = PendingTo(u) \cup {r}
        BY <1>1, <1>4, <2>1, <3>2, <3>4 DEF PendingTo
      <4>4. PendingMessages(u)' = PendingMessages(u) \cup {m}
        <5>1. \A x \in PendingTo(u) : x # r /\ task'[x].msg = task[x].msg
          BY <1>7, <3>2 DEF PendingTo
        <5>. QED  BY <1>4, <4>3, <5>1 DEF PendingMessages
      <4>5. Cardinality((UnreadTo(u) \ zeroed[u]) \cup {m}) = Cardinality(UnreadTo(u) \ zeroed[u]) + 1
        BY <4>2, UnreadFinite, FS_AddElement
      <4>6. Cardinality(PendingTo(u) \cup {r}) = Cardinality(PendingTo(u)) + 1
        BY <1>7, PendingFinite, FS_AddElement
      <4>7. unread[u] \in Nat /\ Cardinality(PendingTo(u)) \in Nat
        BY PendingFinite DEF Typed, TypeOK
      <4>8. unread[u] + Cardinality(PendingTo(u)) = Cardinality(UnreadTo(u) \ zeroed[u])
            /\ PendingMessages(u) \subseteq UnreadTo(u) \ zeroed[u] /\ unread' = unread
        BY <1>10, <3>1 DEF Exact
      <4>9. unread'[u] + Cardinality(PendingTo(u)') = Cardinality(UnreadTo(u)' \ zeroed'[u])
        <5>1. Cardinality(PendingTo(u)') = Cardinality(PendingTo(u)) + 1
          BY <4>3, <4>6
        <5>2. Cardinality(UnreadTo(u)' \ zeroed'[u]) = Cardinality(UnreadTo(u) \ zeroed[u]) + 1
          BY <4>2, <4>5
        <5>. QED  BY <4>7, <4>8, <5>1, <5>2
      <4>. QED  BY <4>2, <4>4, <4>8, <4>9 DEF Exact
    <3>. QED  BY <3>3, <3>4
  <2>. QED  BY <2>3, <2>4 DEF UserInv
<1>. QED  BY <1>11, <1>12

LEMMA SendLinkUnread == ASSUME Typed, UnreadInv, NEW r \in Requests, SendLink(r) PROVE UnreadInv'
<1>1. task[r] \in Tasks /\ task[r] # NoTask /\ task[r].op = "send" /\ task[r].at = "saved"
  BY TaskIs DEF SendLink, Running
<1>2. UNCHANGED <<sent, sender, read, unread, zeroed, blurred>>
  BY DEF SendLink, rows
<1>. SUFFICES ASSUME NEW u \in Users PROVE UserInv(u)'
  BY DEF UnreadInv
<1>3. UserInv(u)
  BY DEF UnreadInv
<1>4. CASE task[r].inRoom
  <2>1. r \notin PendingTo(u) \cup Marks(u) /\ Finish(r)
    BY <1>1, <1>4 DEF PendingTo, Marks, SendLink
  <2>. QED  BY <1>2, <1>3, <2>1, FinishAside, TasksAside, UnreadKept, UnreadSame
<1>5. CASE ~task[r].inRoom
  <2>1. task' = [task EXCEPT ![r].at = "linked"]
    BY <1>5 DEF SendLink
  <2>2. task'[r].at = "linked" /\ task'[r].op = "send" /\ task'[r].msg = task[r].msg /\ task'[r] # NoTask
        /\ task'[r].user = task[r].user /\ task'[r].inRoom = task[r].inRoom
        /\ \A x \in Requests : x # r => task'[x] = task[x]
    BY <1>1, <2>1 DEF Typed, TypeOK, Tasks, NoTask
  <2>3. PendingTo(u)' = PendingTo(u) /\ Marks(u)' = Marks(u) /\ r \notin Marks(u)
    BY <1>1, <2>2 DEF PendingTo, Marks
  <2>4. PendingMessages(u)' = PendingMessages(u)
    BY <2>2, <2>3 DEF PendingMessages, PendingTo
  <2>5. \A x \in Marks(u) : task'[x] = task[x]
    BY <2>2, <2>3 DEF Marks
  <2>. QED  BY <1>2, <1>3, <2>3, <2>4, <2>5, UnreadKept, UnreadSame
<1>. QED  BY <1>4, <1>5

\* A step that ends r: what is on its way to the others stays, to u is one less.
LEMMA FinishPending ==
  ASSUME Typed, NEW r \in Requests, Finish(r), NEW u
  PROVE  /\ PendingTo(u)' = PendingTo(u) \ {r} /\ Marks(u)' = Marks(u) \ {r}
         /\ PendingMessages(u)' \subseteq PendingMessages(u)
         /\ \A x \in Requests : x # r => task'[x] = task[x]
<1>1. task'[r] = NoTask /\ \A x \in Requests : x # r => task'[x] = task[x]
  BY DEF Finish, Typed, TypeOK
<1>2. PendingTo(u)' = PendingTo(u) \ {r} /\ Marks(u)' = Marks(u) \ {r}
  BY <1>1 DEF PendingTo, Marks
<1>3. \A x \in PendingTo(u)' : x \in PendingTo(u) /\ task'[x].msg = task[x].msg
  BY <1>1, <1>2 DEF PendingTo
<1>. QED  BY <1>1, <1>2, <1>3 DEF PendingMessages

LEMMA SendCountUnread == ASSUME Typed, UnreadInv, NEW r \in Requests, SendCount(r) PROVE UnreadInv'
<1>. DEFINE v == Other(task[r].user)
<1>1. task[r] \in Tasks /\ task[r] # NoTask /\ task[r].op = "send" /\ task[r].at = "linked" /\ task[r].user \in Users
  BY TaskIs DEF SendCount, Running
<1>2. Finish(r) /\ UNCHANGED <<sent, sender, read, zeroed, blurred>> /\ unread' = [unread EXCEPT ![v] = @ + 1]
  BY DEF SendCount, rows, history
<1>. SUFFICES ASSUME NEW u \in Users PROVE UserInv(u)'
  BY DEF UnreadInv
<1>3. UserInv(u) /\ r \notin Marks(u)
  BY <1>1 DEF UnreadInv, Marks
<1>4. CASE r \in PendingTo(u)
  <2>1. u = v /\ unread[u] \in Nat /\ unread'[u] = unread[u] + 1
    BY <1>1, <1>2, <1>4, OtherIs DEF PendingTo, Typed, TypeOK
  <2>2. PendingTo(u)' = PendingTo(u) \ {r} /\ Marks(u)' = Marks(u)
        /\ PendingMessages(u)' \subseteq PendingMessages(u) /\ \A x \in Marks(u) : task'[x] = task[x]
    BY <1>2, <1>3, FinishPending DEF Marks
  <2>3. Cardinality(PendingTo(u) \ {r}) = Cardinality(PendingTo(u)) - 1
    BY <1>4, PendingFinite, FS_RemoveElement
  <2>4. UnreadTo(u)' = UnreadTo(u) /\ 1..sent \subseteq 1..sent'
    BY <1>2, UnreadSame
  <2>5. Cardinality(PendingTo(u)) \in Nat
    BY PendingFinite
  <2>6. Exact(u) => Exact(u)'
    BY <1>2, <2>1, <2>2, <2>3, <2>4, <2>5 DEF Exact
  <2>. QED  BY <1>2, <1>3, <2>2, <2>4, <2>6 DEF UserInv, CleanMarks
<1>5. CASE r \notin PendingTo(u)
  <2>1. unread'[u] = unread[u]
    <3>1. CASE task[r].inRoom
      BY <1>1, <3>1, TaskIs DEF SendCount, Running, TaskOK
    <3>2. CASE ~task[r].inRoom
      BY <1>1, <1>2, <1>5, <3>2, OtherIs DEF PendingTo, Typed, TypeOK
    <3>. QED  BY <3>1, <3>2
  <2>. QED  BY <1>2, <1>3, <1>5, <2>1, FinishAside, TasksAside, UnreadKept, UnreadSame
<1>. QED  BY <1>4, <1>5

\* A mark that begins overlaps those of the same user; of the other user nothing
\* changes.
LEMMA MarkReadUnread ==
  ASSUME Typed, UnreadInv, NEW r \in Requests, NEW w \in Users, NEW upto, MarkRead(r, w, upto)
  PROVE  UnreadInv'
<1>. DEFINE t == [Begun("mark", w) EXCEPT !.clean = (PendingTo(w) = {} /\ Marks(w) = {})]
<1>1. t.op = "mark" /\ t.at = "begun" /\ t.user = w /\ (t.clean <=> PendingTo(w) = {} /\ Marks(w) = {})
  BY DEF Begun
<1>2. task'[r] = t /\ task[r] = NoTask
      /\ \A x \in Requests : x # r =>
            (task'[x] = IF x \in Marks(w) THEN [task[x] EXCEPT !.clean = FALSE] ELSE task[x])
  BY DEF MarkRead
<1>. HIDE DEF t
<1>3. UNCHANGED <<sent, sender, unread, zeroed, blurred>> /\ read \subseteq read'
      /\ read' \ read \subseteq UnreadTo(w)
  BY DEF MarkRead, chat, history
<1>4. \A x \in Marks(w) : task[x] \in Tasks
  BY TaskIs DEF Marks
<1>5. \A x \in Marks(w) : [task[x] EXCEPT !.clean = FALSE].op = "mark"
        /\ [task[x] EXCEPT !.clean = FALSE].user = w /\ [task[x] EXCEPT !.clean = FALSE].clean = FALSE
  BY <1>4 DEF Marks, Tasks
<1>6. \A x \in Marks(w) : x \in Requests /\ x # r /\ task'[x] = [task[x] EXCEPT !.clean = FALSE]
  BY <1>2 DEF Marks
<1>7. \A x \in Marks(w) : task'[x].op = "mark" /\ task'[x].user = w /\ task'[x].clean = FALSE
  BY <1>5, <1>6
<1>8. \A x \in Marks(w) : task'[x] # NoTask
  BY <1>7 DEF NoTask
<1>. SUFFICES ASSUME NEW u \in Users PROVE UserInv(u)'
  BY DEF UnreadInv
<1>9. UserInv(u)
  BY DEF UnreadInv
<1>10. CASE u # w
  <2>1. \A x \in Requests : task'[x] = task[x]
            \/ (x \notin PendingTo(u) \cup Marks(u) /\ x \notin (PendingTo(u) \cup Marks(u))')
    <3>1. r \notin PendingTo(u) \cup Marks(u) /\ r \notin (PendingTo(u) \cup Marks(u))'
      BY <1>1, <1>2, <1>10 DEF PendingTo, Marks
    <3>2. \A x \in Marks(w) : x \notin PendingTo(u) \cup Marks(u) /\ x \notin (PendingTo(u) \cup Marks(u))'
      BY <1>7, <1>10 DEF PendingTo, Marks
    <3>. QED  BY <1>2, <3>1, <3>2
  <2>2. UnreadTo(u)' = UnreadTo(u)
    <3>1. Other(u) # Other(w)
      BY <1>10, OtherIs
    <3>2. \A m \in UnreadTo(w) : sender[m] # Other(u)
      BY <3>1 DEF UnreadTo
    <3>. QED  BY <1>3, <3>2 DEF UnreadTo
  <2>. QED  BY <1>3, <1>9, <2>1, <2>2, TasksAside, UnreadKept
<1>11. CASE u = w
  <2>1. r \in Marks(u)'
    BY <1>1, <1>2, <1>11 DEF Marks, NoTask
  <2>2. PendingTo(u)' = PendingTo(u) /\ Marks(u)' = Marks(u) \cup {r}
    <3>1. \A x \in Requests : x \in PendingTo(u)' <=> x \in PendingTo(u)
      <4>1. r \notin PendingTo(u) /\ r \notin PendingTo(u)'
        BY <1>1, <1>2 DEF PendingTo
      <4>2. \A x \in Marks(u) : x \notin PendingTo(u) /\ x \notin PendingTo(u)'
        BY <1>7, <1>11 DEF PendingTo, Marks
      <4>3. \A x \in Requests : x # r /\ x \notin Marks(u) => task'[x] = task[x]
        BY <1>2, <1>11
      <4>. QED  BY <4>1, <4>2, <4>3 DEF PendingTo
    <3>2. \A x \in Requests : x # r => (x \in Marks(u)' <=> x \in Marks(u))
      <4>1. \A x \in Requests : x # r /\ x \notin Marks(u) => task'[x] = task[x]
        BY <1>2, <1>11
      <4>2. \A x \in Marks(u) : x \in Marks(u)'
        BY <1>7, <1>8, <1>11 DEF Marks
      <4>. QED  BY <4>1, <4>2 DEF Marks
    <3>. QED  BY <2>1, <3>1, <3>2 DEF PendingTo, Marks
  <2>3. CleanMarks(u)'
    <3>. SUFFICES ASSUME NEW x \in Marks(u)', task'[x].clean
                  PROVE  /\ PendingTo(u)' = {} /\ Marks(u)' = {x} /\ task'[x].at # "counted"
      BY DEF CleanMarks
    <3>1. x = r
      BY <1>7, <1>11, <2>2
    <3>. QED  BY <1>1, <1>2, <1>11, <2>2, <3>1
  <2>. QED  BY <1>3, <1>9, <2>1, <2>3 DEF UserInv
<1>. QED  BY <1>10, <1>11

LEMMA MarkRecountUnread == ASSUME Typed, UnreadInv, NEW r \in Requests, MarkRecount(r) PROVE UnreadInv'
<1>. DEFINE n == Cardinality(UnreadTo(task[r].user))
            t == [task[r] EXCEPT !.at = "counted", !.seen = n]
<1>1. task[r] \in Tasks /\ task[r] # NoTask /\ task[r].op = "mark"
  BY TaskIs DEF MarkRecount, Running
<1>2. n \in Nat
  BY UnreadFinite
<1>. HIDE DEF n
<1>3. t.op = "mark" /\ t.user = task[r].user /\ t.clean = task[r].clean /\ t.seen = n /\ t # NoTask
  BY <1>1, <1>2 DEF Tasks, NoTask
<1>4. task' = [task EXCEPT ![r] = t]
  BY <1>1 DEF MarkRecount, n, Tasks, Typed, TypeOK
<1>. HIDE DEF t
<1>5. task'[r] = t /\ \A x \in Requests : x # r => task'[x] = task[x]
  BY <1>4 DEF Typed, TypeOK
<1>6. UNCHANGED <<sent, sender, read, unread, zeroed, blurred>>
  BY DEF MarkRecount, rows, chat, history
<1>. SUFFICES ASSUME NEW u \in Users PROVE UserInv(u)'
  BY DEF UnreadInv
<1>7. UserInv(u)
  BY DEF UnreadInv
<1>8. CASE u # task[r].user
  <2>1. r \notin PendingTo(u) \cup Marks(u) /\ r \notin (PendingTo(u) \cup Marks(u))'
    BY <1>1, <1>3, <1>5, <1>8 DEF PendingTo, Marks
  <2>. QED  BY <1>5, <1>6, <1>7, <2>1, TasksAside, UnreadKept, UnreadSame
<1>9. CASE u = task[r].user
  <2>1. PendingTo(u)' = PendingTo(u) /\ Marks(u)' = Marks(u) /\ r \in Marks(u)
    BY <1>1, <1>3, <1>5, <1>9 DEF PendingTo, Marks
  <2>2. UnreadTo(u)' = UnreadTo(u) /\ n = Cardinality(UnreadTo(u)) /\ 1..sent' = 1..sent
    BY <1>6, <1>9, UnreadSame DEF n
  <2>3. CleanMarks(u)'
    <3>. SUFFICES ASSUME NEW x \in Marks(u), task'[x].clean
                  PROVE  /\ PendingTo(u) = {} /\ Marks(u) = {x}
                         /\ task'[x].at = "counted" => task'[x].seen = Cardinality(UnreadTo(u))
      BY <2>1, <2>2 DEF CleanMarks
    <3>1. task[x].clean
      BY <1>3, <1>5 DEF Marks
    <3>2. PendingTo(u) = {} /\ Marks(u) = {x}
      BY <1>7, <3>1 DEF UserInv, CleanMarks
    <3>3. x = r
      BY <2>1, <3>2
    <3>. QED  BY <1>3, <1>5, <2>2, <3>2, <3>3
  <2>. QED  BY <1>6, <1>7, <2>1, <2>2, <2>3 DEF UserInv
<1>. QED  BY <1>8, <1>9

\* What a clean mark stores is exact; any other leaves the counter in doubt.
LEMMA MarkStoreUnread == ASSUME Typed, UnreadInv, NEW r \in Requests, MarkStore(r) PROVE UnreadInv'
<1>. DEFINE w == task[r].user
<1>1. task[r] \in Tasks /\ task[r] # NoTask /\ task[r].op = "mark" /\ task[r].at = "counted" /\ w \in Users
  BY TaskIs DEF MarkStore, Running
<1>2. Finish(r) /\ UNCHANGED <<sent, sender, read>>
      /\ unread' = [unread EXCEPT ![w] = task[r].seen] /\ zeroed' = [zeroed EXCEPT ![w] = {}]
      /\ blurred' = IF task[r].clean THEN blurred \ {w} ELSE blurred \cup {w}
  BY DEF MarkStore, rows
<1>. SUFFICES ASSUME NEW u \in Users PROVE UserInv(u)'
  BY DEF UnreadInv
<1>3. UserInv(u)
  BY DEF UnreadInv
<1>4. CASE u # w
  <2>1. r \notin PendingTo(u) \cup Marks(u)
    BY <1>1, <1>4 DEF PendingTo, Marks
  <2>2. unread'[u] = unread[u] /\ zeroed'[u] = zeroed[u] /\ (u \in blurred => u \in blurred')
    BY <1>1, <1>2, <1>4 DEF Typed, TypeOK
  <2>. QED  BY <1>2, <1>3, <2>1, <2>2, FinishAside, TasksAside, UnreadKept, UnreadSame
<1>5. CASE u = w
  <2>1. unread'[u] = task[r].seen /\ zeroed'[u] = {} /\ r \in Marks(u) /\ UnreadTo(u)' = UnreadTo(u)
    BY <1>1, <1>2, <1>5, UnreadSame DEF Marks, Typed, TypeOK
  <2>2. PendingTo(u)' = PendingTo(u) \ {r} /\ Marks(u)' = Marks(u) \ {r}
        /\ PendingMessages(u)' \subseteq PendingMessages(u)
        /\ \A x \in Requests : x # r => task'[x] = task[x]
    BY <1>2, FinishPending
  <2>3. CASE task[r].clean
    <3>1. PendingTo(u) = {} /\ Marks(u) = {r} /\ task[r].seen = Cardinality(UnreadTo(u))
      BY <1>1, <1>3, <2>1, <2>3 DEF UserInv, CleanMarks
    <3>2. PendingTo(u)' = {} /\ Marks(u)' = {} /\ PendingMessages(u)' = {}
      BY <2>2, <3>1 DEF PendingMessages
    <3>3. Cardinality(PendingTo(u)') = 0
      BY <3>2, FS_EmptySet
    <3>4. UnreadTo(u)' \ zeroed'[u] = UnreadTo(u) /\ Cardinality(UnreadTo(u)) \in Nat
      BY <2>1, UnreadFinite
    <3>5. Exact(u)'
      BY <2>1, <3>1, <3>2, <3>3, <3>4 DEF Exact
    <3>. QED  BY <2>1, <3>2, <3>5 DEF UserInv, CleanMarks
  <2>4. CASE ~task[r].clean
    <3>1. u \in blurred'
      BY <1>2, <1>5, <2>4
    <3>2. CleanMarks(u)'
      BY <1>3, <2>1, <2>2 DEF UserInv, CleanMarks, Marks
    <3>. QED  BY <2>1, <3>1, <3>2 DEF UserInv
  <2>. QED  BY <2>3, <2>4
<1>. QED  BY <1>4, <1>5

LEMMA AbortUnread == ASSUME Typed, UnreadInv, NEW r \in Requests, Abort(r) PROVE UnreadInv'
<1>1. Finish(r) /\ UNCHANGED <<sent, sender, read, unread, zeroed>>
      /\ blurred' = blurred \cup {u \in Users : r \in PendingTo(u) \cup Marks(u)}
  BY DEF Abort, rows, chat
<1>. SUFFICES ASSUME NEW u \in Users PROVE UserInv(u)'
  BY DEF UnreadInv
<1>2. UserInv(u)
  BY DEF UnreadInv
<1>3. CASE r \notin PendingTo(u) \cup Marks(u)
  BY <1>1, <1>2, <1>3, FinishAside, TasksAside, UnreadKept, UnreadSame
<1>4. CASE r \in PendingTo(u) \cup Marks(u)
  <2>1. u \in blurred' /\ UnreadTo(u)' = UnreadTo(u)
    BY <1>1, <1>4, UnreadSame
  <2>2. PendingTo(u)' = PendingTo(u) \ {r} /\ Marks(u)' = Marks(u) \ {r}
        /\ \A x \in Requests : x # r => task'[x] = task[x]
    BY <1>1, FinishPending
  <2>3. CleanMarks(u)'
    BY <1>2, <2>1, <2>2 DEF UserInv, CleanMarks, Marks
  <2>. QED  BY <1>1, <1>2, <2>1, <2>3 DEF UserInv
<1>. QED  BY <1>3, <1>4

LEMMA UnreadNext == Typed /\ UnreadInv /\ [Next]_vars => UnreadInv'
<1>. SUFFICES ASSUME Typed, UnreadInv, [Next]_vars PROVE UnreadInv'
  OBVIOUS
<1>1. CASE UNCHANGED vars \/ SocketStep
  BY <1>1, AsideUnread
  DEF vars, SocketStep, Connect, Disconnect, LeaveChat, rows, chat, history
<1>2. ASSUME NEW r \in Requests, NEW u \in Users, SendCheck(r, u) PROVE UnreadInv'
  BY <1>2, AsideUnread DEF SendCheck, rows, chat, history, Begun
<1>3. ASSUME NEW r \in Requests, NEW u \in Users, NEW m \in Messages, NEW op \in {"update", "delete"},
             Validate(r, op, u, m) PROVE UnreadInv'
  BY <1>3, AsideUnread DEF Validate, rows, chat, history, Begun
<1>4. ASSUME NEW r \in Requests, JoinRoom(r) \/ UpdateWrite(r) \/ DeleteWrite(r) PROVE UnreadInv'
  BY <1>4, AsideUnread DEF JoinRoom, UpdateWrite, DeleteWrite, Running, rows, chat, history
<1>5. CASE BeginStep
  BY <1>2, <1>3, <1>5, JoinResetUnread, MarkReadUnread DEF BeginStep
<1>6. CASE ResumeStep
  BY <1>4, <1>6, SendSaveUnread, SendLinkUnread, SendCountUnread, MarkRecountUnread,
     MarkStoreUnread,
     AbortUnread DEF ResumeStep
<1>. QED  BY <1>1, <1>5, <1>6 DEF Next

\* The unread counter and the increments on their way are the unread messages
\* since the chat was last opened, however sends, joins and marks interleave,
\* unless an overlap or a failure spoiled it and nothing has repaired it since.
THEOREM UnreadExactHolds == Spec => []UnreadExact
<1>1. Init => Typed /\ UnreadInv
  BY TypedInit, UnreadInit
<1>2. Typed /\ UnreadInv /\ [Next]_vars => (Typed /\ UnreadInv)'
  BY TypedNext, UnreadNext
<1>3. Typed /\ UnreadInv => UnreadExact
  BY DEF UnreadInv, UserInv, Exact, UnreadExact
<1>. QED  BY <1>1, <1>2, <1>3, PTL DEF Spec

-----------------------------------------------------------------------------
(***************************************************************************)
(* ChatEvents, as Tell.                                                    *)
(*                                                                         *)
(* An event tells what the tables hold only when nothing has come between, *)
(* so the invariant says of a handler that calls itself clean that it is   *)
(* alone with its message or reaction and has that in hand, and of one     *)
(* that has written and not yet emitted that its subject is known to be    *)
(* behind.  Of a send it says that whoever was not found in the room has   *)
(* been alerted before anything is emitted.                                *)
(***************************************************************************)
LEMMA Proper ==
    /\ MaxTold \in Nat /\ User1 # User2 /\ Owner \in [Sockets -> Tell!Users]
    /\ None \notin Tell!Users \cup Requests \cup Emojis \cup [emoji: Emojis, id: Requests]
BY ToldBound, TwoUsers, OwnerIsUser, NoneIsNothing DEF Users, Tell!Users

LEMMA SameCount == \A S : Tell!Cardinality(S) = Cardinality(S)
BY DEF Tell!Cardinality, Cardinality

(* What a handler may rely on. *)
PathOK(t) ==
    \/ t.op = "open" /\ t.at = "looked"
    \/ t.op = "send" /\ t.at \in {"looked", "saved", "alerted"}
    \/ t.op = "edit" /\ t.at \in {"looked", "written", "answered"}
    \/ t.op \in {"delete", "react"} /\ t.at \in {"looked", "written"}
    \/ t.op = "unreact" /\ t.at = "written"

\* A message that a handler has in hand is saved, what was looked for in the
\* room is still connected while nobody has left, and who was not found is
\* alerted before anything is emitted.
SendOK(t) == t.op = "send" =>
    /\ t.at = "looked" => t.msg = 0
    /\ t.at # "looked" => t.msg \in Tell!Saved
    /\ t.at = "alerted" => t.inRoom \/ t.msg \in alerted
    /\ t.inRoom /\ t.clean => Tell!SocketsOf(Tell!Partner(t.user)) # {}

\* Who opens the chat alone has found none.
OpenOK(t) == t.op = "open" /\ t.clean => Tell!ChatRows = {}

\* A change that has been written and not yet told is known to be under way;
\* one that nothing has overlapped tells what is there.
EditOK(t) == t.op \in {"edit", "delete"} =>
    /\ t.msg \in Tell!Saved
    /\ t.at # "looked" => Tell!Text(t.msg) \in off
    /\ t.op = "edit" /\ t.at = "answered" => t.seen \in Requests
    /\ t.op = "edit" /\ t.clean => t.msg \notin gone
    /\ t.op = "edit" /\ t.clean /\ t.at = "answered" => t.seen = content[t.msg]
    /\ t.op = "delete" /\ t.at = "written" => t.msg \in gone
ReactOK(t) == t.op \in {"react", "unreact"} => LET x == <<t.msg, t.user>> IN
    /\ t.msg \in Tell!Saved
    /\ t.at # "looked" => x \in off
    /\ IF t.op = "react" THEN t.seen \in Emojis ELSE t.seen = None
    /\ t.op = "react" /\ t.clean /\ t.at = "looked" =>
           t.id = IF react[x] = None THEN None ELSE react[x].id
    /\ t.op = "react" /\ t.clean /\ t.at = "written" => react[x] # None /\ react[x].emoji = t.seen
    /\ t.op = "unreact" /\ t.clean => react[x] = None

TodoOK(t) == PathOK(t) /\ SendOK(t) /\ OpenOK(t) /\ EditOK(t) /\ ReactOK(t)
TodoInv == \A r \in Requests : Tell!Busy(r) => TodoOK(todo[r])

\* A change that nothing has overlapped is alone.
Changes(r) == Tell!Busy(r) /\ todo[r].op \notin {"open", "send"}
AloneInv == \A r, q \in Requests :
    Changes(r) /\ Changes(q) /\ Tell!Subject(todo[r]) = Tell!Subject(todo[q]) /\ todo[r].clean => r = q

\* Messages are numbered as they are saved.
SavedInv == \E n \in 0..MaxTold : Tell!Saved = 1..n
OneInv == ~twice => \A c, d \in Tell!ChatRows : c = d
ToldInv ==
    /\ \A m \in Tell!Saved : Tell!Text(m) \notin off => told[m] = IF m \in gone THEN "deleted" ELSE content[m]
    /\ \A x \in Tell!Reactions : x \notin off => toldReact[x] = Tell!StoredReactions[x]

TellInv == Tell!TypeOK /\ TodoInv /\ AloneInv /\ SavedInv /\ OneInv /\ ToldInv /\ Tell!Announced

-----------------------------------------------------------------------------
LEMMA BusyIs == ASSUME TellInv, NEW r \in Requests
                PROVE  IF Tell!Busy(r) THEN todo[r] \in Tell!Todos /\ TodoOK(todo[r]) ELSE todo[r] = Tell!Nothing
BY DEF Tell!Busy, TellInv, Tell!TypeOK, TodoInv

LEMMA TodoIs == \A t \in Tell!Todos : t # Tell!Nothing
BY DEF Tell!Todos, Tell!Nothing

LEMMA EndsThere == ASSUME TellInv, NEW r \in Requests, Tell!Ends(r)
                   PROVE  /\ todo' \in [Requests -> Tell!Todos \cup {Tell!Nothing}] /\ done' \subseteq Requests
                          /\ ~Tell!Busy(r)' /\ \A q \in Requests : q # r => todo'[q] = todo[q]
BY DEF Tell!Ends, Tell!Busy, TellInv, Tell!TypeOK

LEMMA GoesTo == ASSUME TellInv, NEW r \in Requests, Tell!Busy(r), Tell!Goes(r, todo'[r].at),
                       todo'[r].at \in {"saved", "alerted", "written", "answered"}
                PROVE  /\ todo' \in [Requests -> Tell!Todos \cup {Tell!Nothing}] /\ done' = done
                       /\ Tell!Busy(r)' /\ \A q \in Requests : q # r => todo'[q] = todo[q]
                       /\ todo'[r].op = todo[r].op /\ todo'[r].user = todo[r].user
                       /\ todo'[r].msg = todo[r].msg /\ todo'[r].http = todo[r].http
                       /\ todo'[r].inRoom = todo[r].inRoom /\ todo'[r].seen = todo[r].seen
                       /\ todo'[r].id = todo[r].id /\ todo'[r].clean = todo[r].clean
<1>1. todo[r] \in Tell!Todos
  BY BusyIs
<1>2. PICK at : at = todo'[r].at
  OBVIOUS
<1>3. PICK t : t = [todo[r] EXCEPT !.at = at]
  OBVIOUS
<1>4. /\ t \in Tell!Todos /\ t.op = todo[r].op /\ t.user = todo[r].user /\ t.msg = todo[r].msg
      /\ t.http = todo[r].http /\ t.inRoom = todo[r].inRoom /\ t.seen = todo[r].seen
      /\ t.id = todo[r].id /\ t.clean = todo[r].clean /\ t # Tell!Nothing
  <2>1. t \in Tell!Todos
    BY <1>1, <1>2, <1>3 DEF Tell!Todos
  <2>. QED  BY <1>1, <1>3, <2>1, TodoIs DEF Tell!Todos
<1>5. todo' = [todo EXCEPT ![r] = t] /\ done' = done
  BY <1>2, <1>3 DEF Tell!Goes
<1>6. /\ todo'[r] = t /\ todo' \in [Requests -> Tell!Todos \cup {Tell!Nothing}]
      /\ \A q \in Requests : q # r => todo'[q] = todo[q]
  BY <1>4, <1>5 DEF TellInv, Tell!TypeOK
<1>. QED  BY <1>4, <1>5, <1>6 DEF Tell!Busy

\* What may change under a handler without its noticing.
Kept(t) ==
    /\ Tell!Saved \subseteq Tell!Saved' /\ alerted \subseteq alerted' /\ gone \subseteq gone'
    /\ t.op = "open" /\ t.clean /\ Tell!ChatRows = {} => Tell!ChatRows' = {}
    /\ t.op = "send" /\ t.inRoom /\ t.clean /\ Tell!SocketsOf(Tell!Partner(t.user)) # {} =>
           Tell!SocketsOf(Tell!Partner(t.user))' # {}
    /\ t.op \in {"edit", "delete"} /\ t.at # "looked" => Tell!Text(t.msg) \in off'
    /\ t.op = "edit" /\ t.clean => content'[t.msg] = content[t.msg] /\ (t.msg \in gone' <=> t.msg \in gone)
    /\ t.op \in {"react", "unreact"} /\ t.at # "looked" => <<t.msg, t.user>> \in off'
    /\ t.op \in {"react", "unreact"} /\ t.clean => react'[<<t.msg, t.user>>] = react[<<t.msg, t.user>>]

LEMMA KeptOK == ASSUME NEW t, TodoOK(t), Kept(t) PROVE TodoOK(t)'
<1>1. SendOK(t)'
  BY DEF TodoOK, SendOK, Kept
<1>2. OpenOK(t)'
  BY DEF TodoOK, OpenOK, Kept
<1>3. EditOK(t)'
  BY DEF TodoOK, EditOK, Kept
<1>4. ReactOK(t)'
  BY DEF TodoOK, ReactOK, Kept
<1>. QED  BY <1>1, <1>2, <1>3, <1>4 DEF TodoOK, PathOK

\* History: a handler that has been overlapped relies on less.
LEMMA Spoilt == ASSUME NEW t \in Tell!Todos, TodoOK(t)
                PROVE  LET s == [t EXCEPT !.clean = FALSE] IN
                       /\ s \in Tell!Todos /\ TodoOK(s) /\ ~s.clean
                       /\ s.op = t.op /\ s.at = t.at /\ s.msg = t.msg /\ s.user = t.user
                       /\ s.inRoom = t.inRoom
<1>1. PICK s : s = [t EXCEPT !.clean = FALSE]
  OBVIOUS
<1>2. /\ s \in Tell!Todos /\ s.clean = FALSE /\ s.op = t.op /\ s.at = t.at /\ s.msg = t.msg
      /\ s.user = t.user
      /\ s.seen = t.seen /\ s.id = t.id /\ s.inRoom = t.inRoom
  BY <1>1 DEF Tell!Todos
<1>3. TodoOK(s)
  BY <1>2 DEF TodoOK, PathOK, SendOK, OpenOK, EditOK, ReactOK
<1>. QED  BY <1>1, <1>2, <1>3

\* What a handler carries over a step: itself, or itself overlapped.
Same(r) == \/ todo'[r] = todo[r]
           \/ Tell!Busy(r) /\ todo'[r] = [todo[r] EXCEPT !.clean = FALSE]

LEMMA SameOK == ASSUME TellInv, NEW r \in Requests, Same(r), Tell!Busy(r)',
                       \A t \in Tell!Todos : Tell!Busy(r) /\ t.op = todo[r].op /\ t.at = todo[r].at /\ t.msg = todo[r].msg /\
                          t.user = todo[r].user /\ (todo'[r] = t \/ ~t.clean) => Kept(t)
                PROVE  Tell!Busy(r) /\ todo'[r] \in Tell!Todos /\ TodoOK(todo[r])'
<1>1. Tell!Busy(r) /\ todo[r] \in Tell!Todos /\ TodoOK(todo[r])
  BY BusyIs DEF Same, Tell!Busy
<1>2. PICK t : t = todo'[r]
  OBVIOUS
<1>3. t \in Tell!Todos /\ TodoOK(t) /\ t.op = todo[r].op /\ t.at = todo[r].at /\ t.msg = todo[r].msg
      /\ t.user = todo[r].user
  BY <1>1, <1>2, Spoilt DEF Same
<1>4. TodoOK(t)'
  BY <1>1, <1>2, <1>3, KeptOK
<1>. QED  BY <1>1, <1>2, <1>3, <1>4
       DEF TodoOK, PathOK, SendOK, OpenOK, EditOK, ReactOK

LEMMA StillOK == ASSUME TellInv, NEW r \in Requests, todo'[r] = todo[r], Tell!Busy(r)',
                        \A t \in Tell!Todos : t = todo[r] /\ TodoOK(t) => Kept(t)
                 PROVE  Tell!Busy(r) /\ todo'[r] \in Tell!Todos /\ TodoOK(todo[r])'
<1>1. Tell!Busy(r) /\ todo[r] \in Tell!Todos /\ TodoOK(todo[r])
  BY BusyIs DEF Tell!Busy
<1>2. PICK t : t = todo[r]
  OBVIOUS
<1>3. TodoOK(t)'
  BY <1>1, <1>2, KeptOK
<1>. QED  BY <1>1, <1>2, <1>3
       DEF TodoOK, PathOK, SendOK, OpenOK, EditOK, ReactOK

LEMMA AloneKept == ASSUME AloneInv,
                          \A r \in Requests : Changes(r)' => Changes(r) /\ Tell!Subject(todo[r])' = Tell!Subject(todo[r])
                                                         /\ (todo'[r].clean => todo[r].clean)
                   PROVE  AloneInv'
BY DEF AloneInv

\* A message stays announced, or in the hands of its sender.
LEMMA AnnouncedKept == ASSUME TellInv, Tell!Saved' = Tell!Saved, alerted \subseteq alerted',
                              received \subseteq received',
                              slipped \subseteq slipped',
                              \A r \in Requests : Tell!Busy(r) /\ todo[r].op = "send" /\ todo[r].msg \in Tell!Saved =>
                                  \/ Tell!Busy(r)' /\ todo'[r].op = "send" /\ todo'[r].msg = todo[r].msg
                                  \/ todo[r].msg \in alerted' \cup received' \cup slipped'
                       PROVE  Tell!Announced'
BY DEF TellInv, Tell!Announced

-----------------------------------------------------------------------------
(* Connections and the opening of the chat. *)

Unchanged == UNCHANGED <<opener, author, content, gone, react, told, toldReact, twice, off>>

LEMMA RowsKept == ASSUME TellInv, Unchanged
                  PROVE  SavedInv' /\ OneInv' /\ ToldInv' /\ Tell!Saved' = Tell!Saved /\ Tell!ChatRows' = Tell!ChatRows
<1>1. Tell!Saved' = Tell!Saved /\ Tell!ChatRows' = Tell!ChatRows /\ Tell!StoredReactions' = Tell!StoredReactions
  BY DEF Unchanged, Tell!Saved, Tell!ChatRows, Tell!StoredReactions
<1>. QED  BY <1>1 DEF TellInv, SavedInv, OneInv, ToldInv, Unchanged

LEMMA ConnectStep == ASSUME TellInv, NEW s \in Sockets, Tell!Connect(s) PROVE TellInv'
<1>. USE DEF Tell!Connect
<1>1. Unchanged /\ UNCHANGED <<inside, alerted, received, todo, done, slipped>>
  BY DEF Unchanged, Tell!rows, Tell!events, Tell!history
<1>2. SavedInv' /\ OneInv' /\ ToldInv' /\ Tell!Saved' = Tell!Saved /\ Tell!ChatRows' = Tell!ChatRows
  BY <1>1, RowsKept
<1>3. Tell!TypeOK'
  BY <1>1, <1>2 DEF TellInv, Tell!TypeOK, Unchanged
<1>4. TodoInv'
  <2>. SUFFICES ASSUME NEW r \in Requests, Tell!Busy(r)' PROVE TodoOK(todo[r])'
    BY DEF TodoInv
  <2>2. \A u : Tell!SocketsOf(u) \subseteq Tell!SocketsOf(u)'
    BY DEF Tell!SocketsOf
  <2>3. \A t \in Tell!Todos : TodoOK(t) => Kept(t)
    BY <1>1, <1>2, <2>2 DEF Kept, Unchanged, TodoOK, EditOK, ReactOK
  <2>. QED  BY <1>1, <2>3, StillOK
<1>5. AloneInv'
  BY <1>1, AloneKept DEF Changes, Tell!Busy, Tell!Subject, TellInv, Tell!Text
<1>6. Tell!Announced'
  BY <1>1, <1>2, AnnouncedKept DEF Tell!Busy
<1>. QED  BY <1>2, <1>3, <1>4, <1>5, <1>6 DEF TellInv

LEMMA JoinOrLeaveStep == ASSUME TellInv, NEW s \in Sockets, Tell!JoinOrLeave(s) PROVE TellInv'
<1>. USE DEF Tell!JoinOrLeave
<1>1. Unchanged /\ UNCHANGED <<connected, alerted, received, todo, done, slipped>>
  BY DEF Unchanged, Tell!rows, Tell!events, Tell!history
<1>2. SavedInv' /\ OneInv' /\ ToldInv' /\ Tell!Saved' = Tell!Saved /\ Tell!ChatRows' = Tell!ChatRows
  BY <1>1, RowsKept
<1>3. Tell!TypeOK'
  BY <1>1, <1>2 DEF TellInv, Tell!TypeOK, Unchanged
<1>4. TodoInv'
  <2>. SUFFICES ASSUME NEW r \in Requests, Tell!Busy(r)' PROVE TodoOK(todo[r])'
    BY DEF TodoInv
  <2>2. \A u : Tell!SocketsOf(u)' = Tell!SocketsOf(u)
    BY <1>1 DEF Tell!SocketsOf
  <2>3. \A t \in Tell!Todos : TodoOK(t) => Kept(t)
    BY <1>1, <1>2, <2>2 DEF Kept, Unchanged, TodoOK, EditOK, ReactOK
  <2>. QED  BY <1>1, <2>3, StillOK
<1>5. AloneInv'
  BY <1>1, AloneKept DEF Changes, Tell!Busy, Tell!Subject, TellInv, Tell!Text
<1>6. Tell!Announced'
  BY <1>1, <1>2, AnnouncedKept DEF Tell!Busy
<1>. QED  BY <1>2, <1>3, <1>4, <1>5, <1>6 DEF TellInv

LEMMA DisconnectStep == ASSUME TellInv, NEW s \in Sockets, Tell!Disconnect(s) PROVE TellInv'
<1>. USE DEF Tell!Disconnect
<1>1. Unchanged /\ UNCHANGED <<alerted, received, done, slipped>>
  BY DEF Unchanged, Tell!rows, Tell!events, Tell!history
<1>2. SavedInv' /\ OneInv' /\ ToldInv' /\ Tell!Saved' = Tell!Saved /\ Tell!ChatRows' = Tell!ChatRows
  BY <1>1, RowsKept
<1>3. \A r \in Requests : todo'[r] = IF Tell!Busy(r) /\ todo[r].op = "send" /\ todo[r].user = Tell!Partner(Owner[s])
                                 THEN [todo[r] EXCEPT !.clean = FALSE] ELSE todo[r]
  BY DEF Tell!Disturbs
<1>4. \A r \in Requests : Same(r) /\ (Tell!Busy(r)' => Tell!Busy(r))
  BY <1>3 DEF Same, Tell!Busy
<1>5. todo' \in [Requests -> Tell!Todos \cup {Tell!Nothing}]
  <2>1. \A r \in Requests : todo'[r] \in Tell!Todos \cup {Tell!Nothing}
    BY <1>3, BusyIs, Spoilt
  <2>. QED  BY <2>1 DEF Tell!Disturbs
<1>6. \A r \in Requests : Tell!Busy(r) => /\ Tell!Busy(r)' /\ todo'[r].op = todo[r].op /\ todo'[r].msg = todo[r].msg
                                 /\ todo'[r].user = todo[r].user /\ (todo'[r].clean => todo[r].clean)
  <2>. SUFFICES ASSUME NEW r \in Requests, Tell!Busy(r)
                PROVE  /\ Tell!Busy(r)' /\ todo'[r].op = todo[r].op /\ todo'[r].msg = todo[r].msg
                       /\ todo'[r].user = todo[r].user /\ (todo'[r].clean => todo[r].clean)
    OBVIOUS
  <2>1. todo[r] \in Tell!Todos /\ TodoOK(todo[r])
    BY BusyIs
  <2>. QED  BY <1>3, <2>1, Spoilt, TodoIs DEF Tell!Busy
<1>7. Tell!TypeOK'
  BY <1>1, <1>2, <1>5 DEF TellInv, Tell!TypeOK, Unchanged
<1>8. TodoInv'
  <2>. SUFFICES ASSUME NEW r \in Requests, Tell!Busy(r)' PROVE TodoOK(todo[r])'
    BY DEF TodoInv
  <2>1. \A t \in Tell!Todos : Tell!Busy(r) /\ t.op = todo[r].op /\ t.at = todo[r].at /\ t.msg = todo[r].msg /\
                          t.user = todo[r].user /\ (todo'[r] = t \/ ~t.clean) => Kept(t)
    <3>. SUFFICES ASSUME NEW t \in Tell!Todos, Tell!Busy(r), t.op = todo[r].op, t.at = todo[r].at,
                         t.msg = todo[r].msg, t.user = todo[r].user, todo'[r] = t \/ ~t.clean
                  PROVE  Kept(t)
      OBVIOUS
    <3>1. TodoOK(todo[r]) /\ todo[r] \in Tell!Todos
      BY BusyIs
    <3>2. t.op = "send" /\ t.clean => Tell!SocketsOf(Tell!Partner(t.user))' = Tell!SocketsOf(Tell!Partner(t.user))
      <4>. SUFFICES ASSUME t.op = "send", t.clean
                    PROVE  Tell!SocketsOf(Tell!Partner(t.user))' = Tell!SocketsOf(Tell!Partner(t.user))
        OBVIOUS
      <4>1. todo'[r] = t
        OBVIOUS
      <4>2. todo[r].user # Tell!Partner(Owner[s])
        BY <1>3, <3>1, <4>1, Spoilt
      <4>3. Owner[s] \in Tell!Users /\ todo[r].user \in Tell!Users
        BY <3>1, Proper DEF Tell!Todos
      <4>4. Tell!Partner(todo[r].user) # Owner[s]
        BY <4>2, <4>3, Proper DEF Tell!Partner, Tell!Users
      <4>. QED  BY <4>4 DEF Tell!SocketsOf
    <3>. QED  BY <1>1, <1>2, <3>1, <3>2 DEF Kept, Unchanged, TodoOK, EditOK, ReactOK
  <2>. QED  BY <1>4, <2>1, SameOK
<1>9. AloneInv'
  BY <1>4, <1>6, AloneKept DEF Changes, Tell!Subject, TellInv, Tell!Text
<1>10. Tell!Announced'
  BY <1>1, <1>2, <1>6, AnnouncedKept
<1>. QED  BY <1>2, <1>7, <1>8, <1>9, <1>10 DEF TellInv

LEMMA BeginAt == ASSUME TellInv, NEW r \in Requests, NEW t \in Tell!Todos, Tell!Begin(r, t)
                 PROVE  /\ todo' \in [Requests -> Tell!Todos \cup {Tell!Nothing}] /\ done' = done /\ todo'[r] = t
                        /\ Tell!Busy(r)' /\ ~Tell!Busy(r) /\ \A q \in Requests : q # r => todo'[q] = todo[q]
BY TodoIs DEF Tell!Begin, Tell!Busy, TellInv, Tell!TypeOK

LEMMA ZeroIs == 0 \in 0..MaxTold
BY Proper

LEMMA FreshIs == ASSUME NEW op \in {"open", "send", "edit", "delete", "react", "unreact"},
                        NEW u \in Tell!Users, NEW m \in 0..MaxTold, NEW http \in BOOLEAN
                 PROVE  Tell!Fresh(op, u, m, http) \in Tell!Todos
BY DEF Tell!Fresh, Tell!Todos

LEMMA OpenLookStep == ASSUME TellInv, NEW r \in Requests, NEW u \in Tell!Users, Tell!OpenLook(r, u)
                      PROVE  TellInv'
<1>0. Unchanged /\ UNCHANGED <<connected, inside, alerted, received, slipped>>
  BY DEF Tell!OpenLook, Unchanged, Tell!rows, Tell!sockets, Tell!events, Tell!history
<1>1. SavedInv' /\ OneInv' /\ ToldInv' /\ Tell!Saved' = Tell!Saved /\ Tell!ChatRows' = Tell!ChatRows
  BY <1>0, RowsKept
<1>2. \A v : Tell!SocketsOf(v)' = Tell!SocketsOf(v)
  BY <1>0 DEF Tell!SocketsOf
<1>3. \A t \in Tell!Todos : TodoOK(t) => Kept(t)
  BY <1>0, <1>1, <1>2 DEF Kept, Unchanged, TodoOK, EditOK, ReactOK
<1>4. CASE Tell!Answers(r)
  <2>1. todo' = todo /\ done' \subseteq Requests
    BY <1>4 DEF Tell!Answers, TellInv, Tell!TypeOK
  <2>2. Tell!TypeOK'
    BY <1>0, <1>1, <2>1 DEF TellInv, Tell!TypeOK, Unchanged
  <2>3. TodoInv'
    BY <1>3, <2>1, StillOK DEF TodoInv
  <2>4. AloneInv'
    BY <2>1, AloneKept DEF Changes, Tell!Busy, Tell!Subject, TellInv, Tell!Text
  <2>5. Tell!Announced'
    BY <1>0, <1>1, <2>1, AnnouncedKept DEF Tell!Busy
  <2>. QED  BY <1>1, <2>2, <2>3, <2>4, <2>5 DEF TellInv
<1>5. CASE Tell!Begin(r, Tell!Fresh("open", u, 0, TRUE)) /\ Tell!ChatRows = {}
  <2>0. PICK t : t = Tell!Fresh("open", u, 0, TRUE)
    OBVIOUS
  <2>1. t \in Tell!Todos /\ t.op = "open" /\ t.at = "looked"
    <3>1. t \in Tell!Todos
      BY <2>0, ZeroIs, FreshIs
    <3>. QED  BY <2>0, <3>1 DEF Tell!Fresh
  <2>2. /\ todo' \in [Requests -> Tell!Todos \cup {Tell!Nothing}] /\ done' = done /\ todo'[r] = t
        /\ Tell!Busy(r)' /\ ~Tell!Busy(r) /\ \A q \in Requests : q # r => todo'[q] = todo[q]
    BY <1>5, <2>0, <2>1, BeginAt
  <2>3. Tell!TypeOK'
    BY <1>0, <1>1, <2>2 DEF TellInv, Tell!TypeOK, Unchanged
  <2>4. TodoInv'
    <3>. SUFFICES ASSUME NEW q \in Requests, Tell!Busy(q)' PROVE TodoOK(todo[q])'
      BY DEF TodoInv
    <3>1. CASE q = r
      BY <1>1, <1>5, <2>1, <2>2, <3>1 DEF TodoOK, PathOK, SendOK, OpenOK, EditOK, ReactOK
    <3>2. CASE q # r
      BY <1>3, <2>2, <3>2, StillOK
    <3>. QED  BY <3>1, <3>2
  <2>5. AloneInv'
    BY <2>1, <2>2, AloneKept DEF Changes, Tell!Busy, Tell!Subject, TellInv, Tell!Text
  <2>6. Tell!Announced'
    BY <1>0, <1>1, <2>2, AnnouncedKept DEF Tell!Busy
  <2>. QED  BY <1>1, <2>3, <2>4, <2>5, <2>6 DEF TellInv
<1>. QED  BY <1>4, <1>5 DEF Tell!OpenLook

LEMMA OpenInsertStep == ASSUME TellInv, NEW r \in Requests, NEW c \in Chats, Tell!OpenInsert(r, c)
                        PROVE  TellInv'
<1>0. /\ Tell!Busy(r) /\ todo[r].op = "open" /\ todo[r].at = "looked" /\ c \notin Tell!ChatRows
      /\ opener' = [opener EXCEPT ![c] = todo[r].user]
      /\ twice' = (twice \/ ~todo[r].clean) /\ done' = done \cup {r}
      /\ UNCHANGED <<author, content, gone, react, connected, inside, told, toldReact, alerted, received,
                     off, slipped>>
  BY DEF Tell!OpenInsert, Tell!Doing, Tell!sockets, Tell!events
<1>1. todo[r] \in Tell!Todos /\ TodoOK(todo[r])
  BY <1>0, BusyIs
<1>2. todo' = [x \in Requests |-> IF x = r THEN Tell!Nothing
                              ELSE IF Tell!Doing(x, "open", "looked") THEN [todo[x] EXCEPT !.clean = FALSE]
                              ELSE todo[x]]
  BY DEF Tell!OpenInsert
<1>3. \A q \in Requests : q # r => Same(q) /\ (Tell!Busy(q)' => Tell!Busy(q))
  BY <1>2 DEF Same, Tell!Busy, Tell!Doing
<1>4. ~Tell!Busy(r)' /\ todo' \in [Requests -> Tell!Todos \cup {Tell!Nothing}]
  <2>1. \A q \in Requests : todo'[q] \in Tell!Todos \cup {Tell!Nothing}
    BY <1>2, BusyIs, Spoilt DEF Tell!Doing
  <2>. QED  BY <1>2, <2>1 DEF Tell!Busy
<1>5. \A q \in Requests : q # r /\ Tell!Busy(q) =>
        /\ Tell!Busy(q)' /\ todo'[q].op = todo[q].op /\ todo'[q].msg = todo[q].msg
        /\ todo'[q].user = todo[q].user /\ (todo'[q].clean => todo[q].clean)
        /\ todo'[q].op = "open" => ~todo'[q].clean
  <2>. SUFFICES ASSUME NEW q \in Requests, q # r, Tell!Busy(q)
                PROVE  /\ Tell!Busy(q)' /\ todo'[q].op = todo[q].op /\ todo'[q].msg = todo[q].msg
                       /\ todo'[q].user = todo[q].user /\ (todo'[q].clean => todo[q].clean)
                       /\ todo'[q].op = "open" => ~todo'[q].clean
    OBVIOUS
  <2>1. todo[q] \in Tell!Todos /\ TodoOK(todo[q])
    BY BusyIs
  <2>2. todo[q].op = "open" => Tell!Doing(q, "open", "looked")
    BY <2>1 DEF TodoOK, PathOK, Tell!Doing
  <2>. QED  BY <1>2, <2>1, <2>2, Spoilt, TodoIs DEF Tell!Busy
<1>6. /\ Tell!Saved' = Tell!Saved /\ Tell!StoredReactions' = Tell!StoredReactions
      /\ Tell!ChatRows' = Tell!ChatRows \cup {c}
  <2>1. todo[r].user # None
    BY <1>1, Proper DEF Tell!Todos
  <2>. QED  BY <1>0, <2>1 DEF Tell!Saved, Tell!StoredReactions, Tell!ChatRows, TellInv, Tell!TypeOK
<1>7. opener' \in [Chats -> Tell!Users \cup {None}]
  <2>1. todo[r].user \in Tell!Users
    BY <1>1 DEF Tell!Todos
  <2>. QED  BY <1>0, <2>1 DEF TellInv, Tell!TypeOK
<1>8. Tell!TypeOK'
  <2>1. twice' \in BOOLEAN
    BY <1>0
  <2>2. done' \subseteq Requests
    BY <1>0 DEF TellInv, Tell!TypeOK
  <2>. QED  BY <1>0, <1>4, <1>6, <1>7, <2>1, <2>2 DEF TellInv, Tell!TypeOK
<1>9. TodoInv'
  <2>. SUFFICES ASSUME NEW q \in Requests, Tell!Busy(q)' PROVE TodoOK(todo[q])'
    BY DEF TodoInv
  <2>0. q # r
    BY <1>4
  <2>1. \A t \in Tell!Todos : Tell!Busy(q) /\ t.op = todo[q].op /\ t.at = todo[q].at /\ t.msg = todo[q].msg /\
                          t.user = todo[q].user /\ (todo'[q] = t \/ ~t.clean) => Kept(t)
    <3>. SUFFICES ASSUME NEW t \in Tell!Todos, Tell!Busy(q), t.op = todo[q].op, t.at = todo[q].at,
                         t.msg = todo[q].msg, t.user = todo[q].user, todo'[q] = t \/ ~t.clean
                  PROVE  Kept(t)
      OBVIOUS
    <3>1. TodoOK(todo[q]) /\ todo[q] \in Tell!Todos
      BY BusyIs
    <3>2. ~(t.op = "open" /\ t.clean)
      BY <1>5, <2>0
    <3>3. \A v : Tell!SocketsOf(v)' = Tell!SocketsOf(v)
      BY <1>0 DEF Tell!SocketsOf
    <3>. QED  BY <1>0, <1>6, <3>1, <3>2, <3>3 DEF Kept, TodoOK, EditOK, ReactOK
  <2>. QED  BY <1>3, <2>0, <2>1, SameOK
<1>10. AloneInv'
  BY <1>3, <1>4, <1>5, AloneKept DEF Changes, Tell!Subject, TellInv, Tell!Text
<1>11. Tell!Announced'
  BY <1>0, <1>5, <1>6, AnnouncedKept
<1>12. OneInv'
  BY <1>0, <1>1, <1>6 DEF TellInv, OneInv, TodoOK, OpenOK
<1>13. SavedInv' /\ ToldInv'
  BY <1>0, <1>6 DEF TellInv, SavedInv, ToldInv
<1>. QED  BY <1>8, <1>9, <1>10, <1>11, <1>12, <1>13 DEF TellInv

LEMMA SendLookStep == ASSUME TellInv, NEW r \in Requests, NEW u \in Tell!Users,
                             NEW http \in BOOLEAN,
                             Tell!SendLook(r, u, http) PROVE TellInv'
<1>0. Unchanged /\ UNCHANGED <<connected, inside, alerted, received, slipped>>
  BY DEF Tell!SendLook, Unchanged, Tell!rows, Tell!sockets, Tell!events, Tell!history
<1>1. SavedInv' /\ OneInv' /\ ToldInv' /\ Tell!Saved' = Tell!Saved /\ Tell!ChatRows' = Tell!ChatRows
  BY <1>0, RowsKept
<1>2. \A v : Tell!SocketsOf(v)' = Tell!SocketsOf(v)
  BY <1>0 DEF Tell!SocketsOf
<1>3. \A t \in Tell!Todos : TodoOK(t) => Kept(t)
  BY <1>0, <1>1, <1>2 DEF Kept, Unchanged, TodoOK, EditOK, ReactOK
<1>4. PICK b \in BOOLEAN : b = (~http /\ Tell!SocketsOf(Tell!Partner(u)) \cap inside # {})
  OBVIOUS
<1>5. PICK t : t = [Tell!Fresh("send", u, 0, http) EXCEPT !.inRoom = b]
  OBVIOUS
<1>6. t \in Tell!Todos /\ t.op = "send" /\ t.at = "looked" /\ t.msg = 0 /\ t.user = u /\ t.inRoom = b
  <2>1. PICK f : f = Tell!Fresh("send", u, 0, http)
    OBVIOUS
  <2>2. f \in Tell!Todos
    BY <2>1, ZeroIs, FreshIs
  <2>3. f.op = "send" /\ f.at = "looked" /\ f.msg = 0 /\ f.user = u
    BY <2>1 DEF Tell!Fresh
  <2>. QED  BY <1>5, <2>1, <2>2, <2>3 DEF Tell!Todos
<1>7. Tell!Begin(r, t)
  BY <1>4, <1>5 DEF Tell!SendLook
<1>8. /\ todo' \in [Requests -> Tell!Todos \cup {Tell!Nothing}] /\ done' = done /\ todo'[r] = t
      /\ Tell!Busy(r)' /\ ~Tell!Busy(r) /\ \A q \in Requests : q # r => todo'[q] = todo[q]
  BY <1>6, <1>7, BeginAt
<1>9. Tell!TypeOK'
  BY <1>0, <1>1, <1>8 DEF TellInv, Tell!TypeOK, Unchanged
<1>10. TodoInv'
  <2>. SUFFICES ASSUME NEW q \in Requests, Tell!Busy(q)' PROVE TodoOK(todo[q])'
    BY DEF TodoInv
  <2>1. CASE q = r
    <3>1. b => Tell!SocketsOf(Tell!Partner(u))' # {}
      BY <1>2, <1>4
    <3>. QED  BY <1>6, <1>8, <2>1, <3>1 DEF TodoOK, PathOK, SendOK, OpenOK, EditOK, ReactOK
  <2>2. CASE q # r
    BY <1>3, <1>8, <2>2, StillOK
  <2>. QED  BY <2>1, <2>2
<1>11. AloneInv'
  BY <1>6, <1>8, AloneKept DEF Changes, Tell!Busy, Tell!Subject, TellInv, Tell!Text
<1>12. Tell!Announced'
  BY <1>0, <1>1, <1>8, AnnouncedKept DEF Tell!Busy
<1>. QED  BY <1>1, <1>9, <1>10, <1>11, <1>12 DEF TellInv

-----------------------------------------------------------------------------
(* Sending. *)

\* The next message has no number yet.
LEMMA NextIs == ASSUME TellInv, Cardinality(Tell!Saved) + 1 \in Tell!Messages
                PROVE  /\ Tell!Saved = 1..Cardinality(Tell!Saved)
                       /\ Cardinality(Tell!Saved) + 1 \notin Tell!Saved
                       /\ Cardinality(Tell!Saved) \in Nat
<1>1. PICK n \in 0..MaxTold : Tell!Saved = 1..n
  BY DEF TellInv, SavedInv
<1>2. n \in Nat
  BY <1>1, Proper
<1>3. Cardinality(1..n) = n
  BY <1>2, FS_Interval
<1>. QED  BY <1>1, <1>2, <1>3

LEMMA SendSaveStep == ASSUME TellInv, NEW r \in Requests, Tell!SendSave(r) PROVE TellInv'
<1>. DEFINE m == Cardinality(Tell!Saved) + 1
<1>0. /\ Tell!Busy(r) /\ todo[r].op = "send" /\ todo[r].at = "looked" /\ m \in Tell!Messages
      /\ author' = [author EXCEPT ![m] = todo[r].user]
      /\ content' = [content EXCEPT ![m] = r]
      /\ off' = off \cup {Tell!Text(m)}
      /\ UNCHANGED <<opener, gone, react, connected, inside, told, toldReact, alerted, received,
                     done, twice, slipped>>
  BY SameCount DEF Tell!SendSave, Tell!Doing, Tell!sockets, Tell!events
<1>1. todo[r] \in Tell!Todos /\ TodoOK(todo[r])
  BY <1>0, BusyIs
<1>2. PICK t : t = [todo[r] EXCEPT !.at = IF todo[r].inRoom THEN "alerted" ELSE "saved", !.msg = m]
  OBVIOUS
<1>3. Tell!Saved = 1..Cardinality(Tell!Saved) /\ m \notin Tell!Saved /\ Cardinality(Tell!Saved) \in Nat
  BY <1>0, NextIs
<1>4. /\ t \in Tell!Todos /\ t.op = "send" /\ t.user = todo[r].user /\ t.inRoom = todo[r].inRoom
      /\ t.msg = m /\ t.at = IF todo[r].inRoom THEN "alerted" ELSE "saved"
      /\ t.clean = todo[r].clean
  <2>1. m \in 0..MaxTold
    BY <1>0, Proper DEF Tell!Messages
  <2>2. PICK at : at = IF todo[r].inRoom THEN "alerted" ELSE "saved"
    OBVIOUS
  <2>. HIDE DEF m
  <2>. QED  BY <1>0, <1>1, <1>2, <2>1, <2>2 DEF Tell!Todos
<1>5. todo' = [todo EXCEPT ![r] = t]
  <2>1. todo' = [todo EXCEPT ![r].at = IF todo[r].inRoom THEN "alerted" ELSE "saved", ![r].msg = m]
    BY SameCount DEF Tell!SendSave
  <2>. HIDE DEF m
  <2>. QED  BY <1>2, <2>1 DEF TellInv, Tell!TypeOK
<1>6. /\ todo' \in [Requests -> Tell!Todos \cup {Tell!Nothing}] /\ todo'[r] = t /\ Tell!Busy(r)'
      /\ \A q \in Requests : q # r => todo'[q] = todo[q]
  BY <1>4, <1>5, TodoIs DEF TellInv, Tell!TypeOK, Tell!Busy
<1>. HIDE DEF m
<1>7. /\ author' \in [Tell!Messages -> Tell!Users \cup {None}] /\ author'[m] # None
      /\ content' \in [Tell!Messages -> Requests \cup {None}]
      /\ \A k \in Tell!Messages : k # m => author'[k] = author[k] /\ content'[k] = content[k]
  <2>1. todo[r].user \in Tell!Users /\ todo[r].user # None
    BY <1>1, Proper DEF Tell!Todos
  <2>. QED  BY <1>0, <2>1 DEF TellInv, Tell!TypeOK
<1>8. Tell!Saved' = Tell!Saved \cup {m}
  BY <1>0, <1>7 DEF Tell!Saved
<1>9. Tell!TypeOK'
  <2>1. off' \subseteq Tell!Messages \X (Tell!Users \cup {None})
    BY <1>0 DEF TellInv, Tell!TypeOK, Tell!Text
  <2>. QED  BY <1>0, <1>6, <1>7, <1>8, <2>1 DEF TellInv, Tell!TypeOK
<1>10. TodoInv'
  <2>. SUFFICES ASSUME NEW q \in Requests, Tell!Busy(q)' PROVE TodoOK(todo[q])'
    BY DEF TodoInv
  <2>1. CASE q = r
    <3>1. t.inRoom /\ t.clean => Tell!SocketsOf(Tell!Partner(t.user))' # {}
      BY <1>0, <1>1, <1>4 DEF TodoOK, SendOK, Tell!SocketsOf
    <3>. QED  BY <1>4, <1>6, <1>8, <2>1, <3>1 DEF TodoOK, PathOK, SendOK, OpenOK, EditOK, ReactOK
  <2>2. CASE q # r
    <3>1. \A v : Tell!SocketsOf(v)' = Tell!SocketsOf(v)
      BY <1>0 DEF Tell!SocketsOf
    <3>2. Tell!ChatRows' = Tell!ChatRows
      BY <1>0 DEF Tell!ChatRows
    <3>3. \A x \in Tell!Todos : TodoOK(x) => Kept(x)
      <4>. SUFFICES ASSUME NEW x \in Tell!Todos, TodoOK(x) PROVE Kept(x)
        OBVIOUS
      <4>1. x.op \in {"edit", "delete"} => x.msg # m /\ x.msg \in Tell!Messages
        BY <1>3 DEF TodoOK, EditOK, Tell!Saved
      <4>. QED  BY <1>0, <1>7, <1>8, <3>1, <3>2, <4>1 DEF Kept, TodoOK, EditOK, ReactOK
    <3>. QED  BY <1>6, <2>2, <3>3, StillOK
  <2>. QED  BY <2>1, <2>2
<1>11. AloneInv'
  BY <1>4, <1>6, AloneKept DEF Changes, Tell!Busy, Tell!Subject, TellInv, Tell!Text
<1>12. SavedInv'
  <2>1. Tell!Saved' = 1..m /\ m \in 0..MaxTold
    BY <1>0, <1>3, <1>8, Proper DEF m, Tell!Messages
  <2>. QED  BY <2>1 DEF SavedInv
<1>13. OneInv'
  BY <1>0 DEF TellInv, OneInv, Tell!ChatRows
<1>14. ToldInv'
  <2>1. \A k \in Tell!Saved' : Tell!Text(k) \notin off' =>
          k \in Tell!Saved /\ k # m /\ Tell!Text(k) \notin off /\ content'[k] = content[k] /\ told'[k] = told[k]
    BY <1>0, <1>7, <1>8 DEF Tell!Saved
  <2>2. Tell!StoredReactions' = Tell!StoredReactions /\ off \subseteq off'
    BY <1>0 DEF Tell!StoredReactions
  <2>. QED  BY <1>0, <2>1, <2>2 DEF TellInv, ToldInv
<1>15. Tell!Announced'
  <2>1. \A q \in Requests : Tell!Busy(q) /\ todo[q].op = "send" /\ todo[q].msg \in Tell!Saved =>
           q # r /\ Tell!Busy(q)' /\ todo'[q] = todo[q]
    <3>1. 0 \notin Tell!Saved
      BY <1>3
    <3>. QED  BY <1>0, <1>1, <1>6, <3>1 DEF Tell!Busy, TodoOK, SendOK
  <2>. QED  BY <1>0, <1>4, <1>6, <1>8, <2>1 DEF TellInv, Tell!Announced
<1>. QED  BY <1>9, <1>10, <1>11, <1>12, <1>13, <1>14, <1>15 DEF TellInv

\* The handler goes on, and what the others rely on has not changed.
LEMMA GoesIs == ASSUME TellInv, NEW r \in Requests, Tell!Busy(r), NEW at \in {"saved", "alerted",
                       "written", "answered"},
                       Tell!Goes(r, at)
                PROVE  /\ todo' \in [Requests -> Tell!Todos \cup {Tell!Nothing}] /\ done' = done /\ Tell!Busy(r)'
                       /\ todo'[r] \in Tell!Todos
                       /\ \A q \in Requests : q # r => todo'[q] = todo[q]
                       /\ todo'[r].at = at
                       /\ todo'[r].op = todo[r].op /\ todo'[r].user = todo[r].user
                       /\ todo'[r].msg = todo[r].msg /\ todo'[r].http = todo[r].http
                       /\ todo'[r].inRoom = todo[r].inRoom /\ todo'[r].seen = todo[r].seen
                       /\ todo'[r].id = todo[r].id /\ todo'[r].clean = todo[r].clean
<1>1. todo[r] \in Tell!Todos
  BY BusyIs
<1>2. todo'[r] = [todo[r] EXCEPT !.at = at]
  BY DEF Tell!Goes, TellInv, Tell!TypeOK
<1>3. todo'[r].at = at
  BY <1>1, <1>2 DEF Tell!Todos
<1>. QED  BY <1>1, <1>3, GoesTo, TodoIs DEF Tell!Busy

LEMMA EndsInv == ASSUME TellInv, NEW r \in Requests, Tell!Ends(r),
                        \A q \in Requests : \A t \in Tell!Todos :
                            q # r /\ Tell!Busy(q) /\ t = todo[q] /\ TodoOK(t) => Kept(t)
                 PROVE  TodoInv' /\ AloneInv'
<1>1. ~Tell!Busy(r)' /\ \A q \in Requests : q # r => todo'[q] = todo[q]
  BY EndsThere
<1>2. TodoInv'
  <2>. SUFFICES ASSUME NEW q \in Requests, Tell!Busy(q)' PROVE TodoOK(todo[q])'
    BY DEF TodoInv
  <2>1. q # r /\ todo'[q] = todo[q] /\ Tell!Busy(q)
    BY <1>1 DEF Tell!Busy
  <2>2. \A t \in Tell!Todos : t = todo[q] /\ TodoOK(t) => Kept(t)
    BY <2>1
  <2>. QED  BY <2>1, <2>2, StillOK
<1>3. AloneInv'
  BY <1>1, AloneKept DEF Changes, Tell!Busy, Tell!Subject, TellInv, Tell!Text
<1>. QED  BY <1>2, <1>3

LEMMA GoesInv == ASSUME TellInv, NEW r \in Requests, Tell!Busy(r), NEW at \in {"saved",
                        "alerted", "written", "answered"},
                        Tell!Goes(r, at), TodoOK(todo[r])',
                        \A q \in Requests : \A t \in Tell!Todos :
                            q # r /\ Tell!Busy(q) /\ t = todo[q] /\ TodoOK(t) => Kept(t)
                 PROVE  TodoInv' /\ AloneInv'
<1>1. /\ Tell!Busy(r)' /\ \A q \in Requests : q # r => todo'[q] = todo[q]
      /\ todo'[r].op = todo[r].op /\ todo'[r].user = todo[r].user
      /\ todo'[r].msg = todo[r].msg /\ todo'[r].clean = todo[r].clean
  BY GoesIs
<1>2. TodoInv'
  <2>. SUFFICES ASSUME NEW q \in Requests, Tell!Busy(q)', q # r PROVE TodoOK(todo[q])'
    BY DEF TodoInv
  <2>1. todo'[q] = todo[q] /\ Tell!Busy(q)
    BY <1>1 DEF Tell!Busy
  <2>2. \A t \in Tell!Todos : t = todo[q] /\ TodoOK(t) => Kept(t)
    BY <2>1
  <2>. QED  BY <2>1, <2>2, StillOK
<1>3. AloneInv'
  BY <1>1, AloneKept DEF Changes, Tell!Busy, Tell!Subject, TellInv, Tell!Text
<1>. QED  BY <1>2, <1>3

\* Nothing in the tables, the sockets and the histories of changes moves.
LEMMA CalmKept == ASSUME TellInv, Unchanged, UNCHANGED connected, alerted \subseteq alerted',
                         NEW t \in Tell!Todos, TodoOK(t)
                  PROVE  Kept(t)
<1>1. Tell!Saved' = Tell!Saved /\ Tell!ChatRows' = Tell!ChatRows
  BY RowsKept
<1>2. \A v : Tell!SocketsOf(v)' = Tell!SocketsOf(v)
  BY DEF Tell!SocketsOf
<1>. QED  BY <1>1, <1>2 DEF Kept, Unchanged, TodoOK, EditOK, ReactOK

LEMMA SendAlertStep == ASSUME TellInv, NEW r \in Requests, Tell!SendAlert(r) PROVE TellInv'
<1>0. /\ Tell!Busy(r) /\ todo[r].op = "send" /\ todo[r].at = "saved"
      /\ alerted' = alerted \cup {todo[r].msg}
      /\ Unchanged /\ UNCHANGED <<connected, inside, received, slipped>>
  BY DEF Tell!SendAlert, Tell!Doing, Tell!rows, Tell!sockets, Tell!history, Unchanged
<1>1. todo[r] \in Tell!Todos /\ TodoOK(todo[r])
  BY <1>0, BusyIs
<1>2. todo[r].msg \in Tell!Saved
  BY <1>0, <1>1 DEF TodoOK, SendOK
<1>3. SavedInv' /\ OneInv' /\ ToldInv' /\ Tell!Saved' = Tell!Saved /\ Tell!ChatRows' = Tell!ChatRows
  BY <1>0, RowsKept
<1>4. \A t \in Tell!Todos : TodoOK(t) => Kept(t)
  BY <1>0, CalmKept
<1>5. CASE Tell!Ends(r)
  <2>1. /\ todo' \in [Requests -> Tell!Todos \cup {Tell!Nothing}] /\ done' \subseteq Requests
        /\ ~Tell!Busy(r)' /\ \A q \in Requests : q # r => todo'[q] = todo[q]
    BY <1>5, EndsThere
  <2>2. Tell!TypeOK'
    BY <1>0, <1>2, <1>3, <2>1 DEF TellInv, Tell!TypeOK, Unchanged
  <2>3. TodoInv' /\ AloneInv'
    BY <1>4, <1>5, EndsInv
  <2>4. Tell!Announced'
    BY <1>0, <1>3, <2>1, AnnouncedKept DEF Tell!Busy
  <2>. QED  BY <1>3, <2>2, <2>3, <2>4 DEF TellInv
<1>6. CASE Tell!Goes(r, "alerted")
  <2>1. /\ todo' \in [Requests -> Tell!Todos \cup {Tell!Nothing}] /\ done' = done /\ Tell!Busy(r)'
        /\ \A q \in Requests : q # r => todo'[q] = todo[q]
        /\ todo'[r].at = "alerted" /\ todo'[r].op = todo[r].op /\ todo'[r].msg = todo[r].msg
        /\ todo'[r].inRoom = todo[r].inRoom /\ todo'[r].clean = todo[r].clean
        /\ todo'[r].user = todo[r].user
    BY <1>0, <1>6, GoesIs
  <2>2. Tell!TypeOK'
    BY <1>0, <1>2, <1>3, <2>1 DEF TellInv, Tell!TypeOK, Unchanged
  <2>3. TodoOK(todo[r])'
    <3>1. SendOK(todo[r])'
      <4>1. \A v : Tell!SocketsOf(v)' = Tell!SocketsOf(v)
        BY <1>0 DEF Tell!SocketsOf
      <4>. QED  BY <1>0, <1>1, <1>2, <1>3, <2>1, <4>1 DEF TodoOK, SendOK
    <3>. QED  BY <1>0, <2>1, <3>1 DEF TodoOK, PathOK, OpenOK, EditOK, ReactOK
  <2>4. TodoInv' /\ AloneInv'
    BY <1>0, <1>4, <1>6, <2>3, GoesInv
  <2>5. Tell!Announced'
    BY <1>0, <1>3, <2>1, AnnouncedKept DEF Tell!Busy
  <2>. QED  BY <1>3, <2>2, <2>4, <2>5 DEF TellInv
<1>. QED  BY <1>5, <1>6 DEF Tell!SendAlert

LEMMA NotAReaction == ASSUME NEW m, NEW x \in Tell!Reactions PROVE x # Tell!Text(m)
BY Proper DEF Tell!Reactions, Tell!Text

LEMMA OffIsOf == ASSUME TellInv, NEW m \in Tell!Saved
                 PROVE  Tell!Text(m) \in Tell!Messages \X (Tell!Users \cup {None})
BY DEF Tell!Saved, Tell!Text

LEMMA SendEmitStep == ASSUME TellInv, NEW r \in Requests, Tell!SendEmit(r) PROVE TellInv'
<1>. DEFINE m == todo[r].msg
            Settled == content[m] = r /\ m \notin gone /\ Tell!About(Tell!Text(m)) = {}
<1>0. /\ Tell!Busy(r) /\ todo[r].op = "send" /\ todo[r].at = "alerted"
      /\ told' = [told EXCEPT ![m] = r]
      /\ received' = IF Tell!SocketsOf(Tell!Partner(todo[r].user)) # {} THEN received \cup {m} ELSE received
      /\ slipped' = IF todo[r].clean THEN slipped ELSE slipped \cup {m}
      /\ UNCHANGED <<opener, author, content, gone, react, connected, inside, toldReact, alerted, twice>>
  BY DEF Tell!SendEmit, Tell!Doing, Tell!rows, Tell!sockets
<1>1. IF Settled THEN off' = off \ {Tell!Text(m)} ELSE off' = off \cup {Tell!Text(m)}
  BY DEF Tell!SendEmit
<1>2. todo[r] \in Tell!Todos /\ TodoOK(todo[r])
  BY <1>0, BusyIs
<1>3. m \in Tell!Saved /\ m \in Tell!Messages
  BY <1>0, <1>2 DEF TodoOK, SendOK, Tell!Saved
<1>4. Tell!Ends(r)
  BY DEF Tell!SendEmit
<1>5. /\ todo' \in [Requests -> Tell!Todos \cup {Tell!Nothing}] /\ done' \subseteq Requests
      /\ ~Tell!Busy(r)' /\ \A q \in Requests : q # r => todo'[q] = todo[q]
  BY <1>4, EndsThere
<1>6. /\ Tell!Saved' = Tell!Saved /\ Tell!ChatRows' = Tell!ChatRows
      /\ Tell!StoredReactions' = Tell!StoredReactions
      /\ \A v : Tell!SocketsOf(v)' = Tell!SocketsOf(v)
  BY <1>0 DEF Tell!Saved, Tell!ChatRows, Tell!StoredReactions, Tell!SocketsOf
<1>. HIDE DEF m
<1>7. Tell!TypeOK'
  <2>1. told' \in [Tell!Messages -> Requests \cup {"deleted", None}]
    BY <1>0, <1>3 DEF TellInv, Tell!TypeOK
  <2>2. off' \subseteq Tell!Messages \X (Tell!Users \cup {None})
    BY <1>1, <1>3, OffIsOf DEF TellInv, Tell!TypeOK
  <2>3. received' \subseteq Tell!Saved' /\ slipped' \subseteq Tell!Saved'
    BY <1>0, <1>3, <1>6 DEF TellInv, Tell!TypeOK
  <2>. QED  BY <1>0, <1>5, <1>6, <2>1, <2>2, <2>3 DEF TellInv, Tell!TypeOK
<1>8. \A q \in Requests : \A t \in Tell!Todos : q # r /\ Tell!Busy(q) /\ t = todo[q] /\ TodoOK(t) => Kept(t)
  <2>. SUFFICES ASSUME NEW q \in Requests, NEW t \in Tell!Todos, q # r, Tell!Busy(q), t = todo[q], TodoOK(t)
                PROVE  Kept(t)
    OBVIOUS
  <2>1. t.op \in {"edit", "delete"} /\ t.at # "looked" => Tell!Text(t.msg) \in off'
    <3>. SUFFICES ASSUME t.op \in {"edit", "delete"}, t.at # "looked"
                  PROVE  Tell!Text(t.msg) \in off'
      OBVIOUS
    <3>1. Tell!Text(t.msg) \in off
      BY DEF TodoOK, EditOK
    <3>2. q \in Tell!About(Tell!Text(t.msg))
      BY DEF Tell!About, Tell!Subject
    <3>3. Settled => Tell!Text(t.msg) # Tell!Text(m)
      BY <3>2
    <3>. QED  BY <1>1, <3>1, <3>3
  <2>2. t.op \in {"react", "unreact"} /\ t.at # "looked" => <<t.msg, t.user>> \in off'
    <3>1. t.op \in {"react", "unreact"} => <<t.msg, t.user>> \in Tell!Reactions
      BY DEF TodoOK, ReactOK, Tell!Saved, Tell!Reactions, Tell!Todos
    <3>. QED  BY <1>1, <3>1, NotAReaction DEF TodoOK, ReactOK
  <2>. QED  BY <1>0, <1>6, <2>1, <2>2 DEF Kept
<1>9. TodoInv' /\ AloneInv'
  BY <1>4, <1>8, EndsInv
<1>10. SavedInv' /\ OneInv'
  BY <1>0, <1>6 DEF TellInv, SavedInv, OneInv
<1>11. ToldInv'
  <2>1. ASSUME NEW k \in Tell!Saved, Tell!Text(k) \notin off'
        PROVE  told'[k] = IF k \in gone THEN "deleted" ELSE content[k]
    <3>1. CASE k = m
      <4>1. Settled
        BY <1>1, <2>1, <3>1
      <4>2. told'[m] = r
        BY <1>0, <1>3 DEF TellInv, Tell!TypeOK
      <4>. QED  BY <3>1, <4>1, <4>2
    <3>2. CASE k # m
      <4>1. Tell!Text(k) \notin off
        BY <1>1, <2>1, <3>2 DEF Tell!Text
      <4>2. told'[k] = told[k]
        BY <1>0, <3>2 DEF TellInv, Tell!TypeOK, Tell!Saved
      <4>. QED  BY <4>1, <4>2 DEF TellInv, ToldInv
    <3>. QED  BY <3>1, <3>2
  <2>2. \A x \in Tell!Reactions : x \notin off' => x \notin off
    BY <1>1, NotAReaction
  <2>. QED  BY <1>0, <1>6, <2>1, <2>2 DEF TellInv, ToldInv
<1>12. Tell!Announced'
  <2>1. m \in alerted' \cup received' \cup slipped'
    BY <1>0, <1>2 DEF TodoOK, SendOK, m
  <2>2. received \subseteq received' /\ slipped \subseteq slipped'
    BY <1>0
  <2>3. \A q \in Requests : Tell!Busy(q) /\ todo[q].op = "send" /\ todo[q].msg \in Tell!Saved =>
           \/ Tell!Busy(q)' /\ todo'[q].op = "send" /\ todo'[q].msg = todo[q].msg
           \/ todo[q].msg \in alerted' \cup received' \cup slipped'
    BY <1>5, <2>1 DEF Tell!Busy, m
  <2>. QED  BY <1>0, <1>6, <2>2, <2>3, AnnouncedKept
<1>. QED  BY <1>7, <1>9, <1>10, <1>11, <1>12 DEF TellInv

-----------------------------------------------------------------------------
(* Changes: each spoils those of the same subject that are under way. *)

LEMMA SpoilsIs == ASSUME TellInv, NEW x, NEW q \in Requests
                  PROVE  LET s == Tell!Spoils(x)[q] IN
                         IF Tell!Busy(q)
                         THEN /\ s \in Tell!Todos /\ s # Tell!Nothing
                              /\ s = todo[q] \/ s = [todo[q] EXCEPT !.clean = FALSE]
                              /\ s.op = todo[q].op /\ s.msg = todo[q].msg /\ s.user = todo[q].user
                              /\ s.at = todo[q].at
                              /\ s.clean => todo[q].clean /\ q \notin Tell!About(x)
                         ELSE s = Tell!Nothing
<1>1. Tell!Spoils(x)[q] = IF q \in Tell!About(x) THEN [todo[q] EXCEPT !.clean = FALSE] ELSE todo[q]
  BY DEF Tell!Spoils
<1>2. CASE Tell!Busy(q)
  BY <1>1, <1>2, BusyIs, Spoilt, TodoIs
<1>3. CASE ~Tell!Busy(q)
  BY <1>1, <1>3, BusyIs DEF Tell!About
<1>. QED  BY <1>2, <1>3

LEMMA StartsThere == ASSUME TellInv, NEW r \in Requests, ~Tell!Busy(r), NEW x, NEW t \in Tell!Todos,
                            todo' = [Tell!Spoils(x) EXCEPT ![r] = t]
                     PROVE  /\ todo' \in [Requests -> Tell!Todos \cup {Tell!Nothing}]
                            /\ todo'[r] = t /\ Tell!Busy(r)'
                            /\ \A q \in Requests : q # r => todo'[q] = Tell!Spoils(x)[q]
                            /\ \A q \in Requests : q # r => Same(q) /\ (Tell!Busy(q)' <=> Tell!Busy(q))
<1>1. todo'[r] = t /\ \A q \in Requests : q # r => todo'[q] = Tell!Spoils(x)[q]
  BY DEF Tell!Spoils
<1>2. \A q \in Requests : Tell!Spoils(x)[q] \in Tell!Todos \cup {Tell!Nothing}
  BY SpoilsIs
<1>3. todo' \in [Requests -> Tell!Todos \cup {Tell!Nothing}]
  BY <1>2 DEF Tell!Spoils
<1>4. \A q \in Requests : q # r => Same(q) /\ (Tell!Busy(q)' <=> Tell!Busy(q))
  BY <1>1, SpoilsIs, BusyIs DEF Same, Tell!Busy
<1>. QED  BY <1>1, <1>3, <1>4, TodoIs DEF Tell!Busy

LEMMA StartsInv == ASSUME TellInv, NEW r \in Requests, ~Tell!Busy(r), NEW x, NEW t \in Tell!Todos,
                          todo' = [Tell!Spoils(x) EXCEPT ![r] = t],
                          t.op \notin {"open", "send"}, Tell!Subject(t) = x, t.clean => Tell!About(x) = {},
                          TodoOK(t)',
                          \A q \in Requests : \A s \in Tell!Todos : q # r /\ Tell!Busy(q) /\ s.op = todo[q].op /\
                              s.at = todo[q].at /\ s.msg = todo[q].msg /\ s.user = todo[q].user /\
                              (s.clean => q \notin Tell!About(x)) => Kept(s)
                   PROVE  TodoInv' /\ AloneInv'
<1>1. /\ todo'[r] = t /\ Tell!Busy(r)'
      /\ \A q \in Requests : q # r => todo'[q] = Tell!Spoils(x)[q]
      /\ \A q \in Requests : q # r => Same(q) /\ (Tell!Busy(q)' <=> Tell!Busy(q))
  BY StartsThere
<1>2. TodoInv'
  <2>. SUFFICES ASSUME NEW q \in Requests, Tell!Busy(q)' PROVE TodoOK(todo[q])'
    BY DEF TodoInv
  <2>1. CASE q = r
    <3>1. TodoOK(t)'
      OBVIOUS
    <3>. QED  BY <1>1, <2>1, <3>1 DEF TodoOK, PathOK, SendOK, OpenOK, EditOK, ReactOK
  <2>2. CASE q # r
    <3>1. \A s \in Tell!Todos : Tell!Busy(q) /\ s.op = todo[q].op /\ s.at = todo[q].at /\ s.msg = todo[q].msg /\
                            s.user = todo[q].user /\ (todo'[q] = s \/ ~s.clean) => Kept(s)
      <4>. SUFFICES ASSUME NEW s \in Tell!Todos, Tell!Busy(q), s.op = todo[q].op, s.at = todo[q].at,
                           s.msg = todo[q].msg, s.user = todo[q].user, todo'[q] = s \/ ~s.clean
                    PROVE  Kept(s)
        OBVIOUS
      <4>1. s.clean => q \notin Tell!About(x)
        <5>1. s.clean => Tell!Spoils(x)[q] = s
          BY <1>1, <2>2
        <5>. QED  BY <5>1, SpoilsIs
      <4>. QED  BY <2>2, <4>1
    <3>. QED  BY <1>1, <2>2, <3>1, SameOK
  <2>. QED  BY <2>1, <2>2
<1>3. \A q \in Requests : q # r /\ Changes(q)' =>
        /\ Changes(q) /\ Tell!Subject(todo[q])' = Tell!Subject(todo[q])
        /\ todo'[q].clean => todo[q].clean /\ q \notin Tell!About(x)
  <2>. SUFFICES ASSUME NEW q \in Requests, q # r, Changes(q)'
                PROVE  /\ Changes(q) /\ Tell!Subject(todo[q])' = Tell!Subject(todo[q])
                       /\ todo'[q].clean => todo[q].clean /\ q \notin Tell!About(x)
    OBVIOUS
  <2>1. Tell!Busy(q) /\ todo'[q] = Tell!Spoils(x)[q]
    BY <1>1 DEF Changes
  <2>2. /\ todo'[q].op = todo[q].op /\ todo'[q].msg = todo[q].msg /\ todo'[q].user = todo[q].user
        /\ todo'[q].clean => todo[q].clean /\ q \notin Tell!About(x)
    <3>1. PICK s : s = Tell!Spoils(x)[q]
      OBVIOUS
    <3>2. /\ s.op = todo[q].op /\ s.msg = todo[q].msg /\ s.user = todo[q].user
          /\ s.clean => todo[q].clean /\ q \notin Tell!About(x)
      BY <2>1, <3>1, SpoilsIs
    <3>. QED  BY <2>1, <3>1, <3>2
  <2>3. todo[q].op \notin {"open", "send"}
    BY <2>2 DEF Changes
  <2>. QED  BY <2>1, <2>2, <2>3 DEF Changes, Tell!Subject, Tell!Text
<1>4. Tell!Subject(todo[r])' = x
  BY <1>1 DEF Tell!Subject, Tell!Text
<1>5. AloneInv'
  <2>. SUFFICES ASSUME NEW q \in Requests, NEW p \in Requests, Changes(q)', Changes(p)',
                       Tell!Subject(todo[q])' = Tell!Subject(todo[p])', todo'[q].clean
                PROVE  q = p
    BY DEF AloneInv
  <2>1. CASE q = r /\ p # r
    <3>1. p \in Tell!About(x)
      BY <1>3, <1>4, <2>1 DEF Tell!About, Changes
    <3>. QED  BY <1>1, <2>1, <3>1
  <2>2. CASE q # r /\ p = r
    <3>1. q \in Tell!About(x)
      BY <1>3, <1>4, <2>2 DEF Tell!About, Changes
    <3>. QED  BY <1>3, <2>2, <3>1
  <2>3. CASE q # r /\ p # r
    BY <1>3, <2>3 DEF TellInv, AloneInv
  <2>. QED  BY <2>1, <2>2, <2>3
<1>. QED  BY <1>2, <1>5

\* A message that is being sent stays with its sender.
LEMMA StartsSends == ASSUME TellInv, NEW r \in Requests, ~Tell!Busy(r), NEW x, NEW t \in Tell!Todos,
                            todo' = [Tell!Spoils(x) EXCEPT ![r] = t]
                     PROVE  \A q \in Requests : Tell!Busy(q) /\ todo[q].op = "send" =>
                               Tell!Busy(q)' /\ todo'[q].op = "send" /\ todo'[q].msg = todo[q].msg
<1>. SUFFICES ASSUME NEW q \in Requests, Tell!Busy(q), todo[q].op = "send"
              PROVE  Tell!Busy(q)' /\ todo'[q].op = "send" /\ todo'[q].msg = todo[q].msg
  OBVIOUS
<1>1. q # r
  OBVIOUS
<1>. QED  BY <1>1, StartsThere, SpoilsIs

LEMMA ChangeLookStep == ASSUME TellInv, NEW r \in Requests, NEW op \in {"edit", "delete"},
                               NEW m \in Tell!Messages,
                               NEW http \in BOOLEAN, Tell!ChangeLook(r, op, m, http)
                        PROVE  TellInv'
<1>0. /\ m \in Tell!Saved /\ m \notin gone /\ ~Tell!Busy(r)
      /\ Unchanged /\ UNCHANGED <<connected, inside, alerted, received, slipped, done>>
  BY DEF Tell!ChangeLook, Unchanged, Tell!rows, Tell!sockets, Tell!events, Tell!history
<1>1. SavedInv' /\ OneInv' /\ ToldInv' /\ Tell!Saved' = Tell!Saved /\ Tell!ChatRows' = Tell!ChatRows
  BY <1>0, RowsKept
<1>2. PICK t : t = Tell!Overlaps(Tell!Text(m), Tell!Fresh(op, author[m], m, http))
  OBVIOUS
<1>3. /\ t \in Tell!Todos /\ t.op = op /\ t.at = "looked" /\ t.msg = m /\ (t.clean <=> Tell!About(Tell!Text(m)) = {})
  <2>1. PICK f : f = Tell!Fresh(op, author[m], m, http)
    OBVIOUS
  <2>2. author[m] \in Tell!Users /\ m \in 0..MaxTold
    BY <1>0, Proper DEF Tell!Saved, TellInv, Tell!TypeOK, Tell!Messages
  <2>3. f \in Tell!Todos
    BY <2>1, <2>2, FreshIs
  <2>4. f.op = op /\ f.at = "looked" /\ f.msg = m
    BY <2>1 DEF Tell!Fresh
  <2>5. PICK b \in BOOLEAN : b = (Tell!About(Tell!Text(m)) = {})
    OBVIOUS
  <2>6. t = [f EXCEPT !.clean = b]
    BY <1>2, <2>1, <2>5 DEF Tell!Overlaps
  <2>. QED  BY <2>3, <2>4, <2>5, <2>6 DEF Tell!Todos
<1>4. todo' = [Tell!Spoils(Tell!Text(m)) EXCEPT ![r] = t]
  BY <1>2 DEF Tell!ChangeLook
<1>5. Tell!TypeOK'
  BY <1>0, <1>1, <1>3, <1>4, StartsThere DEF TellInv, Tell!TypeOK, Unchanged
<1>6. TodoOK(t)'
  BY <1>0, <1>1, <1>3 DEF TodoOK, PathOK, SendOK, OpenOK, EditOK, ReactOK, Unchanged
<1>7. TodoInv' /\ AloneInv'
  <2>1. Tell!Subject(t) = Tell!Text(m) /\ t.op \notin {"open", "send"}
    BY <1>3 DEF Tell!Subject
  <2>2. \A q \in Requests : \A s \in Tell!Todos : q # r /\ Tell!Busy(q) /\ s.op = todo[q].op /\
                              s.at = todo[q].at /\ s.msg = todo[q].msg /\ s.user = todo[q].user /\
                              (s.clean => q \notin Tell!About(Tell!Text(m))) => Kept(s)
    <3>. SUFFICES ASSUME NEW q \in Requests, NEW s \in Tell!Todos, q # r, Tell!Busy(q), s.op = todo[q].op,
                         s.at = todo[q].at, s.msg = todo[q].msg, s.user = todo[q].user
                  PROVE  Kept(s)
      OBVIOUS
    <3>1. TodoOK(todo[q])
      BY BusyIs
    <3>2. \A v : Tell!SocketsOf(v)' = Tell!SocketsOf(v)
      BY <1>0 DEF Tell!SocketsOf
    <3>. QED  BY <1>0, <1>1, <3>1, <3>2 DEF Kept, Unchanged, TodoOK, EditOK, ReactOK
  <2>. QED  BY <1>0, <1>3, <1>4, <1>6, <2>1, <2>2, StartsInv
<1>8. Tell!Announced'
  BY <1>0, <1>1, <1>3, <1>4, StartsSends, AnnouncedKept
<1>. QED  BY <1>1, <1>5, <1>7, <1>8 DEF TellInv

\* A change that nothing has overlapped is the only one of its subject.
LEMMA AloneIs == ASSUME TellInv, NEW r \in Requests, NEW q \in Requests, Changes(r), Changes(q),
                        r # q,
                        Tell!Subject(todo[r]) = Tell!Subject(todo[q])
                 PROVE  ~todo[r].clean /\ ~todo[q].clean
BY DEF TellInv, AloneInv

\* The contents and the deletions of one message move, and its events are behind.
LEMMA ChangeInv == ASSUME TellInv, NEW r \in Requests, NEW op \in {"edit", "delete"},
                          NEW m \in Tell!Saved,
                          todo[r].msg = m, Tell!Change(r, op),
                          content' \in [Tell!Messages -> Requests \cup {None}],
                          \A k \in Tell!Messages : k # m => content'[k] = content[k],
                          gone' = IF op = "edit" THEN gone ELSE gone \cup {m},
                          UNCHANGED <<opener, author, react, Tell!sockets, Tell!events, twice, slipped>>
                   PROVE  TellInv'
<1>0. /\ Tell!Busy(r) /\ todo[r].op = op /\ todo[r].at = "looked"
      /\ off' = off \cup {Tell!Text(m)}
      /\ UNCHANGED <<opener, author, react, connected, inside, told, toldReact, alerted, received,
                     twice, slipped>>
  BY DEF Tell!Change, Tell!Doing, Tell!sockets, Tell!events
<1>1. todo[r] \in Tell!Todos /\ TodoOK(todo[r])
  BY <1>0, BusyIs
<1>2. m \in Tell!Messages
  BY DEF Tell!Saved
<1>3. /\ Tell!Saved' = Tell!Saved /\ Tell!ChatRows' = Tell!ChatRows
      /\ Tell!StoredReactions' = Tell!StoredReactions
      /\ \A v : Tell!SocketsOf(v)' = Tell!SocketsOf(v)
  BY <1>0 DEF Tell!Saved, Tell!ChatRows, Tell!StoredReactions, Tell!SocketsOf
<1>4. off' \subseteq Tell!Messages \X (Tell!Users \cup {None})
  BY <1>0, OffIsOf DEF TellInv, Tell!TypeOK
<1>5. gone \subseteq gone' /\ gone' \subseteq gone \cup {m} /\ (op = "delete" => m \in gone')
  OBVIOUS
<1>6. \A q \in Requests : \A t \in Tell!Todos : q # r /\ Tell!Busy(q) /\ t = todo[q] /\ TodoOK(t) => Kept(t)
  <2>. SUFFICES ASSUME NEW q \in Requests, NEW t \in Tell!Todos, q # r, Tell!Busy(q), t = todo[q], TodoOK(t)
                PROVE  Kept(t)
    OBVIOUS
  <2>1. t.op = "edit" /\ t.clean => t.msg # m /\ t.msg \in Tell!Messages
    <3>. SUFFICES ASSUME t.op = "edit", t.clean PROVE t.msg # m /\ t.msg \in Tell!Messages
      OBVIOUS
    <3>1. t.msg \in Tell!Messages
      BY DEF TodoOK, EditOK, Tell!Saved
    <3>2. t.msg = m => Tell!Subject(todo[r]) = Tell!Subject(todo[q])
      BY <1>0 DEF Tell!Subject
    <3>. QED  BY <1>0, <3>1, <3>2, AloneIs DEF Changes
  <2>2. t.op = "edit" /\ t.clean => content'[t.msg] = content[t.msg] /\ (t.msg \in gone' <=> t.msg \in gone)
    BY <1>5, <2>1
  <2>. QED  BY <1>0, <1>3, <1>5, <2>2 DEF Kept, TodoOK, EditOK, ReactOK
<1>7. SavedInv' /\ OneInv'
  BY <1>0, <1>3 DEF TellInv, SavedInv, OneInv
<1>8. ToldInv'
  <2>1. ASSUME NEW k \in Tell!Saved, Tell!Text(k) \notin off'
        PROVE  told[k] = IF k \in gone' THEN "deleted" ELSE content'[k]
    <3>1. k # m /\ Tell!Text(k) \notin off /\ k \in Tell!Messages
      BY <1>0, <2>1 DEF Tell!Saved
    <3>. QED  BY <1>5, <3>1 DEF TellInv, ToldInv
  <2>. QED  BY <1>0, <1>3, <2>1 DEF TellInv, ToldInv
<1>9. CASE Tell!Ends(r)
  <2>1. /\ todo' \in [Requests -> Tell!Todos \cup {Tell!Nothing}] /\ done' \subseteq Requests
        /\ ~Tell!Busy(r)' /\ \A q \in Requests : q # r => todo'[q] = todo[q]
    BY <1>9, EndsThere
  <2>2. Tell!TypeOK'
    BY <1>0, <1>3, <1>4, <1>5, <2>1 DEF TellInv, Tell!TypeOK
  <2>3. TodoInv' /\ AloneInv'
    BY <1>6, <1>9, EndsInv
  <2>4. Tell!Announced'
    BY <1>0, <1>3, <2>1, AnnouncedKept DEF Tell!Busy
  <2>. QED  BY <1>7, <1>8, <2>2, <2>3, <2>4 DEF TellInv
<1>10. CASE Tell!Goes(r, "written")
  <2>1. /\ todo' \in [Requests -> Tell!Todos \cup {Tell!Nothing}] /\ done' = done /\ Tell!Busy(r)'
        /\ \A q \in Requests : q # r => todo'[q] = todo[q]
        /\ todo'[r].at = "written" /\ todo'[r].op = op /\ todo'[r].msg = m
        /\ todo'[r].clean = todo[r].clean
    BY <1>0, <1>10, GoesIs
  <2>2. Tell!TypeOK'
    BY <1>0, <1>3, <1>4, <1>5, <2>1 DEF TellInv, Tell!TypeOK
  <2>3. TodoOK(todo[r])'
    <3>1. op = "edit" /\ todo[r].clean => m \notin gone
      BY <1>0, <1>1 DEF TodoOK, EditOK
    <3>. QED  BY <1>0, <1>3, <1>5, <2>1, <3>1 DEF TodoOK, PathOK, SendOK, OpenOK, EditOK, ReactOK
  <2>4. TodoInv' /\ AloneInv'
    BY <1>0, <1>6, <1>10, <2>3, GoesInv
  <2>5. Tell!Announced'
    BY <1>0, <1>3, <2>1, AnnouncedKept DEF Tell!Busy
  <2>. QED  BY <1>7, <1>8, <2>2, <2>4, <2>5 DEF TellInv
<1>. QED  BY <1>9, <1>10 DEF Tell!Change

LEMMA EditWriteStep == ASSUME TellInv, NEW r \in Requests, Tell!EditWrite(r) PROVE TellInv'
<1>1. Tell!Busy(r) /\ todo[r].op = "edit" /\ Tell!Change(r, "edit") /\ content' = [content EXCEPT ![todo[r].msg] = r]
      /\ UNCHANGED <<opener, author, gone, react, Tell!sockets, Tell!events, twice, slipped>>
  BY DEF Tell!EditWrite, Tell!Change, Tell!Doing
<1>2. PICK m \in Tell!Saved : m = todo[r].msg
  BY <1>1, BusyIs DEF TodoOK, EditOK
<1>3. /\ content' \in [Tell!Messages -> Requests \cup {None}]
      /\ \A k \in Tell!Messages : k # m => content'[k] = content[k]
  BY <1>1, <1>2 DEF TellInv, Tell!TypeOK
<1>4. gone' = IF "edit" = "edit" THEN gone ELSE gone \cup {m}
  BY <1>1
<1>. QED  BY <1>1, <1>2, <1>3, <1>4, ChangeInv

LEMMA DeleteWriteStep == ASSUME TellInv, NEW r \in Requests, Tell!DeleteWrite(r) PROVE TellInv'
<1>1. Tell!Busy(r) /\ todo[r].op = "delete" /\ Tell!Change(r, "delete") /\ gone' = gone \cup {todo[r].msg}
      /\ content' = [content EXCEPT ![todo[r].msg] = None]
      /\ UNCHANGED <<opener, author, react, Tell!sockets, Tell!events, twice, slipped>>
  BY DEF Tell!DeleteWrite, Tell!Change, Tell!Doing
<1>2. PICK m \in Tell!Saved : m = todo[r].msg
  BY <1>1, BusyIs DEF TodoOK, EditOK
<1>3. /\ content' \in [Tell!Messages -> Requests \cup {None}]
      /\ \A k \in Tell!Messages : k # m => content'[k] = content[k]
  BY <1>1, <1>2 DEF TellInv, Tell!TypeOK
<1>4. gone' = IF "delete" = "edit" THEN gone ELSE gone \cup {m}
  BY <1>1, <1>2
<1>. QED  BY <1>1, <1>2, <1>3, <1>4, ChangeInv

LEMMA EditReadStep == ASSUME TellInv, NEW r \in Requests, Tell!EditRead(r) PROVE TellInv'
<1>. DEFINE m == todo[r].msg
<1>0. /\ Tell!Busy(r) /\ todo[r].op = "edit" /\ todo[r].at = "written"
      /\ Unchanged /\ UNCHANGED <<connected, inside, alerted, received, slipped>>
  BY DEF Tell!EditRead, Tell!Doing, Tell!rows, Tell!sockets, Tell!events, Tell!history, Unchanged
<1>1. todo[r] \in Tell!Todos /\ TodoOK(todo[r])
  BY <1>0, BusyIs
<1>2. SavedInv' /\ OneInv' /\ ToldInv' /\ Tell!Saved' = Tell!Saved /\ Tell!ChatRows' = Tell!ChatRows
  BY <1>0, RowsKept
<1>3. \A t \in Tell!Todos : TodoOK(t) => Kept(t)
  BY <1>0, CalmKept
<1>4. CASE Tell!Ends(r)
  <2>1. /\ todo' \in [Requests -> Tell!Todos \cup {Tell!Nothing}] /\ done' \subseteq Requests
        /\ ~Tell!Busy(r)' /\ \A q \in Requests : q # r => todo'[q] = todo[q]
    BY <1>4, EndsThere
  <2>2. Tell!TypeOK'
    BY <1>0, <1>2, <2>1 DEF TellInv, Tell!TypeOK, Unchanged
  <2>3. TodoInv' /\ AloneInv'
    BY <1>3, <1>4, EndsInv
  <2>4. Tell!Announced'
    BY <1>0, <1>2, <2>1, AnnouncedKept DEF Tell!Busy
  <2>. QED  BY <1>2, <2>2, <2>3, <2>4 DEF TellInv
<1>5. CASE /\ content[m] # None /\ done' = done
           /\ todo' = [todo EXCEPT ![r].at = "answered", ![r].seen = content[m]]
  <2>0. m \in Tell!Saved /\ m \in Tell!Messages /\ content[m] \in Requests
    <3>1. m \in Tell!Saved
      BY <1>0, <1>1 DEF TodoOK, EditOK
    <3>. QED  BY <1>5, <3>1 DEF Tell!Saved, TellInv, Tell!TypeOK
  <2>1. PICK c \in Requests : c = content[m]
    BY <2>0
  <2>2. PICK t : t = [todo[r] EXCEPT !.at = "answered", !.seen = c]
    OBVIOUS
  <2>3. /\ t \in Tell!Todos /\ t.op = "edit" /\ t.at = "answered" /\ t.msg = m /\ t.seen = c
        /\ t.clean = todo[r].clean
    BY <1>0, <1>1, <2>2 DEF Tell!Todos
  <2>4. todo' = [todo EXCEPT ![r] = t]
    BY <1>5, <2>1, <2>2 DEF TellInv, Tell!TypeOK
  <2>5. /\ todo' \in [Requests -> Tell!Todos \cup {Tell!Nothing}] /\ todo'[r] = t /\ Tell!Busy(r)'
        /\ \A q \in Requests : q # r => todo'[q] = todo[q]
    BY <2>3, <2>4, TodoIs DEF TellInv, Tell!TypeOK, Tell!Busy
  <2>6. Tell!TypeOK'
    BY <1>0, <1>2, <1>5, <2>5 DEF TellInv, Tell!TypeOK, Unchanged
  <2>7. TodoInv'
    <3>. SUFFICES ASSUME NEW q \in Requests, Tell!Busy(q)' PROVE TodoOK(todo[q])'
      BY DEF TodoInv
    <3>1. CASE q = r
      <4>1. Tell!Text(m) \in off /\ (todo[r].clean => m \notin gone)
        BY <1>0, <1>1 DEF TodoOK, EditOK
      <4>2. EditOK(todo[r])'
        BY <1>0, <1>2, <2>0, <2>1, <2>3, <2>5, <4>1 DEF EditOK, Unchanged, Tell!Text
      <4>. QED  BY <2>3, <2>5, <3>1, <4>2 DEF TodoOK, PathOK, SendOK, OpenOK, ReactOK
    <3>2. CASE q # r
      BY <1>3, <2>5, <3>2, StillOK
    <3>. QED  BY <3>1, <3>2
  <2>8. AloneInv'
    BY <1>0, <2>3, <2>5, AloneKept DEF Changes, Tell!Busy, Tell!Subject, TellInv, Tell!Text
  <2>9. Tell!Announced'
    BY <1>0, <1>2, <2>5, AnnouncedKept DEF Tell!Busy
  <2>. QED  BY <1>2, <2>6, <2>7, <2>8, <2>9 DEF TellInv
<1>. QED  BY <1>4, <1>5 DEF Tell!EditRead

LEMMA ChangeEmitStep == ASSUME TellInv, NEW r \in Requests, Tell!ChangeEmit(r) PROVE TellInv'
<1>. DEFINE m == todo[r].msg
            What == IF todo[r].op = "edit" THEN todo[r].seen ELSE "deleted"
<1>0. /\ Tell!Busy(r)
      /\ \/ todo[r].op = "edit" /\ todo[r].at = "answered"
         \/ todo[r].op = "delete" /\ todo[r].at = "written"
      /\ told' = [told EXCEPT ![m] = What]
      /\ off' = IF todo[r].clean THEN off \ {Tell!Text(m)} ELSE off
      /\ UNCHANGED <<opener, author, content, gone, react, connected, inside, toldReact, alerted, received,
                     twice, slipped>>
  BY DEF Tell!ChangeEmit, Tell!Doing, Tell!rows, Tell!sockets
<1>1. todo[r] \in Tell!Todos /\ TodoOK(todo[r])
  BY <1>0, BusyIs
<1>2. m \in Tell!Saved /\ m \in Tell!Messages /\ Tell!Text(m) \in off /\ What \in Requests \cup {"deleted"}
  BY <1>0, <1>1 DEF TodoOK, EditOK, Tell!Saved
<1>3. Tell!Ends(r)
  BY DEF Tell!ChangeEmit
<1>4. /\ todo' \in [Requests -> Tell!Todos \cup {Tell!Nothing}] /\ done' \subseteq Requests
      /\ ~Tell!Busy(r)' /\ \A q \in Requests : q # r => todo'[q] = todo[q]
  BY <1>3, EndsThere
<1>5. /\ Tell!Saved' = Tell!Saved /\ Tell!ChatRows' = Tell!ChatRows
      /\ Tell!StoredReactions' = Tell!StoredReactions
      /\ \A v : Tell!SocketsOf(v)' = Tell!SocketsOf(v)
  BY <1>0 DEF Tell!Saved, Tell!ChatRows, Tell!StoredReactions, Tell!SocketsOf
<1>6. todo[r].clean => What = IF m \in gone THEN "deleted" ELSE content[m]
  BY <1>0, <1>1 DEF TodoOK, EditOK
<1>7. Tell!Subject(todo[r]) = Tell!Text(m) /\ Changes(r)
  BY <1>0 DEF Tell!Subject, Changes
<1>. HIDE DEF m, What
<1>8. told' \in [Tell!Messages -> Requests \cup {"deleted", None}] /\ told'[m] = What
      /\ \A k \in Tell!Messages : k # m => told'[k] = told[k]
  BY <1>0, <1>2 DEF TellInv, Tell!TypeOK
<1>9. Tell!TypeOK'
  <2>1. off' \subseteq Tell!Messages \X (Tell!Users \cup {None})
    BY <1>0 DEF TellInv, Tell!TypeOK
  <2>. QED  BY <1>0, <1>4, <1>5, <1>8, <2>1 DEF TellInv, Tell!TypeOK
<1>10. \A q \in Requests : \A t \in Tell!Todos : q # r /\ Tell!Busy(q) /\ t = todo[q] /\ TodoOK(t) => Kept(t)
  <2>. SUFFICES ASSUME NEW q \in Requests, NEW t \in Tell!Todos, q # r, Tell!Busy(q), t = todo[q], TodoOK(t)
                PROVE  Kept(t)
    OBVIOUS
  <2>1. t.op \in {"edit", "delete"} /\ t.at # "looked" => Tell!Text(t.msg) \in off'
    <3>. SUFFICES ASSUME t.op \in {"edit", "delete"}, t.at # "looked"
                  PROVE  Tell!Text(t.msg) \in off'
      OBVIOUS
    <3>1. Tell!Text(t.msg) \in off
      BY DEF TodoOK, EditOK
    <3>2. Changes(q) /\ Tell!Subject(todo[q]) = Tell!Text(t.msg)
      BY DEF Changes, Tell!Subject
    <3>3. Tell!Text(t.msg) = Tell!Text(m) => ~todo[r].clean
      BY <1>7, <3>2, AloneIs
    <3>. QED  BY <1>0, <3>1, <3>3
  <2>2. t.op \in {"react", "unreact"} /\ t.at # "looked" => <<t.msg, t.user>> \in off'
    <3>1. t.op \in {"react", "unreact"} => <<t.msg, t.user>> \in Tell!Reactions
      BY DEF TodoOK, ReactOK, Tell!Saved, Tell!Reactions, Tell!Todos
    <3>. QED  BY <1>0, <3>1, NotAReaction DEF TodoOK, ReactOK
  <2>. QED  BY <1>0, <1>5, <2>1, <2>2 DEF Kept
<1>11. TodoInv' /\ AloneInv'
  BY <1>3, <1>10, EndsInv
<1>12. SavedInv' /\ OneInv'
  BY <1>0, <1>5 DEF TellInv, SavedInv, OneInv
<1>13. ToldInv'
  <2>1. ASSUME NEW k \in Tell!Saved, Tell!Text(k) \notin off'
        PROVE  told'[k] = IF k \in gone THEN "deleted" ELSE content[k]
    <3>1. CASE k = m
      BY <1>0, <1>2, <1>6, <1>8, <2>1, <3>1
    <3>2. CASE k # m
      <4>1. Tell!Text(k) \notin off /\ k \in Tell!Messages
        BY <1>0, <2>1, <3>2 DEF Tell!Text, Tell!Saved
      <4>. QED  BY <1>8, <3>2, <4>1 DEF TellInv, ToldInv
    <3>. QED  BY <3>1, <3>2
  <2>2. \A x \in Tell!Reactions : x \notin off' => x \notin off
    BY <1>0, NotAReaction
  <2>. QED  BY <1>0, <1>5, <2>1, <2>2 DEF TellInv, ToldInv
<1>14. Tell!Announced'
  BY <1>0, <1>4, <1>5, AnnouncedKept DEF Tell!Busy
<1>. QED  BY <1>9, <1>11, <1>12, <1>13, <1>14 DEF TellInv

LEMMA AbortEnds == ASSUME TellInv, NEW r \in Requests, Tell!Abort(r) PROVE TellInv'
<1>0. Tell!Busy(r) /\ Tell!Ends(r) /\ slipped' = slipped \cup ({todo[r].msg} \cap Tell!Saved)
      /\ Unchanged /\ UNCHANGED <<connected, inside, alerted, received>>
  BY DEF Tell!Abort, Tell!rows, Tell!sockets, Tell!events, Unchanged
<1>1. SavedInv' /\ OneInv' /\ ToldInv' /\ Tell!Saved' = Tell!Saved /\ Tell!ChatRows' = Tell!ChatRows
  BY <1>0, RowsKept
<1>2. \A t \in Tell!Todos : TodoOK(t) => Kept(t)
  BY <1>0, CalmKept
<1>3. /\ todo' \in [Requests -> Tell!Todos \cup {Tell!Nothing}] /\ done' \subseteq Requests
      /\ ~Tell!Busy(r)' /\ \A q \in Requests : q # r => todo'[q] = todo[q]
  BY <1>0, EndsThere
<1>4. Tell!TypeOK'
  BY <1>0, <1>1, <1>3 DEF TellInv, Tell!TypeOK, Unchanged
<1>5. TodoInv' /\ AloneInv'
  BY <1>0, <1>2, EndsInv
<1>6. Tell!Announced'
  BY <1>0, <1>1, <1>3, AnnouncedKept DEF Tell!Busy
<1>. QED  BY <1>1, <1>4, <1>5, <1>6 DEF TellInv

-----------------------------------------------------------------------------
(* Reactions. *)

LEMMA ReactLookStep == ASSUME TellInv, NEW r \in Requests, NEW u \in Tell!Users,
                              NEW m \in Tell!Messages, NEW e \in Emojis,
                              Tell!ReactLook(r, u, m, e)
                       PROVE  TellInv'
<1>. DEFINE x == <<m, u>>
<1>0. /\ m \in Tell!Saved /\ ~Tell!Busy(r)
      /\ Unchanged /\ UNCHANGED <<connected, inside, alerted, received, slipped, done>>
  BY DEF Tell!ReactLook, Unchanged, Tell!rows, Tell!sockets, Tell!events, Tell!history
<1>1. SavedInv' /\ OneInv' /\ ToldInv' /\ Tell!Saved' = Tell!Saved /\ Tell!ChatRows' = Tell!ChatRows
  BY <1>0, RowsKept
<1>2. PICK i : i = IF react[x] = None THEN None ELSE react[x].id
  OBVIOUS
<1>3. PICK t : t = [Tell!Overlaps(x, Tell!Fresh("react", u, m, FALSE)) EXCEPT !.seen = e, !.id = i]
  OBVIOUS
<1>4. /\ t \in Tell!Todos /\ t.op = "react" /\ t.at = "looked" /\ t.msg = m /\ t.user = u
      /\ t.seen = e /\ t.id = i /\ (t.clean <=> Tell!About(x) = {})
  <2>1. PICK f : f = Tell!Fresh("react", u, m, FALSE)
    OBVIOUS
  <2>2. m \in 0..MaxTold
    BY Proper DEF Tell!Messages
  <2>3. f \in Tell!Todos
    BY <2>1, <2>2, FreshIs
  <2>4. f.op = "react" /\ f.at = "looked" /\ f.msg = m /\ f.user = u
    BY <2>1 DEF Tell!Fresh
  <2>5. PICK b \in BOOLEAN : b = (Tell!About(x) = {})
    OBVIOUS
  <2>6. PICK g : g = [f EXCEPT !.clean = b]
    OBVIOUS
  <2>7. /\ g \in Tell!Todos /\ g.op = "react" /\ g.at = "looked" /\ g.msg = m /\ g.user = u /\ g.clean = b
    BY <2>3, <2>4, <2>6 DEF Tell!Todos
  <2>8. i \in Requests \cup {None}
    <3>1. react[x] \in [emoji: Emojis, id: Requests] \cup {None}
      BY DEF TellInv, Tell!TypeOK, Tell!Reactions
    <3>. QED  BY <1>2, <3>1
  <2>9. t = [g EXCEPT !.seen = e, !.id = i]
    BY <1>3, <2>1, <2>5, <2>6 DEF Tell!Overlaps
  <2>. QED  BY <2>5, <2>7, <2>8, <2>9 DEF Tell!Todos
<1>5. todo' = [Tell!Spoils(x) EXCEPT ![r] = t]
  BY <1>2, <1>3 DEF Tell!ReactLook
<1>6. Tell!TypeOK'
  BY <1>0, <1>1, <1>4, <1>5, StartsThere DEF TellInv, Tell!TypeOK, Unchanged
<1>7. TodoOK(t)'
  <2>1. ReactOK(t)'
    BY <1>0, <1>1, <1>2, <1>4 DEF ReactOK, Unchanged
  <2>. QED  BY <1>4, <2>1 DEF TodoOK, PathOK, SendOK, OpenOK, EditOK
<1>8. TodoInv' /\ AloneInv'
  <2>1. Tell!Subject(t) = x /\ t.op \notin {"open", "send"}
    BY <1>4 DEF Tell!Subject
  <2>2. \A q \in Requests : \A s \in Tell!Todos : q # r /\ Tell!Busy(q) /\ s.op = todo[q].op /\
                              s.at = todo[q].at /\ s.msg = todo[q].msg /\ s.user = todo[q].user /\
                              (s.clean => q \notin Tell!About(x)) => Kept(s)
    <3>. SUFFICES ASSUME NEW q \in Requests, NEW s \in Tell!Todos, q # r, Tell!Busy(q), s.op = todo[q].op,
                         s.at = todo[q].at, s.msg = todo[q].msg, s.user = todo[q].user
                  PROVE  Kept(s)
      OBVIOUS
    <3>1. TodoOK(todo[q])
      BY BusyIs
    <3>2. \A v : Tell!SocketsOf(v)' = Tell!SocketsOf(v)
      BY <1>0 DEF Tell!SocketsOf
    <3>. QED  BY <1>0, <1>1, <3>1, <3>2 DEF Kept, Unchanged, TodoOK, EditOK, ReactOK
  <2>. HIDE DEF x
  <2>. QED  BY <1>0, <1>4, <1>5, <1>7, <2>1, <2>2, StartsInv
<1>9. Tell!Announced'
  <2>. HIDE DEF x
  <2>. QED  BY <1>0, <1>1, <1>4, <1>5, StartsSends, AnnouncedKept
<1>. QED  BY <1>1, <1>6, <1>8, <1>9 DEF TellInv

LEMMA ReactEmitStep == ASSUME TellInv, NEW r \in Requests, Tell!ReactEmit(r) PROVE TellInv'
<1>. DEFINE x == <<todo[r].msg, todo[r].user>>
<1>0. /\ Tell!Busy(r) /\ todo[r].op \in {"react", "unreact"} /\ todo[r].at = "written"
      /\ toldReact' = [toldReact EXCEPT ![x] = todo[r].seen]
      /\ off' = IF todo[r].clean THEN off \ {x} ELSE off
      /\ UNCHANGED <<opener, author, content, gone, react, connected, inside, told, alerted, received,
                     twice, slipped>>
  BY DEF Tell!ReactEmit, Tell!Doing, Tell!rows, Tell!sockets
<1>1. todo[r] \in Tell!Todos /\ TodoOK(todo[r])
  BY <1>0, BusyIs
<1>2. /\ x \in Tell!Reactions /\ x \in off /\ todo[r].seen \in Emojis \cup {None}
      /\ todo[r].clean => todo[r].seen = Tell!StoredReactions[x]
  <2>1. todo[r].msg \in Tell!Messages /\ todo[r].user \in Tell!Users
    BY <1>0, <1>1 DEF TodoOK, ReactOK, Tell!Saved, Tell!Todos
  <2>2. x \in Tell!Reactions
    BY <2>1 DEF Tell!Reactions
  <2>3. x \in off /\ todo[r].seen \in Emojis \cup {None}
    BY <1>0, <1>1 DEF TodoOK, ReactOK
  <2>4. todo[r].clean => todo[r].seen = IF react[x] = None THEN None ELSE react[x].emoji
    BY <1>0, <1>1 DEF TodoOK, ReactOK
  <2>. QED  BY <2>2, <2>3, <2>4 DEF Tell!StoredReactions
<1>3. Tell!Ends(r)
  BY DEF Tell!ReactEmit
<1>4. /\ todo' \in [Requests -> Tell!Todos \cup {Tell!Nothing}] /\ done' \subseteq Requests
      /\ ~Tell!Busy(r)' /\ \A q \in Requests : q # r => todo'[q] = todo[q]
  BY <1>3, EndsThere
<1>5. /\ Tell!Saved' = Tell!Saved /\ Tell!ChatRows' = Tell!ChatRows
      /\ Tell!StoredReactions' = Tell!StoredReactions
      /\ \A v : Tell!SocketsOf(v)' = Tell!SocketsOf(v)
  BY <1>0 DEF Tell!Saved, Tell!ChatRows, Tell!StoredReactions, Tell!SocketsOf
<1>6. Tell!Subject(todo[r]) = x /\ Changes(r)
  BY <1>0 DEF Tell!Subject, Changes
<1>. HIDE DEF x
<1>7. /\ toldReact' \in [Tell!Reactions -> Emojis \cup {None}] /\ toldReact'[x] = todo[r].seen
      /\ \A y \in Tell!Reactions : y # x => toldReact'[y] = toldReact[y]
  BY <1>0, <1>2 DEF TellInv, Tell!TypeOK
<1>8. Tell!TypeOK'
  <2>1. off' \subseteq Tell!Messages \X (Tell!Users \cup {None})
    BY <1>0 DEF TellInv, Tell!TypeOK
  <2>. QED  BY <1>0, <1>4, <1>5, <1>7, <2>1 DEF TellInv, Tell!TypeOK
<1>9. \A q \in Requests : \A t \in Tell!Todos : q # r /\ Tell!Busy(q) /\ t = todo[q] /\ TodoOK(t) => Kept(t)
  <2>. SUFFICES ASSUME NEW q \in Requests, NEW t \in Tell!Todos, q # r, Tell!Busy(q), t = todo[q], TodoOK(t)
                PROVE  Kept(t)
    OBVIOUS
  <2>1. t.op \in {"edit", "delete"} /\ t.at # "looked" => Tell!Text(t.msg) \in off'
    BY <1>0, <1>2, NotAReaction DEF TodoOK, EditOK
  <2>2. t.op \in {"react", "unreact"} /\ t.at # "looked" => <<t.msg, t.user>> \in off'
    <3>. SUFFICES ASSUME t.op \in {"react", "unreact"}, t.at # "looked"
                  PROVE  <<t.msg, t.user>> \in off'
      OBVIOUS
    <3>1. <<t.msg, t.user>> \in off
      BY DEF TodoOK, ReactOK
    <3>2. Changes(q) /\ Tell!Subject(todo[q]) = <<t.msg, t.user>>
      BY DEF Changes, Tell!Subject
    <3>3. <<t.msg, t.user>> = x => ~todo[r].clean
      BY <1>6, <3>2, AloneIs
    <3>. QED  BY <1>0, <3>1, <3>3
  <2>. QED  BY <1>0, <1>5, <2>1, <2>2 DEF Kept
<1>10. TodoInv' /\ AloneInv'
  BY <1>3, <1>9, EndsInv
<1>11. SavedInv' /\ OneInv'
  BY <1>0, <1>5 DEF TellInv, SavedInv, OneInv
<1>12. ToldInv'
  <2>1. ASSUME NEW y \in Tell!Reactions, y \notin off' PROVE toldReact'[y] = Tell!StoredReactions[y]
    <3>1. CASE y = x
      BY <1>0, <1>2, <1>7, <2>1, <3>1
    <3>2. CASE y # x
      BY <1>0, <1>7, <2>1, <3>2 DEF TellInv, ToldInv
    <3>. QED  BY <3>1, <3>2
  <2>2. \A k \in Tell!Saved : Tell!Text(k) \notin off' => Tell!Text(k) \notin off
    BY <1>0, <1>2, NotAReaction
  <2>. QED  BY <1>0, <1>5, <2>1, <2>2 DEF TellInv, ToldInv
<1>13. Tell!Announced'
  BY <1>0, <1>4, <1>5, AnnouncedKept DEF Tell!Busy
<1>. QED  BY <1>8, <1>10, <1>11, <1>12, <1>13 DEF TellInv

\* The reaction of a user to a message moves, and its events are behind.
Moved(x) ==
    /\ react' \in [Tell!Reactions -> [emoji: Emojis, id: Requests] \cup {None}]
    /\ \A y \in Tell!Reactions : y # x => react'[y] = react[y]
    /\ off' = off \cup {x}
    /\ UNCHANGED <<opener, author, content, gone, Tell!sockets, Tell!events, twice, slipped>>

LEMMA MovedRows == ASSUME TellInv, NEW x \in Tell!Reactions, Moved(x)
                   PROVE  /\ SavedInv' /\ OneInv' /\ ToldInv' /\ Tell!Saved' = Tell!Saved
                          /\ Tell!ChatRows' = Tell!ChatRows
                          /\ \A v : Tell!SocketsOf(v)' = Tell!SocketsOf(v)
                          /\ off' \subseteq Tell!Messages \X (Tell!Users \cup {None})
<1>1. /\ UNCHANGED <<opener, author, content, gone, connected, inside, told, toldReact, alerted, received,
                     twice, slipped>>
      /\ \A y \in Tell!Reactions : y # x => react'[y] = react[y]
      /\ off' = off \cup {x}
  BY DEF Moved, Tell!sockets, Tell!events
<1>2. Tell!Saved' = Tell!Saved /\ Tell!ChatRows' = Tell!ChatRows /\ \A v : Tell!SocketsOf(v)' = Tell!SocketsOf(v)
  BY <1>1 DEF Tell!Saved, Tell!ChatRows, Tell!SocketsOf
<1>3. \A y \in Tell!Reactions : y # x => Tell!StoredReactions'[y] = Tell!StoredReactions[y]
  BY <1>1 DEF Tell!StoredReactions
<1>4. off' \subseteq Tell!Messages \X (Tell!Users \cup {None})
  BY <1>1 DEF TellInv, Tell!TypeOK, Tell!Reactions
<1>5. SavedInv' /\ OneInv'
  BY <1>1, <1>2 DEF TellInv, SavedInv, OneInv
<1>6. ToldInv'
  <2>1. \A y \in Tell!Reactions : y \notin off' => toldReact[y] = Tell!StoredReactions'[y]
    BY <1>1, <1>3 DEF TellInv, ToldInv
  <2>. QED  BY <1>1, <1>2, <2>1 DEF TellInv, ToldInv
<1>. QED  BY <1>2, <1>4, <1>5, <1>6

LEMMA ReactDeleteStep == ASSUME TellInv, NEW r \in Requests, NEW u \in Tell!Users,
                                NEW m \in Tell!Messages,
                                Tell!ReactDelete(r, u, m)
                         PROVE  TellInv'
<1>. DEFINE x == <<m, u>>
<1>0. /\ m \in Tell!Saved /\ ~Tell!Busy(r) /\ react' = [react EXCEPT ![x] = None]
      /\ UNCHANGED <<opener, author, content, gone, Tell!sockets, Tell!events, twice, slipped>>
      /\ UNCHANGED <<connected, inside, told, toldReact, alerted, received>>
  BY DEF Tell!ReactDelete, Tell!sockets, Tell!events
<1>1. x \in Tell!Reactions
  BY DEF Tell!Reactions
<1>2. CASE react[x] = None /\ done' = done \cup {r} /\ todo' = Tell!Spoils(x) /\ UNCHANGED off
  <2>1. react' = react
    BY <1>0, <1>1, <1>2 DEF TellInv, Tell!TypeOK
  <2>2. Unchanged
    BY <1>0, <1>2, <2>1 DEF Unchanged
  <2>. HIDE DEF x
  <2>3. SavedInv' /\ OneInv' /\ ToldInv' /\ Tell!Saved' = Tell!Saved /\ Tell!ChatRows' = Tell!ChatRows
    BY <2>2, RowsKept
  <2>4. /\ todo' \in [Requests -> Tell!Todos \cup {Tell!Nothing}]
        /\ \A q \in Requests : Same(q) /\ (Tell!Busy(q)' <=> Tell!Busy(q))
    <3>1. todo' \in [Requests -> Tell!Todos \cup {Tell!Nothing}]
      <4>1. \A q \in Requests : Tell!Spoils(x)[q] \in Tell!Todos \cup {Tell!Nothing}
        BY SpoilsIs
      <4>. QED  BY <1>2, <4>1 DEF Tell!Spoils
    <3>2. \A q \in Requests : Same(q) /\ (Tell!Busy(q)' <=> Tell!Busy(q))
      BY <1>2, SpoilsIs, BusyIs DEF Same, Tell!Busy
    <3>. QED  BY <3>1, <3>2
  <2>5. Tell!TypeOK'
    <3>1. done' \subseteq Requests
      BY <1>2 DEF TellInv, Tell!TypeOK
    <3>. QED  BY <1>0, <2>2, <2>3, <2>4, <3>1 DEF TellInv, Tell!TypeOK, Unchanged
  <2>6. TodoInv'
    <3>. SUFFICES ASSUME NEW q \in Requests, Tell!Busy(q)' PROVE TodoOK(todo[q])'
      BY DEF TodoInv
    <3>1. \A s \in Tell!Todos : Tell!Busy(q) /\ s.op = todo[q].op /\ s.at = todo[q].at /\ s.msg = todo[q].msg /\
                            s.user = todo[q].user /\ (todo'[q] = s \/ ~s.clean) => Kept(s)
      <4>. SUFFICES ASSUME NEW s \in Tell!Todos, Tell!Busy(q), s.op = todo[q].op, s.at = todo[q].at,
                           s.msg = todo[q].msg, s.user = todo[q].user
                    PROVE  Kept(s)
        OBVIOUS
      <4>1. TodoOK(todo[q])
        BY BusyIs
      <4>2. \A v : Tell!SocketsOf(v)' = Tell!SocketsOf(v)
        BY <1>0 DEF Tell!SocketsOf
      <4>. QED  BY <1>0, <2>2, <2>3, <4>1, <4>2 DEF Kept, Unchanged, TodoOK, EditOK, ReactOK
    <3>. QED  BY <2>4, <3>1, SameOK
  <2>7. \A q \in Requests : Tell!Busy(q) => todo'[q].op = todo[q].op /\ todo'[q].msg = todo[q].msg
                                   /\ todo'[q].user = todo[q].user /\ (todo'[q].clean => todo[q].clean)
    BY <1>2, SpoilsIs
  <2>8. AloneInv'
    BY <2>4, <2>7, AloneKept DEF Changes, Tell!Subject, TellInv, Tell!Text
  <2>9. Tell!Announced'
    BY <1>0, <2>3, <2>4, <2>7, AnnouncedKept
  <2>. QED  BY <2>3, <2>5, <2>6, <2>8, <2>9 DEF TellInv
<1>3. CASE /\ off' = off \cup {x} /\ done' = done
           /\ todo' = [Tell!Spoils(x) EXCEPT ![r] =
                    [Tell!Overlaps(x, Tell!Fresh("unreact", u, m, FALSE)) EXCEPT !.at = "written"]]
  <2>1. Moved(x)
    BY <1>0, <1>1, <1>3 DEF Moved, TellInv, Tell!TypeOK
  <2>2. /\ SavedInv' /\ OneInv' /\ ToldInv' /\ Tell!Saved' = Tell!Saved /\ Tell!ChatRows' = Tell!ChatRows
        /\ \A v : Tell!SocketsOf(v)' = Tell!SocketsOf(v)
        /\ off' \subseteq Tell!Messages \X (Tell!Users \cup {None})
    BY <1>1, <2>1, MovedRows
  <2>3. PICK t : t = [Tell!Overlaps(x, Tell!Fresh("unreact", u, m, FALSE)) EXCEPT !.at = "written"]
    OBVIOUS
  <2>4. /\ t \in Tell!Todos /\ t.op = "unreact" /\ t.at = "written" /\ t.msg = m /\ t.user = u
        /\ t.seen = None /\ (t.clean <=> Tell!About(x) = {})
    <3>1. PICK f : f = Tell!Fresh("unreact", u, m, FALSE)
      OBVIOUS
    <3>2. m \in 0..MaxTold
      BY Proper DEF Tell!Messages
    <3>3. f \in Tell!Todos
      BY <3>1, <3>2, FreshIs
    <3>4. f.op = "unreact" /\ f.msg = m /\ f.user = u /\ f.seen = None
      BY <3>1 DEF Tell!Fresh
    <3>5. PICK b \in BOOLEAN : b = (Tell!About(x) = {})
      OBVIOUS
    <3>6. PICK g : g = [f EXCEPT !.clean = b]
      OBVIOUS
    <3>7. g \in Tell!Todos /\ g.op = "unreact" /\ g.msg = m /\ g.user = u /\ g.seen = None /\ g.clean = b
      BY <3>3, <3>4, <3>6 DEF Tell!Todos
    <3>8. t = [g EXCEPT !.at = "written"]
      BY <2>3, <3>1, <3>5, <3>6 DEF Tell!Overlaps
    <3>. QED  BY <3>5, <3>7, <3>8 DEF Tell!Todos
  <2>5. todo' = [Tell!Spoils(x) EXCEPT ![r] = t]
    BY <1>3, <2>3
  <2>6. react'[x] = None
    BY <1>0, <1>1 DEF TellInv, Tell!TypeOK
  <2>7. TodoOK(t)'
    <3>1. ReactOK(t)'
      BY <1>0, <1>3, <2>2, <2>4, <2>6 DEF ReactOK
    <3>. QED  BY <2>4, <3>1 DEF TodoOK, PathOK, SendOK, OpenOK, EditOK
  <2>8. Tell!Subject(t) = x /\ t.op \notin {"open", "send"}
    BY <2>4 DEF Tell!Subject
  <2>9. \A q \in Requests : \A s \in Tell!Todos : q # r /\ Tell!Busy(q) /\ s.op = todo[q].op /\
                              s.at = todo[q].at /\ s.msg = todo[q].msg /\ s.user = todo[q].user /\
                              (s.clean => q \notin Tell!About(x)) => Kept(s)
    <3>. SUFFICES ASSUME NEW q \in Requests, NEW s \in Tell!Todos, q # r, Tell!Busy(q), s.op = todo[q].op,
                         s.at = todo[q].at, s.msg = todo[q].msg, s.user = todo[q].user,
                         s.clean => q \notin Tell!About(x)
                  PROVE  Kept(s)
      OBVIOUS
    <3>1. TodoOK(todo[q])
      BY BusyIs
    <3>2. s.op \in {"react", "unreact"} /\ s.clean => react'[<<s.msg, s.user>>] = react[<<s.msg, s.user>>]
      <4>. SUFFICES ASSUME s.op \in {"react", "unreact"}, s.clean
                    PROVE  react'[<<s.msg, s.user>>] = react[<<s.msg, s.user>>]
        OBVIOUS
      <4>1. <<s.msg, s.user>> # x
        BY DEF Tell!About, Tell!Subject
      <4>2. <<s.msg, s.user>> \in Tell!Reactions
        BY <3>1 DEF TodoOK, ReactOK, Tell!Saved, Tell!Reactions, Tell!Todos
      <4>. QED  BY <2>1, <4>1, <4>2 DEF Moved
    <3>. QED  BY <1>0, <1>3, <2>2, <3>1, <3>2 DEF Kept, TodoOK, EditOK, ReactOK
  <2>. HIDE DEF x
  <2>10. Tell!TypeOK'
    <3>1. todo' \in [Requests -> Tell!Todos \cup {Tell!Nothing}]
      BY <1>0, <2>4, <2>5, StartsThere
    <3>. QED  BY <1>0, <1>3, <2>1, <2>2, <3>1 DEF TellInv, Tell!TypeOK, Moved
  <2>11. TodoInv' /\ AloneInv'
    BY <1>0, <2>4, <2>5, <2>7, <2>8, <2>9, StartsInv
  <2>12. Tell!Announced'
    BY <1>0, <2>2, <2>4, <2>5, StartsSends, AnnouncedKept
  <2>. QED  BY <2>2, <2>10, <2>11, <2>12 DEF TellInv
<1>. QED  BY <1>2, <1>3 DEF Tell!ReactDelete

LEMMA ReactSaveStep == ASSUME TellInv, NEW r \in Requests, Tell!ReactSave(r) PROVE TellInv'
<1>. DEFINE x == <<todo[r].msg, todo[r].user>>
            id == todo[r].id
            seen == todo[r].seen
            Puts(i) == react' = [react EXCEPT ![x] = [emoji |-> seen, id |-> i]]
<1>0. /\ Tell!Busy(r) /\ todo[r].op = "react" /\ todo[r].at = "looked" /\ off' = off \cup {x}
      /\ UNCHANGED <<opener, author, content, gone, Tell!sockets, Tell!events, twice, slipped>>
      /\ UNCHANGED <<connected, inside, told, toldReact, alerted, received>>
  BY DEF Tell!ReactSave, Tell!Doing, Tell!sockets, Tell!events
<1>1. todo[r] \in Tell!Todos /\ TodoOK(todo[r])
  BY <1>0, BusyIs
<1>2. /\ todo[r].msg \in Tell!Saved /\ x \in Tell!Reactions /\ seen \in Emojis
      /\ id \in Requests \cup {None}
      /\ todo[r].clean => id = IF react[x] = None THEN None ELSE react[x].id
  <2>1. todo[r].msg \in Tell!Saved /\ todo[r].msg \in Tell!Messages /\ todo[r].user \in Tell!Users /\ id \in Requests \cup {None}
    BY <1>0, <1>1 DEF TodoOK, ReactOK, Tell!Saved, Tell!Todos
  <2>2. x \in Tell!Reactions
    BY <2>1 DEF Tell!Reactions
  <2>3. seen \in Emojis
    BY <1>0, <1>1 DEF TodoOK, ReactOK
  <2>4. todo[r].clean => id = IF react[x] = None THEN None ELSE react[x].id
    BY <1>0, <1>1 DEF TodoOK, ReactOK
  <2>. QED  BY <2>1, <2>2, <2>3, <2>4
<1>3. \/ Tell!Goes(r, "written") /\ \E i \in Requests : Puts(i)
      \/ Tell!Goes(r, "written") /\ UNCHANGED react /\ ~todo[r].clean
      \/ Tell!Ends(r) /\ UNCHANGED react
  <2>1. \/ id = None /\ react[x] = None /\ Puts(r) /\ Tell!Goes(r, "written")
        \/ id # None /\ (react[x] = None \/ react[x].id = id) /\ Puts(id) /\ Tell!Goes(r, "written")
        \/ id # None /\ (react[x] = None \/ react[x].id # id) /\ UNCHANGED react /\ Tell!Goes(r, "written")
        \/ react[x] # None /\ react[x].id # id /\ UNCHANGED react /\ Tell!Ends(r)
    BY DEF Tell!ReactSave
  <2>. HIDE DEF x, id, Puts
  <2>2. CASE id = None /\ react[x] = None /\ Puts(r) /\ Tell!Goes(r, "written")
    BY <2>2
  <2>3. CASE id # None /\ (react[x] = None \/ react[x].id = id) /\ Puts(id) /\ Tell!Goes(r, "written")
    BY <1>2, <2>3
  <2>4. CASE id # None /\ (react[x] = None \/ react[x].id # id) /\ UNCHANGED react /\ Tell!Goes(r, "written")
    BY <1>2, <2>4
  <2>5. CASE react[x] # None /\ react[x].id # id /\ UNCHANGED react /\ Tell!Ends(r)
    BY <2>5
  <2>. QED  BY <2>1, <2>2, <2>3, <2>4, <2>5
<1>4. Tell!Subject(todo[r]) = x /\ Changes(r)
  BY <1>0 DEF Tell!Subject, Changes
<1>. HIDE DEF x, id, seen
<1>5. \A i \in Requests : Puts(i) => /\ react' \in [Tell!Reactions -> [emoji: Emojis, id: Requests] \cup {None}]
                                 /\ react'[x] # None /\ react'[x].emoji = seen
                                 /\ \A y \in Tell!Reactions : y # x => react'[y] = react[y]
  <2>. SUFFICES ASSUME NEW i \in Requests, Puts(i)
                PROVE  /\ react' \in [Tell!Reactions -> [emoji: Emojis, id: Requests] \cup {None}]
                       /\ react'[x] # None /\ react'[x].emoji = seen
                       /\ \A y \in Tell!Reactions : y # x => react'[y] = react[y]
    OBVIOUS
  <2>1. PICK e : e = [emoji |-> seen, id |-> i]
    OBVIOUS
  <2>2. e \in [emoji: Emojis, id: Requests] /\ e.emoji = seen
    BY <1>2, <2>1
  <2>3. e # None
    BY <2>2, Proper
  <2>4. react' = [react EXCEPT ![x] = e]
    BY <2>1
  <2>. QED  BY <1>2, <2>2, <2>3, <2>4 DEF TellInv, Tell!TypeOK
<1>6. Moved(x)
  <2>1. UNCHANGED react => /\ react' \in [Tell!Reactions -> [emoji: Emojis, id: Requests] \cup {None}]
                           /\ \A y \in Tell!Reactions : y # x => react'[y] = react[y]
    BY DEF TellInv, Tell!TypeOK
  <2>2. /\ react' \in [Tell!Reactions -> [emoji: Emojis, id: Requests] \cup {None}]
        /\ \A y \in Tell!Reactions : y # x => react'[y] = react[y]
    BY <1>3, <1>5, <2>1
  <2>. QED  BY <1>0, <2>2 DEF Moved
<1>7. /\ SavedInv' /\ OneInv' /\ ToldInv' /\ Tell!Saved' = Tell!Saved
      /\ Tell!ChatRows' = Tell!ChatRows
      /\ \A v : Tell!SocketsOf(v)' = Tell!SocketsOf(v)
      /\ off' \subseteq Tell!Messages \X (Tell!Users \cup {None})
  BY <1>2, <1>6, MovedRows
<1>8. \A q \in Requests : \A t \in Tell!Todos : q # r /\ Tell!Busy(q) /\ t = todo[q] /\ TodoOK(t) => Kept(t)
  <2>. SUFFICES ASSUME NEW q \in Requests, NEW t \in Tell!Todos, q # r, Tell!Busy(q), t = todo[q], TodoOK(t)
                PROVE  Kept(t)
    OBVIOUS
  <2>1. t.op \in {"react", "unreact"} /\ t.clean => react'[<<t.msg, t.user>>] = react[<<t.msg, t.user>>]
    <3>. SUFFICES ASSUME t.op \in {"react", "unreact"}, t.clean
                  PROVE  react'[<<t.msg, t.user>>] = react[<<t.msg, t.user>>]
      OBVIOUS
    <3>1. Changes(q) /\ Tell!Subject(todo[q]) = <<t.msg, t.user>>
      BY DEF Changes, Tell!Subject
    <3>2. <<t.msg, t.user>> # x
      BY <1>4, <3>1, AloneIs
    <3>3. <<t.msg, t.user>> \in Tell!Reactions
      BY DEF TodoOK, ReactOK, Tell!Saved, Tell!Reactions, Tell!Todos
    <3>. QED  BY <1>6, <3>2, <3>3 DEF Moved
  <2>. QED  BY <1>0, <1>7, <2>1 DEF Kept, TodoOK, EditOK, ReactOK
<1>9. CASE Tell!Ends(r)
  <2>1. /\ todo' \in [Requests -> Tell!Todos \cup {Tell!Nothing}] /\ done' \subseteq Requests
        /\ ~Tell!Busy(r)' /\ \A q \in Requests : q # r => todo'[q] = todo[q]
    BY <1>9, EndsThere
  <2>2. Tell!TypeOK'
    BY <1>0, <1>6, <1>7, <2>1 DEF TellInv, Tell!TypeOK, Moved
  <2>3. TodoInv' /\ AloneInv'
    BY <1>8, <1>9, EndsInv
  <2>4. Tell!Announced'
    BY <1>0, <1>7, <2>1, AnnouncedKept DEF Tell!Busy
  <2>. QED  BY <1>7, <2>2, <2>3, <2>4 DEF TellInv
<1>10. CASE Tell!Goes(r, "written") /\ (todo[r].clean => react'[x] # None /\ react'[x].emoji = seen)
  <2>1. /\ todo' \in [Requests -> Tell!Todos \cup {Tell!Nothing}] /\ done' = done /\ Tell!Busy(r)'
        /\ \A q \in Requests : q # r => todo'[q] = todo[q]
        /\ todo'[r].at = "written" /\ todo'[r].op = "react" /\ todo'[r].msg = todo[r].msg
        /\ todo'[r].user = todo[r].user /\ todo'[r].clean = todo[r].clean /\ todo'[r].seen = seen
    BY <1>0, <1>10, GoesIs DEF seen
  <2>2. Tell!TypeOK'
    BY <1>0, <1>6, <1>7, <2>1 DEF TellInv, Tell!TypeOK, Moved
  <2>3. TodoOK(todo[r])'
    <3>1. ReactOK(todo[r])'
      BY <1>0, <1>2, <1>7, <1>10, <2>1 DEF ReactOK, x
    <3>. QED  BY <2>1, <3>1 DEF TodoOK, PathOK, SendOK, OpenOK, EditOK
  <2>4. TodoInv' /\ AloneInv'
    BY <1>0, <1>8, <1>10, <2>3, GoesInv
  <2>5. Tell!Announced'
    BY <1>0, <1>7, <2>1, AnnouncedKept DEF Tell!Busy
  <2>. QED  BY <1>7, <2>2, <2>4, <2>5 DEF TellInv
<1>. QED  BY <1>3, <1>5, <1>9, <1>10

-----------------------------------------------------------------------------
(* All steps, and what they establish. *)

LEMMA TellInit == Tell!Init => TellInv
<1>. SUFFICES ASSUME Tell!Init PROVE TellInv
  OBVIOUS
<1>. USE DEF Tell!Init
<1>1. Tell!Saved = {} /\ Tell!ChatRows = {}
  BY DEF Tell!Saved, Tell!ChatRows
<1>2. \A r \in Requests : ~Tell!Busy(r)
  BY DEF Tell!Busy
<1>3. Tell!TypeOK
  BY <1>1 DEF Tell!TypeOK
<1>4. SavedInv
  <2>1. Tell!Saved = 1..0 /\ 0 \in 0..MaxTold
    BY <1>1, ZeroIs
  <2>. QED  BY <2>1 DEF SavedInv
<1>5. ToldInv
  <2>1. \A x \in Tell!Reactions : Tell!StoredReactions[x] = None /\ toldReact[x] = None
    BY DEF Tell!StoredReactions
  <2>. QED  BY <1>1, <2>1 DEF ToldInv
<1>. QED  BY <1>1, <1>2, <1>3, <1>4, <1>5 DEF TellInv, TodoInv, AloneInv, Changes, OneInv,
             Tell!Announced

LEMMA TellStep == TellInv /\ [Tell!Next]_(Tell!vars) => TellInv'
<1>. SUFFICES ASSUME TellInv, [Tell!Next]_(Tell!vars) PROVE TellInv'
  OBVIOUS
<1>1. CASE Tell!SocketStep
  BY <1>1, ConnectStep, DisconnectStep, JoinOrLeaveStep DEF Tell!SocketStep
<1>2. CASE Tell!OpenStep
  BY <1>2, OpenLookStep, OpenInsertStep DEF Tell!OpenStep
<1>3. CASE Tell!SendStep
  BY <1>3, SendLookStep, SendSaveStep, SendAlertStep, SendEmitStep DEF Tell!SendStep
<1>4. CASE Tell!ChangeStep
  BY <1>4, ChangeLookStep, EditWriteStep, EditReadStep, DeleteWriteStep,
     ChangeEmitStep DEF Tell!ChangeStep
<1>5. CASE Tell!ReactStep
  BY <1>5, ReactLookStep, ReactDeleteStep, ReactSaveStep, ReactEmitStep DEF Tell!ReactStep
<1>6. CASE Tell!AbortStep
  BY <1>6, AbortEnds DEF Tell!AbortStep
<1>7. CASE UNCHANGED Tell!vars
  <2>. USE <1>7 DEF Tell!vars, Tell!rows, Tell!sockets, Tell!events, Tell!history
  <2>1. Unchanged /\ UNCHANGED <<connected, inside, alerted, received, todo, done, slipped>>
    BY DEF Unchanged
  <2>2. SavedInv' /\ OneInv' /\ ToldInv' /\ Tell!Saved' = Tell!Saved /\ Tell!ChatRows' = Tell!ChatRows
    BY <2>1, RowsKept
  <2>3. Tell!TypeOK'
    BY <2>1, <2>2 DEF TellInv, Tell!TypeOK, Unchanged
  <2>4. \A t \in Tell!Todos : TodoOK(t) => Kept(t)
    BY <2>1, CalmKept
  <2>5. TodoInv'
    BY <2>1, <2>4, StillOK DEF TodoInv
  <2>6. AloneInv'
    BY <2>1, AloneKept DEF Changes, Tell!Busy, Tell!Subject, TellInv, Tell!Text
  <2>7. Tell!Announced'
    BY <2>1, <2>2, AnnouncedKept DEF Tell!Busy
  <2>. QED  BY <2>2, <2>3, <2>5, <2>6, <2>7 DEF TellInv
<1>. QED  BY <1>1, <1>2, <1>3, <1>4, <1>5, <1>6, <1>7 DEF Tell!Next

LEMMA TellInductive == Tell!Spec => []TellInv
<1>. QED  BY TellInit, TellStep, PTL DEF Tell!Spec

\* Two users have one chat, unless both opened it at once (createChat).
THEOREM OneChatHolds == Tell!Spec => []OneChat
<1>1. TellInv => OneChat
  <2>. SUFFICES ASSUME TellInv, ~twice PROVE Cardinality(Tell!ChatRows) <= 1
    BY SameCount DEF OneChat, Tell!OneChat
  <2>1. CASE Tell!ChatRows = {}
    <3>1. Cardinality(Tell!ChatRows) = 0
      BY <2>1, FS_EmptySet
    <3>. QED  BY <3>1
  <2>2. CASE Tell!ChatRows # {}
    <3>1. PICK c : c \in Tell!ChatRows
      BY <2>2
    <3>2. Tell!ChatRows = {c}
      BY <3>1 DEF TellInv, OneInv
    <3>3. Cardinality({c}) = 1
      BY FS_Singleton
    <3>. QED  BY <3>2, <3>3
  <2>. QED  BY <2>1, <2>2
<1>. QED  BY <1>1, TellInductive, PTL

\* No sent message goes unnoticed: whoever was not in the room got a push or a
\* notification job, whatever came between the check and the event (SendMessage).
THEOREM AnnouncedHolds == Tell!Spec => []Announced
<1>1. TellInv => Announced
  BY DEF TellInv, Announced
<1>. QED  BY <1>1, TellInductive, PTL

\* The events about messages and reactions tell what the tables hold, wherever
\* changes of one thing did not overlap (MessagesGateway).
THEOREM EventsTellHolds == Tell!Spec => []EventsTell
<1>1. TellInv => EventsTell
  <2>. SUFFICES ASSUME TellInv PROVE EventsTell
    OBVIOUS
  <2>1. ASSUME NEW m \in Tell!Saved, NEW u \in Tell!Users, ({m} \X Tell!Users) \cap off = {}
        PROVE  Tell!Summary(m, u, toldReact) = Tell!Summary(m, u, Tell!StoredReactions)
    <3>1. \A w \in Tell!Users : toldReact[<<m, w>>] = Tell!StoredReactions[<<m, w>>]
      <4>. SUFFICES ASSUME NEW w \in Tell!Users
                    PROVE  toldReact[<<m, w>>] = Tell!StoredReactions[<<m, w>>]
        OBVIOUS
      <4>1. <<m, w>> \in Tell!Reactions /\ <<m, w>> \notin off
        BY <2>1 DEF Tell!Reactions, Tell!Saved
      <4>. QED  BY <4>1 DEF TellInv, ToldInv
    <3>2. \A e : {w \in Tell!Users : toldReact[<<m, w>>] = e} = {w \in Tell!Users : Tell!StoredReactions[<<m, w>>] = e}
      BY <3>1
    <3>3. toldReact[<<m, u>>] = Tell!StoredReactions[<<m, u>>]
      BY <3>1
    <3>. QED  BY <3>2, <3>3 DEF Tell!Summary
  <2>. QED  BY <2>1 DEF TellInv, ToldInv, EventsTell, Tell!EventsTell
<1>. QED  BY <1>1, TellInductive, PTL

=============================================================================
