---------------------------- MODULE ChatMessages ----------------------------
(***************************************************************************)
(* One chat between two users: the messages of MessagesService and         *)
(* ChatService, the sockets of MessagesGateway, and what the chat row      *)
(* denormalises, its last message and one unread counter per user.         *)
(*                                                                         *)
(* None of these handlers opens a transaction: every statement is its own  *)
(* action, and any statement of another handler may run between two of     *)
(* them.  A handler may also stop between two statements (Abort).          *)
(***************************************************************************)
EXTENDS Integers, FiniteSets

CONSTANTS
    User1, User2,   \* chats.user1_id and chats.user2_id
    Sockets,        \* connections
    Owner,          \* the user each connection has authenticated
    Requests,       \* handler runs: each runs one handler, once
    MaxMessages,    \* bound on the messages of the chat
    NoSocket

Users == {User1, User2}
ASSUME TwoUsers == User1 # User2
ASSUME OwnerIsUser == Owner \in [Sockets -> Users]
ASSUME FiniteRequests == IsFiniteSet(Requests)
ASSUME MessageBound == MaxMessages \in Nat

VARIABLES
    sent,       \* how many messages are saved: ids are 1..sent, by created_at
    sender,     \* messages.sender_id
    read,       \* messages whose is_read is true
    deleted,    \* messages whose is_deleted is true
    blank,      \* messages whose content is "This message was deleted"
    last,       \* chats.last_message_id, 0 for null
    unread,     \* chats.unread_count_user1 and unread_count_user2
    online,     \* userSockets
    room,       \* connected sockets in the socket.io room of the chat
    task,       \* what each running handler has in hand
    served,     \* handlers that have finished
    zeroed,     \* history: unread messages that joining took off the counter
    blurred,    \* history: users whose counter an overlap or a failure spoiled
    linked,     \* history: messages that have been the last message
    older,      \* history: the linked messages when a message was saved
    contested   \* history: messages deleted while an edit of them was under way

rows == <<sent, sender, read, deleted, blank>>
chat == <<last, unread>>
sockets == <<online, room>>
history == <<zeroed, blurred, linked, older, contested>>
vars == <<rows, chat, sockets, task, served, history>>

-----------------------------------------------------------------------------
Other(u) == IF u = User1 THEN User2 ELSE User1
Messages == 1..MaxMessages

Tasks == [op: {"send", "join", "mark", "update", "delete"},
          at: {"begun", "saved", "linked", "counted"},
          user: Users, socket: Sockets \cup {NoSocket}, msg: 0..MaxMessages,
          inRoom: BOOLEAN,    \* send: the recipient was found in the room
          seen: Nat,          \* mark: the unread messages it counted
          clean: BOOLEAN]     \* history, mark: nothing has overlapped it
NoTask == [op |-> "none"]

Running(r, op, at) == task[r] # NoTask /\ task[r].op = op /\ task[r].at = at
InRoom(u) == \E s \in room : Owner[s] = u
UnreadTo(u) == {m \in 1..sent : sender[m] = Other(u) /\ m \notin read}

\* Sends that have saved a message to u and have still to count it.
PendingTo(u) ==
    {r \in Requests : /\ task[r] # NoTask /\ task[r].op = "send"
                      /\ task[r].at \in {"saved", "linked"}
                      /\ task[r].user = Other(u) /\ ~task[r].inRoom}
PendingMessages(u) == {task[r].msg : r \in PendingTo(u)}
Marks(u) == {r \in Requests : task[r] # NoTask /\ task[r].op = "mark" /\ task[r].user = u}

\* Types; in particular only connected sockets are in the room, and is_read,
\* is_deleted and last_message_id speak of messages that are saved.
TypeOK ==
    /\ sent \in 0..MaxMessages
    /\ sender \in [Messages -> Users]
    /\ read \subseteq 1..sent /\ deleted \subseteq 1..sent /\ blank \subseteq 1..sent
    /\ last \in 0..sent
    /\ unread \in [Users -> Nat]
    /\ online \subseteq Sockets /\ room \subseteq online
    /\ task \in [Requests -> Tasks \cup {NoTask}]
    /\ served \subseteq Requests
    /\ zeroed \in [Users -> SUBSET Messages]
    /\ blurred \subseteq Users
    /\ linked \subseteq 1..sent
    /\ older \in [Messages -> SUBSET Messages]
    /\ contested \subseteq deleted

Init ==
    /\ sent = 0 /\ sender = [m \in Messages |-> User1]
    /\ read = {} /\ deleted = {} /\ blank = {}
    /\ last = 0 /\ unread = [u \in Users |-> 0]
    /\ online = {} /\ room = {}
    /\ task = [r \in Requests |-> NoTask] /\ served = {}
    /\ zeroed = [u \in Users |-> {}] /\ blurred = {}
    /\ linked = {} /\ older = [m \in Messages |-> {}]
    /\ contested = {}

Begin(r, t) ==
    /\ task[r] = NoTask /\ r \notin served
    /\ task' = [task EXCEPT ![r] = t]
    /\ UNCHANGED served

Begun(op, u) == [op |-> op, at |-> "begun", user |-> u, socket |-> NoSocket, msg |-> 0,
                 inRoom |-> FALSE, seen |-> 0, clean |-> TRUE]

Finish(r) ==
    /\ task' = [task EXCEPT ![r] = NoTask]
    /\ served' = served \cup {r}

-----------------------------------------------------------------------------
(* Connections *)

Connect(s) ==
    /\ s \notin online
    /\ online' = online \cup {s}
    /\ UNCHANGED <<rows, chat, room, task, served, history>>

\* socket.io takes the socket out of its rooms before onDisconnect runs.
Disconnect(s) ==
    /\ s \in online
    /\ online' = online \ {s}
    /\ room' = room \ {s}
    /\ UNCHANGED <<rows, chat, task, served, history>>

\* Joining first resets the counter, and leaves the messages unread ...
JoinReset(r, s) ==
    LET u == Owner[s] IN
    /\ s \in online
    /\ Begin(r, [Begun("join", u) EXCEPT !.socket = s])
    /\ unread' = [unread EXCEPT ![u] = 0]
    /\ zeroed' = [zeroed EXCEPT ![u] = UnreadTo(u) \ PendingMessages(u)]
    /\ blurred' = IF PendingTo(u) = {} THEN blurred \ {u} ELSE blurred
    /\ UNCHANGED <<rows, last, sockets, linked, older, contested>>

\* ... and then enters the room; a socket that is gone by now is in no room.
JoinRoom(r) ==
    /\ Running(r, "join", "begun")
    /\ room' = room \cup ({task[r].socket} \cap online)
    /\ Finish(r)
    /\ UNCHANGED <<rows, chat, online, history>>

LeaveChat(s) ==
    /\ s \in room
    /\ room' = room \ {s}
    /\ UNCHANGED <<rows, chat, online, task, served, history>>

-----------------------------------------------------------------------------
(* Sending: look for the recipient in the room, save, link, count *)

SendCheck(r, u) ==
    /\ \E s \in online : Owner[s] = u
    /\ Begin(r, [Begun("send", u) EXCEPT !.inRoom = InRoom(Other(u))])
    /\ UNCHANGED <<rows, chat, sockets, history>>

\* is_read is what the check found.  A mark of the recipient's that is running
\* no longer knows whether it has counted this message.
SendSave(r) ==
    LET m == sent + 1
        v == Other(task[r].user)
    IN  /\ Running(r, "send", "begun")
        /\ m \in Messages
        /\ sent' = m
        /\ sender' = [sender EXCEPT ![m] = task[r].user]
        /\ read' = IF task[r].inRoom THEN read \cup {m} ELSE read
        /\ older' = [older EXCEPT ![m] = linked]
        /\ task' = [x \in Requests |->
                        IF x = r THEN [task[r] EXCEPT !.at = "saved", !.msg = m]
                        ELSE IF x \in Marks(v) THEN [task[x] EXCEPT !.clean = FALSE]
                        ELSE task[x]]
        /\ UNCHANGED <<deleted, blank, chat, sockets, served, zeroed, blurred, linked, contested>>

\* Mutant of SendLink: only the first message is linked.
SendLinkOnce(r) ==
    /\ Running(r, "send", "saved")
    /\ last' = IF last = 0 THEN task[r].msg ELSE last
    /\ linked' = linked \cup {task[r].msg}
    /\ IF task[r].inRoom THEN Finish(r)
       ELSE task' = [task EXCEPT ![r].at = "linked"] /\ UNCHANGED served
    /\ UNCHANGED <<rows, unread, sockets, zeroed, blurred, older, contested>>

SendLink(r) ==
    /\ Running(r, "send", "saved")
    /\ last' = task[r].msg
    /\ linked' = linked \cup {task[r].msg}
    /\ IF task[r].inRoom THEN Finish(r)
       ELSE task' = [task EXCEPT ![r].at = "linked"] /\ UNCHANGED served
    /\ UNCHANGED <<rows, unread, sockets, zeroed, blurred, older, contested>>

\* Mutant of SendCount: the unread field of the sender is incremented.
SendCountSender(r) ==
    /\ Running(r, "send", "linked")
    /\ unread' = [unread EXCEPT ![task[r].user] = @ + 1]
    /\ Finish(r)
    /\ UNCHANGED <<rows, last, sockets, history>>

SendCount(r) ==
    /\ Running(r, "send", "linked")
    /\ unread' = [unread EXCEPT ![Other(task[r].user)] = @ + 1]
    /\ Finish(r)
    /\ UNCHANGED <<rows, last, sockets, history>>

-----------------------------------------------------------------------------
(* Marking as read: flag the messages, recount, store the count *)

\* With no last_read_message_id every message is flagged, as up to the newest.
MarkRead(r, u, upto) ==
    /\ upto \in {sent} \cup 1..sent
    /\ task[r] = NoTask /\ r \notin served
    /\ read' = read \cup {m \in UnreadTo(u) : m <= upto}
    /\ task' = [x \in Requests |->
                    IF x = r THEN [Begun("mark", u) EXCEPT
                                      !.clean = (PendingTo(u) = {} /\ Marks(u) = {})]
                    ELSE IF x \in Marks(u) THEN [task[x] EXCEPT !.clean = FALSE]
                    ELSE task[x]]
    /\ UNCHANGED <<sent, sender, deleted, blank, chat, sockets, served, history>>

MarkRecount(r) ==
    /\ Running(r, "mark", "begun")
    /\ task' = [task EXCEPT ![r].at = "counted", ![r].seen = Cardinality(UnreadTo(task[r].user))]
    /\ UNCHANGED <<rows, chat, sockets, served, history>>

MarkStore(r) ==
    LET u == task[r].user IN
    /\ Running(r, "mark", "counted")
    /\ unread' = [unread EXCEPT ![u] = task[r].seen]
    /\ zeroed' = [zeroed EXCEPT ![u] = {}]
    /\ blurred' = IF task[r].clean THEN blurred \ {u} ELSE blurred \cup {u}
    /\ Finish(r)
    /\ UNCHANGED <<rows, last, sockets, linked, older, contested>>

-----------------------------------------------------------------------------
(* Editing and deleting: validate that the message is there, then write it *)

\* Mutant of Validate: deleted messages too.
ValidateAny(r, op, u, m) ==
    /\ m \in 1..sent /\ sender[m] = u
    /\ Begin(r, [Begun(op, u) EXCEPT !.msg = m])
    /\ UNCHANGED <<rows, chat, sockets, history>>

Validate(r, op, u, m) ==
    /\ m \in 1..sent /\ sender[m] = u /\ m \notin deleted
    /\ Begin(r, [Begun(op, u) EXCEPT !.msg = m])
    /\ UNCHANGED <<rows, chat, sockets, history>>

UpdateWrite(r) ==
    /\ Running(r, "update", "begun")
    /\ blank' = blank \ {task[r].msg}
    /\ Finish(r)
    /\ UNCHANGED <<sent, sender, read, deleted, chat, sockets, history>>

DeleteWrite(r) ==
    /\ Running(r, "delete", "begun")
    /\ deleted' = deleted \cup {task[r].msg}
    /\ blank' = blank \cup {task[r].msg}
    /\ contested' = contested \cup {m \in {task[r].msg} :
           \E x \in Requests : Running(x, "update", "begun") /\ task[x].msg = m}
    /\ Finish(r)
    /\ UNCHANGED <<sent, sender, read, chat, sockets, zeroed, blurred, linked, older>>

\* A statement fails or the process stops: what was written stays written.
Abort(r) ==
    /\ task[r] # NoTask
    /\ blurred' = blurred \cup {u \in Users : r \in PendingTo(u) \cup Marks(u)}
    /\ Finish(r)
    /\ UNCHANGED <<rows, chat, sockets, zeroed, linked, older, contested>>

-----------------------------------------------------------------------------
SocketStep == \E s \in Sockets : Connect(s) \/ Disconnect(s) \/ LeaveChat(s)

BeginStep == \E r \in Requests :
    \/ \E s \in Sockets : JoinReset(r, s)
    \/ \E u \in Users : SendCheck(r, u)
    \/ \E u \in Users, upto \in 0..MaxMessages : MarkRead(r, u, upto)
    \/ \E u \in Users, m \in Messages, op \in {"update", "delete"} : Validate(r, op, u, m)

ResumeStep == \E r \in Requests :
    \/ JoinRoom(r)
    \/ SendSave(r)    \/ SendLink(r)  \/ SendCount(r)
    \/ MarkRecount(r) \/ MarkStore(r)
    \/ UpdateWrite(r) \/ DeleteWrite(r)
    \/ Abort(r)

Next == SocketStep \/ BeginStep \/ ResumeStep

Spec == Init /\ [][Next]_vars

-----------------------------------------------------------------------------
(* Properties *)

\* The unread counter and the increments on their way are the unread messages
\* since the user last opened the chat, however the statements of sends, joins
\* and marks interleave; a mark that no send and no other mark overlaps, or a
\* join with no send under way, repairs a counter that was spoiled before.
UnreadExact ==
    \A u \in Users \ blurred : Marks(u) = {} =>
        unread[u] + Cardinality(PendingTo(u)) = Cardinality(UnreadTo(u) \ zeroed[u])

\* Concurrent sends may link in either order, but the chat never goes back to
\* a message that had been its last before a later linked one was even saved.
LastNeverGoesBack == \A m \in linked : last \notin older[m]

\* Readers decrypt a message unless it is deleted, and show a deleted one as it
\* is (findMessagesByChatId): what is not deleted never has the plain text of a
\* deletion, and what is deleted has it, unless it was while an edit of it had
\* been validated.
TextFits == blank \subseteq deleted /\ deleted \subseteq blank \cup contested

\* The list of chats previews the latest message, and the chat shows the texts it
\* should, whatever overlaps.
MessagesSound == LastNeverGoesBack /\ TextFits
=============================================================================
