----------------------------- MODULE ChatEvents -----------------------------
(***************************************************************************)
(* What the two participants of a chat are told of it: how the chat comes  *)
(* to be (ChatRepository.createChat), and the events that MessagesGateway  *)
(* emits after a message is sent, edited or deleted and after a reaction   *)
(* is added or removed.  ChatMessages has the counters and the last        *)
(* message of the same handlers.                                           *)
(*                                                                         *)
(* Every statement is an action of its own, and so is what a handler does  *)
(* when the answer of its last statement has arrived: answers of different *)
(* connections of the pool may overtake each other.                        *)
(***************************************************************************)
EXTENDS Integers, FiniteSets

CONSTANTS
    User1, User2,   \* the two users
    Sockets, Owner, \* connections, and the user each has authenticated
    Runs,           \* handler runs: each runs one handler, once
    Chats,          \* ids of rows of chats
    Emojis,
    MaxMessages,    \* bound on the messages
    None

VARIABLES
    opener,     \* chats.user1_id of the chats of the two, None: no such row
    connected,  \* userSockets
    inside,     \* sockets in the room of the chat
    author,     \* messages.sender_id, None: no such row
    content,    \* the run that wrote messages.content last
    gone,       \* messages that are is_deleted
    react,      \* message_reactions by message and user: an emoji and an id, or None
    told,       \* the last event about each message: a content, or "deleted"
    toldReact,  \* the last event about the reaction of a user to a message
    alerted,    \* messages that were pushed to a device, or got a notification job
    received,   \* messages that were emitted to a socket of the recipient
    todo,       \* what each running handler has in hand
    done,       \* handlers that have finished
    twice,      \* history: a chat was inserted by who had looked before another was
    off,        \* history: messages, and reactions, whose events are out of step
    slipped     \* history: messages whose recipient came or went during the send

rows == <<opener, author, content, gone, react>>
sockets == <<connected, inside>>
events == <<told, toldReact, alerted, received>>
history == <<twice, off, slipped>>
vars == <<rows, sockets, events, todo, done, history>>

-----------------------------------------------------------------------------
Users == {User1, User2}
Messages == 1..MaxMessages
Reactions == Messages \X Users
Partner(u) == IF u = User1 THEN User2 ELSE User1

Todos == [op: {"open", "send", "edit", "delete", "react", "unreact"},
          at: {"looked", "saved", "alerted", "written", "answered"},
          user: Users, msg: 0..MaxMessages, http: BOOLEAN, inRoom: BOOLEAN,
          seen: Emojis \cup Runs \cup {None}, id: Runs \cup {None}, clean: BOOLEAN]
Nothing == [op |-> "none"]

Busy(r) == todo[r] # Nothing
Doing(r, op, at) == Busy(r) /\ todo[r].op = op /\ todo[r].at = at
Saved == {m \in Messages : author[m] # None}
ChatRows == {c \in Chats : opener[c] # None}
SocketsOf(u) == {s \in connected : Owner[s] = u}

\* What a run is about: a message, or a reaction of its user.
Text(m) == <<m, None>>
Subject(t) == IF t.op \in {"react", "unreact"} THEN <<t.msg, t.user>> ELSE Text(t.msg)
About(x) == {r \in Runs : Busy(r) /\ todo[r].op \notin {"open", "send"} /\ Subject(todo[r]) = x}

TypeOK ==
    /\ opener \in [Chats -> Users \cup {None}]
    /\ connected \subseteq Sockets /\ inside \subseteq connected
    /\ author \in [Messages -> Users \cup {None}]
    /\ content \in [Messages -> Runs \cup {None}]
    /\ gone \subseteq Saved
    /\ react \in [Reactions -> [emoji: Emojis, id: Runs] \cup {None}]
    /\ told \in [Messages -> Runs \cup {"deleted", None}]
    /\ toldReact \in [Reactions -> Emojis \cup {None}]
    /\ alerted \subseteq Saved /\ received \subseteq Saved
    /\ todo \in [Runs -> Todos \cup {Nothing}] /\ done \subseteq Runs
    /\ twice \in BOOLEAN /\ off \subseteq Messages \X (Users \cup {None}) /\ slipped \subseteq Saved

Init ==
    /\ opener = [c \in Chats |-> None]
    /\ connected = {} /\ inside = {}
    /\ author = [m \in Messages |-> None] /\ content = [m \in Messages |-> None] /\ gone = {}
    /\ react = [x \in Reactions |-> None]
    /\ told = [m \in Messages |-> None] /\ toldReact = [x \in Reactions |-> None]
    /\ alerted = {} /\ received = {}
    /\ todo = [r \in Runs |-> Nothing] /\ done = {}
    /\ twice = FALSE /\ off = {} /\ slipped = {}

Fresh(op, u, m, http) ==
    [op |-> op, at |-> "looked", user |-> u, msg |-> m, http |-> http, inRoom |-> FALSE,
     seen |-> None, id |-> None, clean |-> TRUE]

Begin(r, t) ==
    /\ ~Busy(r) /\ r \notin done
    /\ todo' = [todo EXCEPT ![r] = t]
    /\ UNCHANGED done
Goes(r, at) == todo' = [todo EXCEPT ![r].at = at] /\ UNCHANGED done
Ends(r) ==
    /\ todo' = [todo EXCEPT ![r] = Nothing]
    /\ done' = done \cup {r}
\* A run that answers without having changed anything.
Answers(r) == ~Busy(r) /\ r \notin done /\ done' = done \cup {r} /\ UNCHANGED todo

-----------------------------------------------------------------------------
(* Connections *)

\* History: what is being sent to u may now be emitted to sockets other than
\* those of the check.
Disturbs(u) ==
    todo' = [r \in Runs |-> IF Busy(r) /\ todo[r].op = "send" /\ todo[r].user = Partner(u)
                            THEN [todo[r] EXCEPT !.clean = FALSE] ELSE todo[r]]

Connect(s) ==
    /\ s \notin connected
    /\ connected' = connected \cup {s}
    /\ UNCHANGED <<rows, inside, events, todo, done, history>>

Disconnect(s) ==
    /\ s \in connected
    /\ connected' = connected \ {s} /\ inside' = inside \ {s}
    /\ Disturbs(Owner[s])
    /\ UNCHANGED <<rows, events, done, history>>

JoinOrLeave(s) ==
    /\ s \in connected /\ ChatRows # {}
    /\ inside' = IF s \in inside THEN inside \ {s} ELSE inside \cup {s}
    /\ UNCHANGED <<rows, connected, events, todo, done, history>>

-----------------------------------------------------------------------------
(* Opening the chat *)

\* Mutant of OpenLook: only the chats that the user has opened are found.
OpenLookOwn(r, u) ==
    /\ IF \E c \in ChatRows : opener[c] = u THEN Answers(r) ELSE Begin(r, Fresh("open", u, 0, TRUE))
    /\ UNCHANGED <<rows, sockets, events, history>>

\* Whoever of the two has opened it.
OpenLook(r, u) ==
    /\ IF ChatRows # {} THEN Answers(r) ELSE Begin(r, Fresh("open", u, 0, TRUE))
    /\ UNCHANGED <<rows, sockets, events, history>>

\* No key keeps two chats of one pair apart.
OpenInsert(r, c) ==
    /\ Doing(r, "open", "looked") /\ c \notin ChatRows
    /\ opener' = [opener EXCEPT ![c] = todo[r].user]
    /\ twice' = (twice \/ ~todo[r].clean)
    /\ todo' = [x \in Runs |-> IF x = r THEN Nothing
                               ELSE IF Doing(x, "open", "looked") THEN [todo[x] EXCEPT !.clean = FALSE]
                               ELSE todo[x]]
    /\ done' = done \cup {r}
    /\ UNCHANGED <<author, content, gone, react, sockets, events, off, slipped>>

-----------------------------------------------------------------------------
(* Sending *)

\* Over a socket the recipient is looked for in the room; over HTTP it is not.
SendLook(r, u, http) ==
    /\ ChatRows # {} /\ (http \/ SocketsOf(u) # {})
    /\ Begin(r, [Fresh("send", u, 0, http) EXCEPT
                    !.inRoom = ~http /\ SocketsOf(Partner(u)) \cap inside # {}])
    /\ UNCHANGED <<rows, sockets, events, history>>

\* The message, the link to it and the count, when it is counted.
SendSave(r) ==
    LET m == Cardinality(Saved) + 1 IN
    /\ Doing(r, "send", "looked") /\ m \in Messages
    /\ author' = [author EXCEPT ![m] = todo[r].user]
    /\ content' = [content EXCEPT ![m] = r]
    /\ off' = off \cup {Text(m)}
    /\ todo' = [todo EXCEPT ![r].at = IF todo[r].inRoom THEN "alerted" ELSE "saved", ![r].msg = m]
    /\ UNCHANGED <<opener, gone, react, sockets, events, done, twice, slipped>>

\* Mutant of SendAlert: only who is offline gets something.
SendAlertOffline(r) ==
    /\ Doing(r, "send", "saved")
    /\ alerted' = IF SocketsOf(Partner(todo[r].user)) = {} THEN alerted \cup {todo[r].msg} ELSE alerted
    /\ IF todo[r].http THEN Ends(r) ELSE Goes(r, "alerted")
    /\ UNCHANGED <<rows, sockets, told, toldReact, received, history>>

\* Who is not in the room gets a push, when offline, or else a notification job.
\* The handler of an HTTP request emits nothing.
SendAlert(r) ==
    /\ Doing(r, "send", "saved")
    /\ alerted' = alerted \cup {todo[r].msg}
    /\ IF todo[r].http THEN Ends(r) ELSE Goes(r, "alerted")
    /\ UNCHANGED <<rows, sockets, told, toldReact, received, history>>

\* new_message, to what sockets there are by now.
SendEmit(r) ==
    LET m == todo[r].msg IN
    /\ Doing(r, "send", "alerted")
    /\ told' = [told EXCEPT ![m] = r]
    /\ received' = IF SocketsOf(Partner(todo[r].user)) # {} THEN received \cup {m} ELSE received
    /\ slipped' = IF todo[r].clean THEN slipped ELSE slipped \cup {m}
    /\ off' = IF content[m] = r /\ m \notin gone /\ About(Text(m)) = {} THEN off \ {Text(m)} ELSE off \cup {Text(m)}
    /\ Ends(r)
    /\ UNCHANGED <<rows, sockets, toldReact, alerted, twice>>

-----------------------------------------------------------------------------
(* Editing and deleting *)

\* History: a change that overlaps another one of its subject, or one over HTTP.
Overlaps(x, t) == [t EXCEPT !.clean = About(x) = {}]
Spoils(x) ==
    [r \in Runs |-> IF r \in About(x) THEN [todo[r] EXCEPT !.clean = FALSE] ELSE todo[r]]

ChangeLook(r, op, m, http) ==
    /\ m \in Saved \ gone
    /\ (http \/ SocketsOf(author[m]) # {})
    /\ ~Busy(r) /\ r \notin done
    /\ todo' = [Spoils(Text(m)) EXCEPT ![r] = Overlaps(Text(m), Fresh(op, author[m], m, http))]
    /\ UNCHANGED <<rows, sockets, events, done, history>>

\* An event is on its way, unless the request came over HTTP.
Change(r, op) ==
    /\ Doing(r, op, "looked")
    /\ off' = off \cup {Text(todo[r].msg)}
    /\ IF todo[r].http THEN Ends(r) ELSE Goes(r, "written")

EditWrite(r) ==
    /\ Change(r, "edit")
    /\ content' = [content EXCEPT ![todo[r].msg] = r]
    /\ UNCHANGED <<opener, author, gone, react, sockets, events, twice, slipped>>

\* The row is read again for the answer; the plain text that a deletion has
\* written cannot be decrypted, and ends the request.
EditRead(r) ==
    LET m == todo[r].msg IN
    /\ Doing(r, "edit", "written")
    /\ IF content[m] = None THEN Ends(r)
       ELSE todo' = [todo EXCEPT ![r].at = "answered", ![r].seen = content[m]] /\ UNCHANGED done
    /\ UNCHANGED <<rows, sockets, events, history>>

DeleteWrite(r) ==
    /\ Change(r, "delete")
    /\ gone' = gone \cup {todo[r].msg}
    /\ content' = [content EXCEPT ![todo[r].msg] = None]
    /\ UNCHANGED <<opener, author, react, sockets, events, twice, slipped>>

\* Mutant of ChangeEmit: after a deletion the content of the message is emitted.
ChangeEmitContent(r) ==
    LET m == todo[r].msg IN
    /\ Doing(r, "edit", "answered") \/ Doing(r, "delete", "written")
    /\ told' = [told EXCEPT ![m] = IF todo[r].op = "edit" THEN todo[r].seen ELSE content[m]]
    /\ off' = IF todo[r].clean THEN off \ {Text(m)} ELSE off
    /\ Ends(r)
    /\ UNCHANGED <<rows, sockets, toldReact, alerted, received, twice, slipped>>

\* message_updated or message_deleted, to all sockets of the two but this one.
ChangeEmit(r) ==
    LET m == todo[r].msg IN
    /\ Doing(r, "edit", "answered") \/ Doing(r, "delete", "written")
    /\ told' = [told EXCEPT ![m] = IF todo[r].op = "edit" THEN todo[r].seen ELSE "deleted"]
    /\ off' = IF todo[r].clean THEN off \ {Text(m)} ELSE off
    /\ Ends(r)
    /\ UNCHANGED <<rows, sockets, toldReact, alerted, received, twice, slipped>>

-----------------------------------------------------------------------------
(* Reactions: a user has one to a message, by a unique key *)

\* The message may be deleted.
ReactLook(r, u, m, e) ==
    LET x == <<m, u>> IN
    /\ m \in Saved /\ SocketsOf(u) # {}
    /\ ~Busy(r) /\ r \notin done
    /\ todo' = [Spoils(x) EXCEPT ![r] = [Overlaps(x, Fresh("react", u, m, FALSE)) EXCEPT
           !.seen = e, !.id = IF react[x] = None THEN None ELSE react[x].id]]
    /\ UNCHANGED <<rows, sockets, events, done, history>>

\* save inserts what has no id; what has one it looks up by the id first, and
\* inserts it again when it is gone, or updates no row when it goes just then.
ReactSave(r) ==
    LET x == <<todo[r].msg, todo[r].user>>
        id == todo[r].id
        Puts(i) == react' = [react EXCEPT ![x] = [emoji |-> todo[r].seen, id |-> i]]
    IN  /\ Doing(r, "react", "looked")
        /\ off' = off \cup {x}
        /\ \/ id = None /\ react[x] = None /\ Puts(r) /\ Goes(r, "written")
           \/ id # None /\ (react[x] = None \/ react[x].id = id) /\ Puts(id) /\ Goes(r, "written")
           \/ id # None /\ (react[x] = None \/ react[x].id # id) /\ UNCHANGED react /\ Goes(r, "written")
           \/ react[x] # None /\ react[x].id # id /\ UNCHANGED react /\ Ends(r)
        /\ UNCHANGED <<opener, author, content, gone, sockets, events, twice, slipped>>

\* Whatever emoji it has; nothing removed is an error.
ReactDelete(r, u, m) ==
    LET x == <<m, u>> IN
    /\ m \in Saved /\ SocketsOf(u) # {}
    /\ ~Busy(r) /\ r \notin done
    /\ react' = [react EXCEPT ![x] = None]
    /\ IF react[x] = None
       THEN done' = done \cup {r} /\ todo' = Spoils(x) /\ UNCHANGED off
       ELSE /\ off' = off \cup {x}
            /\ todo' = [Spoils(x) EXCEPT ![r] =
                    [Overlaps(x, Fresh("unreact", u, m, FALSE)) EXCEPT !.at = "written"]]
            /\ UNCHANGED done
    /\ UNCHANGED <<opener, author, content, gone, sockets, events, twice, slipped>>

\* reaction_added or reaction_removed, to the room.
ReactEmit(r) ==
    LET x == <<todo[r].msg, todo[r].user>> IN
    /\ Doing(r, "react", "written") \/ Doing(r, "unreact", "written")
    /\ toldReact' = [toldReact EXCEPT ![x] = todo[r].seen]
    /\ off' = IF todo[r].clean THEN off \ {x} ELSE off
    /\ Ends(r)
    /\ UNCHANGED <<rows, sockets, told, alerted, received, twice, slipped>>

\* A statement fails or the process stops: nothing more is emitted.
Abort(r) ==
    /\ Busy(r)
    /\ slipped' = slipped \cup ({todo[r].msg} \cap Saved)
    /\ Ends(r)
    /\ UNCHANGED <<rows, sockets, events, twice, off>>

-----------------------------------------------------------------------------
SocketStep == \E s \in Sockets : Connect(s) \/ Disconnect(s) \/ JoinOrLeave(s)
OpenStep == \E r \in Runs :
    (\E u \in Users : OpenLook(r, u)) \/ (\E c \in Chats : OpenInsert(r, c))
SendStep == \E r \in Runs :
    \/ \E u \in Users, http \in BOOLEAN : SendLook(r, u, http)
    \/ SendSave(r) \/ SendAlert(r) \/ SendEmit(r)
ChangeStep == \E r \in Runs :
    \/ \E op \in {"edit", "delete"}, m \in Messages, http \in BOOLEAN : ChangeLook(r, op, m, http)
    \/ EditWrite(r) \/ EditRead(r) \/ DeleteWrite(r) \/ ChangeEmit(r)
ReactStep == \E r \in Runs :
    \/ \E u \in Users, m \in Messages, e \in Emojis : ReactLook(r, u, m, e)
    \/ \E u \in Users, m \in Messages : ReactDelete(r, u, m)
    \/ ReactSave(r) \/ ReactEmit(r)
AbortStep == \E r \in Runs : Abort(r)

Next == SocketStep \/ OpenStep \/ SendStep \/ ChangeStep \/ ReactStep \/ AbortStep
Spec == Init /\ [][Next]_vars

-----------------------------------------------------------------------------
(* Properties *)

\* Whoever asks first, two users have one chat, unless both asked at once.
OneChat == Cardinality(ChatRows) <= 1 \/ twice

\* A message that is not waiting in a handler any more reached a socket of its
\* recipient, or a device, or the list of notifications, unless the recipient
\* was in the room when it was looked for and had left when it was sent.
Announced ==
    \A m \in Saved : (\A r \in Runs : ~(Busy(r) /\ todo[r].op = "send" /\ todo[r].msg = m)) =>
        m \in alerted \cup received \cup slipped

\* getMessages: the emojis of a message, how many have each and whether u has.
Summary(m, u, shown) ==
    [e \in Emojis |-> [count |-> Cardinality({w \in Users : shown[<<m, w>>] = e}),
                       mine |-> shown[<<m, u>>] = e]]
StoredReactions == [x \in Reactions |-> IF react[x] = None THEN None ELSE react[x].emoji]

\* Who follows the events shows what the next reading of the chat would show:
\* the last content of a message, or that it is deleted, and its reactions,
\* except where two changes of one thing have overlapped and none has followed,
\* or where a change came over HTTP.
EventsTell ==
    /\ \A m \in Saved : Text(m) \notin off => told[m] = IF m \in gone THEN "deleted" ELSE content[m]
    /\ \A m \in Saved, u \in Users : ({m} \X Users) \cap off = {} =>
           Summary(m, u, toldReact) = Summary(m, u, StoredReactions)
=============================================================================
