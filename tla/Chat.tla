-------------------------------- MODULE Chat --------------------------------
(***************************************************************************)
(* One chat of two users as a whole: what its rows count (ChatMessages),   *)
(* and what the two are told of it (ChatEvents).  The handlers are the     *)
(* same; neither half reads what the other writes, so that each is a       *)
(* specification of its own.                                               *)
(***************************************************************************)
EXTENDS ChatMessages

CONSTANTS
    Chats, Emojis, None,
    MaxTold     \* bound on the messages that events are about

VARIABLES opener, connected, inside, author, content, gone, react, told, toldReact,
          alerted, received, todo, done, twice, off, slipped

eventVars == <<opener, connected, inside, author, content, gone, react, told, toldReact,
               alerted, received, todo, done, twice, off, slipped>>

Tell == INSTANCE ChatEvents WITH Runs <- Requests, MaxMessages <- MaxTold

ASSUME ToldBound == MaxTold \in Nat
ASSUME NoneIsNothing ==
    None \notin Tell!Users \cup Requests \cup Emojis \cup [emoji: Emojis, id: Requests]

\* Whoever asks first, two users have one chat, unless both asked at once.
OneChat == Tell!OneChat
\* A sent message reached a socket, a device or the notifications of its recipient.
Announced == Tell!Announced
\* Who follows the events shows what the next reading of the chat would show.
EventsTell == Tell!EventsTell
=============================================================================
