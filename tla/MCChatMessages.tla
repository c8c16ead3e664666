---------------------------- MODULE MCChatMessages ----------------------------
(***************************************************************************)
(* A chat of two users with a socket each and four handlers: what the rows *)
(* count (ChatMessages), and what the two are told (ChatEvents), each      *)
(* explored alone.                                                         *)
(***************************************************************************)
EXTENDS Chat, TLC
CONSTANTS s1, s2, c1, c2
VARIABLE part      \* which of the two is explored

MCOwner == (s1 :> User1) @@ (s2 :> User2)

MCInit == Init /\ Tell!Init /\ part \in {"rows", "events"}
RowsStep == part = "rows" /\ Next /\ UNCHANGED <<eventVars, part>>
EventsStep == part = "events" /\ Tell!Next /\ UNCHANGED <<vars, part>>
MCSpec == MCInit /\ [][RowsStep \/ EventsStep]_<<vars, eventVars, part>>

\* Bounds: two of the handlers at a time; and of the events, one message, of the first
\* user, nobody is connected while a chat is opened, and only the recipient joins;
\* ids of chats, which mean nothing, are taken in order.
Bounds ==
    /\ Cardinality({r \in Requests : task[r] # NoTask}) <= 2
    /\ Cardinality({r \in Requests : Tell!Busy(r)}) <= 2
    /\ \A r \in Requests : Tell!Doing(r, "open", "looked") => connected = {}
    /\ author[1] # User2 /\ s1 \notin inside
    /\ opener[c2] # None => opener[c1] # None

Symmetry == Permutations(Requests)
=============================================================================
