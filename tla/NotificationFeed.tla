--------------------------- MODULE NotificationFeed ---------------------------
(***************************************************************************)
(* What the owner of a notifications document is told of it while it       *)
(* changes: NotificationsService.saveNotificationAndSend, the processors   *)
(* of the notification queue, the two gateways. A job writes the document, *)
(* reads what it will tell, asks whether the owner is online and tells the *)
(* sockets, else the device. A removal is told to the sockets, a clear to  *)
(* nobody. Bull takes a job as completed only after its handler has        *)
(* returned: when the process dies in between, the job has told, and,      *)
(* found stalled, runs and tells again. A connection joins the owner's     *)
(* room, waits for the count to be read, and is then registered, closed    *)
(* meanwhile or not: only a registered connection makes its owner count as *)
(* online (BaseGateway).                                                   *)
(*                                                                         *)
(* Abstractions. The reads and updates that change the document are one    *)
(* step, as are those of a removal: how jobs meet there is                 *)
(* NotificationInbox. All dates are within a day, nothing is sliced off. A *)
(* repost is a like, but that its removal may look elsewhere. newest_count *)
(* and the wording of a push are left out, and what becomes of a push once *)
(* it is made. A tweet of a single is the one that was written. Gateways   *)
(* and workers are one process, and a job is found stalled only when that  *)
(* process died; Tries bounds the runs of a job, be it for a failed        *)
(* attempt or because it was found stalled.                                *)
(***************************************************************************)
EXTENDS Integers, FiniteSets

CONSTANTS
    Tweets, Actors,
    Events,     \* what may happen: [type, tweet, actor]
    Jobs, Tries,
    Sockets,    \* the owner's connections, each made once
    None        \* the tweet of a follow

VARIABLES
    box,        \* the entries: [id, type, tweets, actors]
    job,        \* [op, what, at, try, id, shown, held]
    gone,       \* deleted tweets and users
    blocked,    \* by the owner
    spared,     \* history: users who have not been blocked all the time
    conn,       \* "new", in the room ("joined", then "on") or closed ("late", "ghost", "off")
    told,       \* the last that each connection was told of each entry
    heard,      \* history: how often a job has reached the sockets or pushed to the device
    repeats,    \* history: how often a job that had told was run again
    due,        \* tweets and users whose clear is queued
    hushed      \* history: entries that went without the sockets being told

people == <<gone, blocked, spared>>
signals == <<told, heard, repeats>>
vars == <<box, job, people, conn, signals, due, hushed>>

-----------------------------------------------------------------------------
Singles == {"REPLY", "QUOTE", "MENTION"}
Ids == Jobs \X (1..Tries)
Unqueued == [op |-> "add", what |-> None, at |-> "new", try |-> 1, id |-> None, shown |-> {}, held |-> FALSE]

Untold == [i \in Ids |-> "nothing"]
Listed(S) == {e.id : e \in S}
Goes(j, at) == job' = [job EXCEPT ![j].at = at]
Queue(j, op, v) ==
    job[j] = Unqueued /\ job' = [job EXCEPT ![j] = [Unqueued EXCEPT !.op = op, !.what = v, !.at = "queued"]]
At(j, op, at) == job[j].op = op /\ job[j].at = at

\* Entries leave the document, and only one may be told (None: none is).  One that
\* a job is about to tell leaves before it is told.
Leaves(old, new, id) ==
    hushed' = hushed \cup ((Listed(old) \ Listed(new)) \ {id})
                     \cup {job[j].id : j \in {i \in Jobs : job[i].op = "add" /\ job[i].at \in {"fetch", "send"}
                                                          /\ job[i].id \notin Listed(new)}}

Init ==
    /\ box = {} /\ job = [j \in Jobs |-> Unqueued]
    /\ gone = {} /\ blocked \in SUBSET Actors /\ spared = Actors \ blocked
    /\ conn = [c \in Sockets |-> "new"] /\ told = [c \in Sockets |-> Untold]
    /\ heard = [j \in Jobs |-> 0] /\ repeats = [j \in Jobs |-> 0]
    /\ due = {} /\ hushed = {}

-----------------------------------------------------------------------------
(* What happens meanwhile *)

Announce(j, v) ==
    /\ {v.tweet, v.actor} \cap gone = {}
    /\ ~\E i \in Jobs : job[i] # Unqueued /\ job[i].op = "add" /\ job[i].what = v
    /\ Queue(j, "add", v)
    /\ UNCHANGED <<box, people, conn, signals, due, hushed>>

Undo(j, v) ==
    /\ \E i \in Jobs : job[i] # Unqueued /\ job[i].op = "add" /\ job[i].what = v
    /\ ~\E i \in Jobs : job[i] # Unqueued /\ job[i].op = "remove" /\ job[i].what = v
    /\ v.type # "MENTION" /\ v.actor \notin gone
    /\ Queue(j, "remove", v)
    /\ UNCHANGED <<box, people, conn, signals, due, hushed>>

Delete(x) ==
    /\ x \notin gone /\ gone' = gone \cup {x}
    /\ UNCHANGED <<box, job, blocked, spared, conn, signals, due, hushed>>

Block(u) ==
    /\ u \notin blocked /\ blocked' = blocked \cup {u}
    /\ UNCHANGED <<box, job, gone, spared, conn, signals, due, hushed>>

Unblock(u) ==
    /\ u \in blocked /\ blocked' = blocked \ {u} /\ spared' = spared \cup {u}
    /\ UNCHANGED <<box, job, gone, conn, signals, due, hushed>>

\* handleConnection awaits the unread count between the room and the registration,
\* and handleDisconnect takes out what is registered by then.
Becomes(c, to) ==
    /\ conn' = [conn EXCEPT ![c] = to]
    /\ told' = IF to \in {"joined", "on"} THEN told ELSE [told EXCEPT ![c] = Untold]
    /\ UNCHANGED <<box, job, people, heard, repeats, due, hushed>>
Connect(c) == conn[c] = "new" /\ Becomes(c, "joined")
Register(c) == \/ conn[c] = "joined" /\ Becomes(c, "on")
               \/ conn[c] = "late" /\ Becomes(c, "ghost")
Disconnect(c) == \/ conn[c] = "joined" /\ Becomes(c, "late")
                 \/ conn[c] = "on" /\ Becomes(c, "off")

InRoom == {c \in Sockets : conn[c] \in {"joined", "on"}}
IsOnline == \E c \in Sockets : conn[c] \in {"on", "ghost"}
SendToUser(id, what) == told' = [c \in Sockets |-> IF c \in InRoom THEN [told[c] EXCEPT ![id] = what] ELSE told[c]]

-----------------------------------------------------------------------------
(* An event is announced *)

\* The entries that an event is gathered in: of its tweet, else of its person; all
\* follows are one.
Joins(v) ==
    LET same == {e \in box : e.type = v.type}
        ofTweet == {e \in same : e.tweets = {v.tweet}}
    IN  IF v.type \in Singles THEN {}
        ELSE IF ofTweet # {} THEN ofTweet ELSE {e \in same : e.actors = {v.actor}}

\* The actor is gone: the processor returns.  A follow's does not look.
Skip(j) ==
    /\ At(j, "add", "queued") /\ job[j].what.type # "FOLLOW" /\ job[j].what.actor \in gone
    /\ Goes(j, "skipped")
    /\ UNCHANGED <<box, people, conn, signals, due, hushed>>

Starts(j) ==
    At(j, "add", "queued") /\ (job[j].what.type = "FOLLOW" \/ job[j].what.actor \notin gone)

Gather(j) ==
    LET v == job[j].what
        new == {[e EXCEPT !.tweets = @ \cup {v.tweet}, !.actors = @ \cup {v.actor}] : e \in Joins(v)}
    IN  /\ Starts(j) /\ \E e \in new :
            job' = [job EXCEPT ![j].at = "fetch", ![j].id = e.id, ![j].shown = e.tweets \cup e.actors]
        /\ box' = (box \ Joins(v)) \cup new
        /\ UNCHANGED <<people, conn, signals, due, hushed>>

\* A retry pushes an entry of its own.  A like is told as it came in the job.
Push(j) ==
    LET v == job[j].what
        id == <<j, job[j].try>>
    IN  /\ Starts(j) /\ Joins(v) = {}
        /\ box' = box \cup {[id |-> id, type |-> v.type, tweets |-> {v.tweet}, actors |-> {v.actor}]}
        /\ job' = [job EXCEPT ![j].at = IF v.type \in Singles THEN "fetch" ELSE "send", ![j].id = id]
        /\ UNCHANGED <<people, conn, signals, due, hushed>>

\* fetchNotificationWithData queues a clear of all it misses; a single's reads whether
\* its writer is blocked.
Fetch(j) ==
    /\ At(j, "add", "fetch")
    /\ job' = [job EXCEPT ![j].at = "send", ![j].shown = {},
                          ![j].held = job[j].what.type \in Singles /\ job[j].what.actor \in blocked \ gone]
    /\ due' = due \cup (job[j].shown \cap gone)
    /\ UNCHANGED <<box, people, conn, signals, hushed>>

\* A job that runs again from its start, or is given up.
Restarted(r) ==
    [Unqueued EXCEPT !.op = r.op, !.what = r.what,
                     !.try = IF r.try < Tries THEN r.try + 1 ELSE Tries,
                     !.at = IF r.try < Tries THEN "queued" ELSE "dead"]
Again(j) == job' = [job EXCEPT ![j] = Restarted(job[j])]

\* Who is online hears it on the sockets, which need not be there, anyone else on the
\* device: the push is made, and an error of it caught.
Reaches(j) ==
    /\ UNCHANGED repeats
    /\ IF job[j].held THEN UNCHANGED <<told, heard>>
       ELSE IF IsOnline
       THEN /\ SendToUser(job[j].id, "there")
            /\ heard' = [heard EXCEPT ![j] = IF InRoom = {} THEN @ ELSE @ + 1]
       ELSE heard' = [heard EXCEPT ![j] = @ + 1] /\ UNCHANGED told

\* Mutant of Send: an error of the device is thrown, and the job runs again.
SendUncaught(j) ==
    /\ At(j, "add", "send") /\ Reaches(j)
    /\ IF IsOnline \/ job[j].held THEN Goes(j, "told") ELSE Goes(j, "told") \/ Again(j)
    /\ UNCHANGED <<box, people, conn, due, hushed>>

\* The handler has told, and nothing that fails is left to do for this owner.
Send(j) ==
    /\ At(j, "add", "send") /\ Reaches(j)
    /\ Goes(j, "told")
    /\ UNCHANGED <<box, people, conn, due, hushed>>

-----------------------------------------------------------------------------
(* An event is undone *)

\* The update follows the entry that was found, and takes all that match it.
Pulled(v, found) ==
    LET same == {e \in box : e.type = v.type}
        one == Cardinality(found.tweets) = 1
    IN  CASE v.type \in Singles \/ (v.type # "FOLLOW" /\ one /\ Cardinality(found.actors) = 1) ->
               box \ {e \in same : v.tweet \in e.tweets /\ v.actor \in e.actors}
          [] one -> {IF e \in same /\ v.tweet \in e.tweets THEN [e EXCEPT !.actors = @ \ {v.actor}] ELSE e : e \in box}
          [] OTHER -> {IF e \in same /\ v.actor \in e.actors THEN [e EXCEPT !.tweets = @ \ {v.tweet}] ELSE e : e \in box}
Swept(S) == {e \in S : e.tweets # {} /\ e.actors # {}}

\* Mutant of Remove: what is swept is not counted as modified, so that it is not told.
RemoveQuietly(j) ==
    LET v == job[j].what
        found == {e \in box : e.type = v.type /\ v.tweet \in e.tweets /\ v.actor \in e.actors}
    IN  /\ At(j, "remove", "queued")
        /\ \/ found = {} /\ Goes(j, "done") /\ UNCHANGED <<box, hushed>>
           \/ \E e \in found :
                /\ box' = Swept(Pulled(v, e)) /\ Leaves(box, box', e.id)
                /\ IF e.type = "FOLLOW" /\ e.actors = {v.actor} THEN Goes(j, "done")
                   ELSE job' = [job EXCEPT ![j].at = "tell", ![j].id = e.id]
        /\ UNCHANGED <<people, conn, signals, due>>

Remove(j) ==
    LET v == job[j].what
        found == {e \in box : e.type = v.type /\ v.tweet \in e.tweets /\ v.actor \in e.actors}
    IN  /\ At(j, "remove", "queued")
        /\ \/ found = {} /\ Goes(j, "done") /\ UNCHANGED <<box, hushed>>
           \/ \E e \in found :
                /\ box' = Swept(Pulled(v, e)) /\ Leaves(box, box', e.id)
                /\ job' = [job EXCEPT ![j].at = "tell", ![j].id = e.id]
        /\ UNCHANGED <<people, conn, signals, due>>

\* sendNotificationOnly does not ask whether the owner is online.
Tell(j) ==
    /\ At(j, "remove", "tell") /\ Goes(j, "told")
    /\ SendToUser(job[j].id, "removed")
    /\ UNCHANGED <<box, people, conn, heard, repeats, due, hushed>>

-----------------------------------------------------------------------------
(* What is missed is cleared, and nobody is told *)

\* Of a like the tweets are missed together, and its people then not looked at; a
\* reply of somebody who is there is shown without its tweet.
Misses(e) ==
    CASE e.type \in Singles \ {"REPLY"} -> (e.tweets \cup e.actors) \cap gone
      [] e.type = "REPLY" -> IF e.actors \subseteq gone THEN e.actors \cup (e.tweets \cap gone) ELSE {}
      [] OTHER -> IF e.tweets \subseteq gone THEN e.tweets ELSE e.actors \cap gone

\* The owner looks: see NotificationList.
Look ==
    /\ \E e \in box : ~(Misses(e) \subseteq due) /\ due' = due \cup Misses(e)
    /\ UNCHANGED <<box, job, people, conn, signals, hushed>>

\* deleteNotificationsByTweetIds pulls whole entries, cleanupNotificationsByUserIds
\* the singles of a user and, of what is gathered, what is about nobody else.
Clear(x) ==
    /\ x \in due /\ due' = due \ {x}
    /\ box' = Swept({IF e.type \in Singles THEN e ELSE [e EXCEPT !.actors = @ \ {x}] :
                     e \in {f \in box : x \notin f.tweets /\ (f.type \in Singles => x \notin f.actors)}})
    /\ Leaves(box, box', None)
    /\ UNCHANGED <<job, people, conn, signals>>

-----------------------------------------------------------------------------
(* A job ends, fails, or is found without its worker *)

\* The handler has returned, and Bull takes the job as completed.
Complete(j) ==
    /\ job[j].at = "told" /\ Goes(j, "done")
    /\ UNCHANGED <<box, people, conn, signals, due, hushed>>

\* A statement fails before anything is told: the job runs again from its start.  The
\* entry that a removal had pulled is not found again.
Fail(j) ==
    /\ job[j].at \in {"fetch", "send", "tell"} /\ Again(j)
    /\ hushed' = IF job[j].at = "tell" /\ job[j].id \notin Listed(box) THEN hushed \cup {job[j].id} ELSE hushed
    /\ UNCHANGED <<box, people, conn, signals, due>>

\* One job goes through all that a tweet mentions.  It fails at one of the others, and
\* runs again for the owner as well.
Rerun(j) ==
    /\ At(j, "add", "told") /\ job[j].what.type = "MENTION" /\ Again(j)
    /\ repeats' = [repeats EXCEPT ![j] = @ + 1]
    /\ UNCHANGED <<box, people, conn, told, heard, due, hushed>>

\* The process dies: its connections are closed and the registry is gone with it, and
\* Bull runs the jobs that were under way again, those that had told included.
UnderWay == {j \in Jobs : job[j].at \in {"fetch", "send", "tell", "told"}}
Crash ==
    /\ job' = [j \in Jobs |-> IF j \in UnderWay THEN Restarted(job[j]) ELSE job[j]]
    /\ repeats' = [j \in Jobs |-> IF job[j].at = "told" THEN repeats[j] + 1 ELSE repeats[j]]
    /\ conn' = [c \in Sockets |-> IF conn[c] = "new" THEN "new" ELSE "off"]
    /\ told' = [c \in Sockets |-> Untold]
    /\ UNCHANGED <<box, people, heard, due, hushed>>

Next ==
    \/ \E j \in Jobs, v \in Events : Announce(j, v) \/ Undo(j, v)
    \/ \E x \in Tweets \cup Actors : Delete(x) \/ Clear(x)
    \/ \E u \in Actors : Block(u) \/ Unblock(u)
    \/ \E c \in Sockets : Connect(c) \/ Register(c) \/ Disconnect(c)
    \/ Look
    \/ \E j \in Jobs :
        Skip(j) \/ Gather(j) \/ Push(j) \/ Fetch(j) \/ Send(j) \/ Remove(j) \/ Tell(j)
        \/ Complete(j) \/ Fail(j) \/ Rerun(j)
    \/ Crash

Spec == Init /\ [][Next]_vars

-----------------------------------------------------------------------------
(* Properties *)

\* A connection that was last told that an entry is there is told when it is removed,
\* unless the entry went without a word (a clear, an entry that a removal took along,
\* a removal that failed half-way) or its removal overtook the news of it
\* (sendNotificationOnly).
LastWord == \A c \in Sockets, i \in Ids : told[c][i] = "there" =>
    \/ i \in Listed(box) \cup hushed
    \/ \E j \in Jobs : At(j, "remove", "tell") /\ job[j].id = i

\* However often a job fails, the owner hears of its event once, on the sockets or on
\* the device, and once more for every time that the job was run again after it had
\* told: because the process died before Bull took it as completed, or because, of a
\* mention, it failed at somebody else.  A job that has told was heard, unless it read
\* that the writer is blocked, or a connection was registered when it was already
\* closed: from then on the owner counts as online, and nothing is pushed to the
\* device.  What someone wrote who is blocked all the time and still there is never
\* heard (saveNotificationAndSend, MessagesGateway.isOnline, MentionProcessor).
HeardOnce == \A j \in Jobs :
    /\ heard[j] <= repeats[j] + 1
    /\ At(j, "add", "told") /\ heard[j] = 0 => job[j].held \/ \E c \in Sockets : conn[c] = "ghost"
    /\ job[j] # Unqueued /\ job[j].what.type \in Singles /\ job[j].what.actor \notin spared \cup gone
           => heard[j] = 0
=============================================================================
