------------------------- MODULE TimelineQueueProofs -------------------------
(***************************************************************************)
(* TimelineQueue proved for any numbers of requests, jobs and tweets, any  *)
(* sizes of pages and fillings and any MaxSize that is not less than the   *)
(* first filling.                                                          *)
(*                                                                         *)
(* Typed: besides TypeOK, the list that a job is about to push is not      *)
(* empty, nor longer than the job was asked for.                           *)
(*                                                                         *)
(* ReadInv: the position, and what each request took for it, has only      *)
(* served entries or entries of answering requests before it; the page of  *)
(* a request that saves lies behind what it took.  As long as nothing was  *)
(* taken off under a reader the list only grows at its end, so this stays. *)
(*                                                                         *)
(* LongInv: a list that is too long has a job that has still to count it,  *)
(* or one that will take off at least what is too much: other jobs that    *)
(* trim meanwhile only make it shorter.                                    *)
(*                                                                         *)
(* FillInv: as long as no filling was lost, a user with interests has      *)
(* something in the list or a filling under way; and a position at the end *)
(* of the list has a filling under way, or an answer that will queue it.   *)
(***************************************************************************)
EXTENDS TimelineQueue, SequenceTheorems, FiniteSetTheorems, TLAPS

Filling(j) ==
    /\ job[j] # Idle
    /\ job[j].kind \in {"init", "refill"} /\ job[j].at \in {"waiting", "clear", "push"}
AnyFilling == \E j \in Jobs : Filling(j)

ListOK(q) ==
    /\ q.kind = "init" => q.count <= QueueSize /\ q.at \notin {"size", "trim"}
    /\ q.kind = "cleanup" => q.at \in {"waiting", "remove"}
    /\ q.at \in {"clear", "push"} => q.list # <<>> /\ Len(q.list) <= q.count
ListsOK == \A j \in Jobs : job[j] # Idle => ListOK(job[j])
ReqsOK ==
    /\ req \in [Requests -> Tasks \cup {Idle}]
    /\ \A r \in Requests : req[r] # Idle => Len(req[r].page) <= req[r].limit
JobsOK == job \in [Jobs -> JobStates \cup {Idle}] /\ ListsOK
RestOK ==
    /\ queue \in Seq(Tweets) /\ cursor \in Nat \cup {None}
    /\ interests \in BOOLEAN /\ refused \subseteq Tweets /\ stale \subseteq Tweets
    /\ served \subseteq Tweets
    /\ shifted \in BOOLEAN /\ starved \in BOOLEAN /\ flooded \in BOOLEAN
Typed == ReqsOK /\ JobsOK /\ RestOK

Seen(t) == t \in served \/ \E r \in Requests : At(r, "answer") /\ t \in Elements(req[r].page)
Covered(n) == n <= Len(queue) /\ \A i \in 1..n : Seen(queue[i])
PageOK(r) == At(r, "save") =>
    /\ req[r].start + Len(req[r].page) <= Len(queue)
    /\ \A i \in 1..Len(req[r].page) : req[r].page[i] = queue[req[r].start + i]
PlaceOK(r) == req[r] # Idle => Covered(req[r].start) /\ PageOK(r)
CursorOK == cursor # None => Covered(cursor)
ReadInv == ~shifted =>
    /\ CursorOK
    /\ \A r \in Requests : PlaceOK(r)

Counting(j) == Is(j, "refill", "size")
Trimming(j) == Is(j, "refill", "trim") /\ job[j].excess >= Len(queue) - MaxSize
LongInv == Len(queue) > MaxSize => flooded \/ \E j \in Jobs : Counting(j) \/ Trimming(j)

Empty == queue = <<>>
AtEnd == cursor # None /\ cursor >= Len(queue)
Answering == \E r \in Requests : At(r, "answer")
FillInv == ~starved =>
    /\ interests /\ Empty => AnyFilling
    /\ ~shifted /\ ~Empty /\ AtEnd => AnyFilling \/ Answering

LEMMA TypedTypeOK == Typed => TypeOK
BY DEF Typed, ReqsOK, JobsOK, RestOK, TypeOK

LEMMA TypedInit == Init => Typed
<1>. SUFFICES ASSUME Init PROVE Typed
  OBVIOUS
<1>1. ReqsOK
  BY DEF Init, ReqsOK
<1>2. JobsOK
  BY DEF Init, JobsOK, ListsOK
<1>3. RestOK
  BY EmptySeq DEF Init, RestOK
<1>. QED  BY <1>1, <1>2, <1>3 DEF Typed

-----------------------------------------------------------------------------
(* Sequences. *)

\* The list goes on as it was, as far as it went.
Grows == Len(queue) <= Len(queue') /\ \A i \in 1..Len(queue) : queue'[i] = queue[i]

LEMMA EntriesAtTyped ==
    ASSUME NEW s \in Seq(Tweets), NEW places \in SUBSET (1..Len(s)), NEW t \in EntriesAt(s, places)
    PROVE  t \in Seq(Tweets) /\ Len(t) <= Len(s)
<1>. DEFINE n == Cardinality(places)
<1>1. Len(s) \in Nat /\ s \in [1..Len(s) -> Tweets]
  BY LenProperties
<1>2. IsFiniteSet(1..Len(s)) /\ Cardinality(1..Len(s)) = Len(s)
  <2>1. /\ IsFiniteSet(1..Len(s))
        /\ Cardinality(1..Len(s)) = IF 1 > Len(s) THEN 0 ELSE Len(s) - 1 + 1
    BY <1>1, FS_Interval
  <2>. QED  BY <1>1, <2>1
<1>3. IsFiniteSet(places) /\ n <= Len(s)
  BY <1>2, FS_Subset
<1>4. n \in Nat
  BY <1>3, FS_CardinalityType
<1>5. t \in [1..n -> Tweets]
  BY <1>1 DEF EntriesAt
<1>. HIDE DEF n
<1>6. t \in Seq(Tweets)
  BY <1>4, <1>5, SeqDef
<1>7. Len(t) = n
  BY <1>4, <1>5, <1>6, LenProperties
<1>. QED  BY <1>3, <1>6, <1>7

LEMMA CandidatesTyped ==
    ASSUME NEW excluded, NEW n \in Nat, NEW s \in Candidates(excluded, n)
    PROVE  s \in Seq(Tweets) /\ Len(s) \in Nat /\ Len(s) <= n /\ (s # <<>> => Len(s) > 0)
<1>1. PICK k \in 0..n : s \in [1..k -> Tweets]
  BY DEF Candidates
<1>2. s \in Seq(Tweets)
  BY <1>1, SeqDef
<1>3. Len(s) = k
  BY <1>1, <1>2, LenProperties
<1>. QED  BY <1>2, <1>3, EmptySeq

LEMMA FromTyped ==
    ASSUME NEW s \in Seq(Tweets), NEW n \in Nat
    PROVE  /\ From(s, n + 1) \in Seq(Tweets) /\ Len(From(s, n + 1)) \in Nat
           /\ Len(From(s, n + 1)) <= Len(s)
           /\ \A m \in Nat : n >= Len(s) - m => Len(From(s, n + 1)) <= m
<1>1. Len(s) \in Nat /\ \A i \in (n + 1)..Len(s) : s[i] \in Tweets
  BY LenProperties, ElementOfSeq
<1>2. /\ From(s, n + 1) \in Seq(Tweets)
      /\ Len(From(s, n + 1)) = IF n + 1 <= Len(s) THEN Len(s) - (n + 1) + 1 ELSE 0
  BY <1>1, SubSeqProperties DEF From
<1>. QED  BY <1>1, <1>2

-----------------------------------------------------------------------------
(* One job at a time changes. *)

OnlyJob(j) == \A i \in Jobs : i # j => job'[i] = job[i]

LEMMA JobTo ==
    ASSUME JobsOK, NEW j \in Jobs, NEW q \in JobStates \cup {Idle}, q # Idle => ListOK(q),
           job' = [job EXCEPT ![j] = q]
    PROVE  JobsOK' /\ OnlyJob(j) /\ job'[j] = q
<1>1. \A i \in Jobs : job'[i] = IF i = j THEN q ELSE job[i]
  BY DEF JobsOK
<1>2. job' \in [Jobs -> JobStates \cup {Idle}]
  BY DEF JobsOK
<1>3. ListsOK'
  BY <1>1 DEF JobsOK, ListsOK
<1>. QED  BY <1>1, <1>2, <1>3 DEF JobsOK, OnlyJob

LEMMA JobTyped ==
    ASSUME JobsOK, NEW j \in Jobs, job[j] # Idle
    PROVE  /\ job[j] \in JobStates /\ ListOK(job[j])
           /\ job[j].kind \in {"init", "refill", "cleanup"} /\ job[j].count \in Nat
           /\ job[j].left \in 1..Attempts /\ job[j].list \in Seq(Tweets) /\ job[j].excess \in Nat
BY DEF JobsOK, ListsOK, JobStates

LEMMA NewJobTyped ==
    ASSUME NEW kind \in {"init", "refill", "cleanup"}, NEW n \in Nat, NEW left \in 1..Attempts,
           kind = "init" => n <= QueueSize
    PROVE  /\ NewJob(kind, n, left) \in JobStates /\ NewJob(kind, n, left) # Idle
           /\ ListOK(NewJob(kind, n, left))
           /\ NewJob(kind, n, left).kind = kind /\ NewJob(kind, n, left).at = "waiting"
<1>1. <<>> \in Seq(Tweets)
  BY EmptySeq
<1>2. NewJob(kind, n, left) \in JobStates
  BY <1>1 DEF NewJob, JobStates
<1>3. NewJob(kind, n, left).kind = kind /\ NewJob(kind, n, left).at = "waiting"
      /\ NewJob(kind, n, left).count = n
  BY DEF NewJob
<1>4. NewJob(kind, n, left) # Idle
  BY <1>3 DEF Idle
<1>5. ListOK(NewJob(kind, n, left))
  BY <1>3 DEF ListOK
<1>. QED  BY <1>2, <1>3, <1>4, <1>5

\* A job joins the queue.
Joins(kind) == \E j \in Jobs :
    /\ job[j] = Idle /\ OnlyJob(j)
    /\ job'[j] # Idle /\ job'[j].kind = kind /\ job'[j].at = "waiting"

LEMMA QueuedJoins ==
    ASSUME JobsOK, NEW kind \in {"init", "refill", "cleanup"}, NEW n \in Nat,
           kind = "init" => n <= QueueSize, job' \in Queued(job, kind, n)
    PROVE  JobsOK' /\ Joins(kind)
<1>1. PICK j \in Jobs : job[j] = Idle /\ job' = [job EXCEPT ![j] = NewJob(kind, n, Attempts)]
  BY DEF Queued
<1>2. Attempts \in 1..Attempts
  BY SomeAttempts
<1>. DEFINE q == NewJob(kind, n, Attempts)
<1>3. q \in JobStates /\ q # Idle /\ ListOK(q) /\ q.kind = kind /\ q.at = "waiting"
  BY <1>2, NewJobTyped
<1>. HIDE DEF q
<1>4. job' = [job EXCEPT ![j] = q]
  BY <1>1 DEF q
<1>5. JobsOK' /\ OnlyJob(j) /\ job'[j] = q
  BY <1>3, <1>4, JobTo
<1>. QED  BY <1>1, <1>3, <1>5 DEF Joins

LEMMA SameJobs == ASSUME JobsOK, job' = job PROVE JobsOK'
BY DEF JobsOK, ListsOK

-----------------------------------------------------------------------------
(* What each step of a job makes of it. *)

\* The job is somewhere else, and still the job it was.
Moves(j, at) ==
    /\ job[j] # Idle /\ OnlyJob(j)
    /\ job'[j] # Idle /\ job'[j].kind = job[j].kind /\ job'[j].at = at
Leaves(j) == job[j] # Idle /\ OnlyJob(j) /\ job'[j] = Idle

LEMMA StepMoves ==
    ASSUME JobsOK, NEW j \in Jobs, job[j] # Idle,
           NEW at \in {"waiting", "clear", "push", "size", "trim", "remove"}, Step(j, at),
           job[j].kind = "init" => at \notin {"size", "trim"},
           job[j].kind # "cleanup", at \in {"clear", "push"} => job[j].at \in {"clear", "push"}
    PROVE  JobsOK' /\ Moves(j, at)
<1>. DEFINE q == [job[j] EXCEPT !.at = at]
<1>1. job[j] \in JobStates /\ ListOK(job[j])
  BY JobTyped
<1>2. /\ q \in JobStates /\ q.at = at /\ q.kind = job[j].kind /\ q.list = job[j].list
      /\ q.count = job[j].count
  BY <1>1 DEF JobStates
<1>3. job' = [job EXCEPT ![j] = q]
  BY DEF Step
<1>. HIDE DEF q
<1>4. ListOK(q)
  BY <1>1, <1>2 DEF ListOK
<1>5. q # Idle
  BY <1>2 DEF Idle, JobStates
<1>6. JobsOK' /\ OnlyJob(j) /\ job'[j] = q
  BY <1>2, <1>3, <1>4, JobTo
<1>. QED  BY <1>2, <1>5, <1>6 DEF Moves

LEMMA CompleteLeaves ==
    ASSUME JobsOK, NEW j \in Jobs, job[j] # Idle, Complete(j) PROVE JobsOK' /\ Leaves(j)
BY JobTo DEF Complete, Leaves

LEMMA PickJob ==
    ASSUME Typed, NEW j \in Jobs, Pick(j)
    PROVE  /\ JobsOK' /\ (Is(j, "init", "waiting") \/ Is(j, "refill", "waiting"))
           /\ \/ Leaves(j) /\ starved' = TRUE
              \/ (Moves(j, "clear") \/ Moves(j, "push")) /\ starved' = starved
<1>1. job[j] # Idle /\ job[j].kind \in {"init", "refill"}
  BY DEF Pick, Is
<1>2. PICK list \in Candidates(Elements(queue), job[j].count) :
          /\ job' = IF list = <<>> THEN [job EXCEPT ![j] = Idle]
                    ELSE [job EXCEPT ![j] = [job[j] EXCEPT !.list = list,
                            !.at = IF job[j].kind = "init" THEN "clear" ELSE "push"]]
          /\ starved' = (starved \/ list = <<>>)
  BY DEF Pick
<1>3. job[j] \in JobStates /\ job[j].count \in Nat /\ ListOK(job[j])
  BY <1>1, JobTyped DEF Typed
<1>4. list \in Seq(Tweets) /\ Len(list) <= job[j].count
  BY <1>3, CandidatesTyped
<1>5. CASE list = <<>>
  <2>1. Complete(j)
    BY <1>2, <1>5 DEF Complete
  <2>2. JobsOK' /\ Leaves(j)
    BY <1>1, <2>1, CompleteLeaves DEF Typed
  <2>. QED  BY <1>2, <1>5, <2>2 DEF Pick
<1>6. CASE list # <<>>
  <2>. DEFINE at == IF job[j].kind = "init" THEN "clear" ELSE "push"
              q == [job[j] EXCEPT !.list = list, !.at = at]
  <2>1. /\ q \in JobStates /\ q.at = at /\ q.kind = job[j].kind /\ q.list = list
        /\ q.count = job[j].count
    BY <1>3, <1>4 DEF JobStates
  <2>2. job' = [job EXCEPT ![j] = q]
    BY <1>2, <1>6
  <2>3. at = "clear" \/ at = "push"
    OBVIOUS
  <2>. HIDE DEF q, at
  <2>4. ListOK(q)
    BY <1>1, <1>3, <1>4, <1>6, <2>1, <2>3 DEF ListOK
  <2>5. q # Idle
    BY <2>1, <2>3 DEF Idle
  <2>6. JobsOK' /\ OnlyJob(j) /\ job'[j] = q
    BY <2>1, <2>2, <2>4, JobTo DEF Typed
  <2>7. Moves(j, "clear") \/ Moves(j, "push")
    BY <1>1, <2>1, <2>3, <2>5, <2>6 DEF Moves
  <2>. QED  BY <1>2, <1>6, <2>6, <2>7 DEF Pick, Typed, RestOK
<1>. QED  BY <1>5, <1>6

LEMMA ClearJob ==
    ASSUME Typed, NEW j \in Jobs, Clear(j) PROVE JobsOK' /\ Is(j, "init", "clear") /\ Moves(j, "push")
BY StepMoves DEF Clear, Is, Typed

LEMMA PushJob ==
    ASSUME Typed, NEW j \in Jobs, Push(j)
    PROVE  /\ JobsOK' /\ job[j] # Idle /\ job[j].at = "push"
           /\ job[j].list \in Seq(Tweets) /\ Len(job[j].list) \in Nat \ {0}
           /\ \/ job[j].kind = "init" /\ Leaves(j) /\ Len(job[j].list) <= QueueSize
              \/ job[j].kind = "refill" /\ Moves(j, "size")
<1>1. /\ job[j] # Idle /\ job[j].at = "push"
      /\ IF job[j].kind = "init" THEN Complete(j) ELSE Step(j, "size")
  BY DEF Push
<1>2. /\ ListOK(job[j]) /\ job[j].list \in Seq(Tweets) /\ job[j].count \in Nat
      /\ job[j].kind \in {"init", "refill", "cleanup"}
  BY <1>1, JobTyped DEF Typed
<1>3. Len(job[j].list) \in Nat \ {0} /\ Len(job[j].list) <= job[j].count
  BY <1>1, <1>2, EmptySeq DEF ListOK
<1>4. CASE job[j].kind = "init"
  <2>1. JobsOK' /\ Leaves(j)
    BY <1>1, <1>4, CompleteLeaves DEF Typed
  <2>. QED  BY <1>1, <1>2, <1>3, <1>4, <2>1, SomePages DEF ListOK
<1>5. CASE job[j].kind # "init"
  <2>1. job[j].kind = "refill"
    BY <1>1, <1>2, <1>5 DEF ListOK
  <2>2. JobsOK' /\ Moves(j, "size")
    BY <1>1, <1>5, <2>1, StepMoves DEF Typed
  <2>. QED  BY <1>1, <1>2, <1>3, <2>1, <2>2
<1>. QED  BY <1>4, <1>5

LEMMA SizeJob ==
    ASSUME Typed, NEW j \in Jobs, Size(j)
    PROVE  /\ JobsOK' /\ Is(j, "refill", "size")
           /\ \/ Len(queue) <= MaxSize /\ Leaves(j)
              \/ Moves(j, "trim") /\ job'[j].excess = Len(queue) - MaxSize
<1>1. Is(j, "refill", "size") /\ job[j] # Idle /\ job[j].kind = "refill"
  BY DEF Size, Is
<1>2. job[j] \in JobStates /\ ListOK(job[j])
  BY <1>1, JobTyped DEF Typed
<1>3. CASE Len(queue) <= MaxSize /\ Complete(j)
  BY <1>1, <1>3, CompleteLeaves DEF Typed
<1>4. CASE /\ Len(queue) > MaxSize
           /\ job' = [job EXCEPT ![j] = [job[j] EXCEPT !.at = "trim", !.excess = Len(queue) - MaxSize]]
  <2>. DEFINE q == [job[j] EXCEPT !.at = "trim", !.excess = Len(queue) - MaxSize]
  <2>1. Len(queue) - MaxSize \in Nat
    BY <1>4, Room, LenProperties DEF Typed, RestOK
  <2>2. /\ q \in JobStates /\ q.at = "trim" /\ q.kind = "refill"
        /\ q.excess = Len(queue) - MaxSize
    BY <1>1, <1>2, <2>1 DEF JobStates
  <2>3. job' = [job EXCEPT ![j] = q]
    BY <1>4
  <2>. HIDE DEF q
  <2>4. ListOK(q) /\ q # Idle
    BY <2>2 DEF ListOK, Idle
  <2>5. JobsOK' /\ OnlyJob(j) /\ job'[j] = q
    BY <2>2, <2>3, <2>4, JobTo DEF Typed
  <2>. QED  BY <1>1, <2>2, <2>4, <2>5 DEF Moves
<1>. QED  BY <1>3, <1>4 DEF Size

LEMMA TrimJob ==
    ASSUME Typed, NEW j \in Jobs, Trim(j)
    PROVE  /\ JobsOK' /\ Is(j, "refill", "trim") /\ Leaves(j)
           /\ job[j].excess \in Nat /\ queue' = From(queue, job[j].excess + 1)
BY CompleteLeaves, JobTyped DEF Trim, Is, Typed

LEMMA FindOldJob ==
    ASSUME Typed, NEW j \in Jobs, FindOld(j)
    PROVE  JobsOK' /\ job[j] # Idle /\ job[j].kind = "cleanup" /\ OnlyJob(j)
<1>1. job[j] # Idle /\ job[j].kind = "cleanup" /\ job[j].at = "waiting"
  BY DEF FindOld, Is
<1>2. PICK old \in EntriesAt(queue, {i \in 1..Len(queue) : queue[i] \in stale}) :
          job' = [job EXCEPT ![j] = IF old = <<>> THEN Idle
                                    ELSE [job[j] EXCEPT !.at = "remove", !.list = old]]
  BY DEF FindOld
<1>3. old \in Seq(Tweets)
  BY EntriesAtTyped DEF Typed, RestOK
<1>4. job[j] \in JobStates
  BY <1>1, JobTyped DEF Typed
<1>. DEFINE q == [job[j] EXCEPT !.at = "remove", !.list = old]
<1>5. q \in JobStates /\ q.at = "remove" /\ q.kind = "cleanup"
  BY <1>1, <1>3, <1>4 DEF JobStates
<1>6. job' = [job EXCEPT ![j] = IF old = <<>> THEN Idle ELSE q]
  BY <1>2
<1>. HIDE DEF q
<1>7. ListOK(q)
  BY <1>5 DEF ListOK
<1>8. JobsOK' /\ OnlyJob(j)
  BY <1>5, <1>6, <1>7, JobTo DEF Typed
<1>. QED  BY <1>1, <1>8

LEMMA RemoveOldJob ==
    ASSUME Typed, NEW j \in Jobs, RemoveOld(j)
    PROVE  /\ JobsOK' /\ Is(j, "cleanup", "remove") /\ Leaves(j)
           /\ queue' \in Seq(Tweets) /\ Len(queue') <= Len(queue)
<1>1. queue' \in Seq(Tweets) /\ Len(queue') <= Len(queue)
  <2>. DEFINE places == {i \in 1..Len(queue) : Times(queue, queue[i], i)
                            > Times(job[j].list, queue[i], Len(job[j].list))}
  <2>1. queue' \in EntriesAt(queue, places)
    BY DEF RemoveOld, WithoutAll
  <2>2. places \in SUBSET (1..Len(queue))
    OBVIOUS
  <2>. HIDE DEF places
  <2>3. queue \in Seq(Tweets)
    BY DEF Typed, RestOK
  <2>. QED  BY <2>1, <2>2, <2>3, EntriesAtTyped
<1>. QED  BY <1>1, CompleteLeaves DEF RemoveOld, Is, Typed

LEMMA FailJob ==
    ASSUME Typed, NEW j \in Jobs, Fail(j)
    PROVE  /\ JobsOK' /\ job[j] # Idle
           /\ \/ Leaves(j) /\ (starved' = (starved \/ job[j].kind # "cleanup"))
              \/ Moves(j, "waiting") /\ (starved' = starved)
<1>1. /\ job[j] # Idle /\ job[j].left \in 1..Attempts /\ job[j].count \in Nat /\ ListOK(job[j])
      /\ job[j].kind \in {"init", "refill", "cleanup"}
  BY JobTyped DEF Fail, Typed
<1>2. CASE job[j].left = 1
  <2>1. Complete(j)
    BY <1>2 DEF Fail, Complete
  <2>. QED  BY <1>1, <1>2, <2>1, CompleteLeaves DEF Fail, Typed
<1>3. CASE job[j].left # 1
  <2>. DEFINE q == NewJob(job[j].kind, job[j].count, job[j].left - 1)
  <2>1. job[j].left - 1 \in 1..Attempts
    BY <1>1, <1>3, SomeAttempts
  <2>2. /\ q \in JobStates /\ q # Idle /\ ListOK(q)
        /\ q.kind = job[j].kind /\ q.at = "waiting"
    BY <1>1, <2>1, NewJobTyped DEF ListOK
  <2>3. job' = [job EXCEPT ![j] = q]
    BY <1>3 DEF Fail
  <2>. HIDE DEF q
  <2>4. JobsOK' /\ OnlyJob(j) /\ job'[j] = q
    BY <2>2, <2>3, JobTo DEF Typed
  <2>. QED  BY <1>1, <1>3, <2>2, <2>4 DEF Fail, Moves, Typed, RestOK
<1>. QED  BY <1>2, <1>3

-----------------------------------------------------------------------------
(* One request at a time changes. *)

OnlyReq(r) == \A s \in Requests : s # r => req'[s] = req[s]

LEMMA ReqTo ==
    ASSUME ReqsOK, NEW r \in Requests, NEW q \in Tasks \cup {Idle},
           q # Idle => Len(q.page) <= q.limit, req' = [req EXCEPT ![r] = q]
    PROVE  ReqsOK' /\ OnlyReq(r) /\ req'[r] = q
<1>1. \A s \in Requests : req'[s] = IF s = r THEN q ELSE req[s]
  BY DEF ReqsOK
<1>2. req' \in [Requests -> Tasks \cup {Idle}]
  BY DEF ReqsOK
<1>. QED  BY <1>1, <1>2 DEF ReqsOK, OnlyReq

LEMMA ReqTyped ==
    ASSUME ReqsOK, NEW r \in Requests, req[r] # Idle
    PROVE  /\ req[r] \in Tasks /\ req[r].start \in Nat /\ req[r].page \in Seq(Tweets)
           /\ req[r].limit \in Nat \ {0} /\ Len(req[r].page) \in Nat
           /\ Len(req[r].page) <= req[r].limit
<1>1. req[r] \in Tasks /\ Len(req[r].page) <= req[r].limit
  BY DEF ReqsOK
<1>2. req[r].page \in Seq(Tweets) /\ req[r].start \in Nat /\ req[r].limit \in Limits
  BY <1>1 DEF Tasks
<1>. QED  BY <1>1, <1>2, SomePages, LenProperties

LEMMA NotIdle ==
    ASSUME ReqsOK, NEW r \in Requests, NEW at, at # "idle", At(r, at) PROVE req[r] # Idle
BY DEF At, Idle

LEMMA SameReqs == ASSUME ReqsOK, req' = req PROVE ReqsOK'
BY DEF ReqsOK

\* The request goes on, and keeps what it has in hand.
Proceeds(r, at) ==
    /\ req[r] # Idle /\ OnlyReq(r) /\ req'[r] # Idle /\ req'[r].at = at
    /\ req'[r].start = req[r].start /\ req'[r].page = req[r].page

LEMMA GoesOn ==
    ASSUME ReqsOK, NEW r \in Requests, req[r] # Idle, NEW at \in {"create", "fetch", "save", "answer"},
           Goes(r, at)
    PROVE  ReqsOK' /\ Proceeds(r, at)
<1>. DEFINE q == [req[r] EXCEPT !.at = at]
<1>1. req[r] \in Tasks /\ Len(req[r].page) <= req[r].limit
  BY ReqTyped
<1>2. /\ q \in Tasks /\ q.at = at /\ q.start = req[r].start /\ q.page = req[r].page
      /\ q.limit = req[r].limit
  BY <1>1 DEF Tasks
<1>3. req' = [req EXCEPT ![r] = q]
  BY DEF Goes
<1>. HIDE DEF q
<1>4. q # Idle
  BY <1>2 DEF Idle
<1>5. ReqsOK' /\ OnlyReq(r) /\ req'[r] = q
  BY <1>1, <1>2, <1>3, ReqTo
<1>. QED  BY <1>2, <1>4, <1>5 DEF Proceeds

LEMMA EndsIdle ==
    ASSUME ReqsOK, NEW r \in Requests, Ends(r) PROVE ReqsOK' /\ OnlyReq(r) /\ req'[r] = Idle
BY ReqTo DEF Ends

LEMMA OpenReq ==
    ASSUME Typed, NEW r \in Requests, NEW n \in Limits, Open(r, n)
    PROVE  /\ ReqsOK' /\ req[r].at = "idle" /\ OnlyReq(r) /\ req'[r].at \in {"create", "fetch"}
           /\ req'[r].start = IF cursor = None THEN 0 ELSE cursor
<1>. DEFINE q == [at |-> IF cursor = None THEN "create" ELSE "fetch", limit |-> n,
                  start |-> IF cursor = None THEN 0 ELSE cursor, page |-> <<>>]
<1>1. <<>> \in Seq(Tweets) /\ Len(<<>>) = 0 /\ n \in Nat \ {0} /\ cursor \in Nat \cup {None}
  BY EmptySeq, SomePages DEF Typed, RestOK
<1>2. q \in Tasks /\ Len(q.page) <= q.limit
  BY <1>1 DEF Tasks
<1>3. q.at \in {"create", "fetch"} /\ q.start = IF cursor = None THEN 0 ELSE cursor
  OBVIOUS
<1>4. req' = [req EXCEPT ![r] = q]
  BY DEF Open
<1>. HIDE DEF q
<1>5. ReqsOK' /\ OnlyReq(r) /\ req'[r] = q
  BY <1>2, <1>4, ReqTo DEF Typed
<1>. QED  BY <1>3, <1>5 DEF Open, At

LEMMA FetchReq ==
    ASSUME Typed, NEW r \in Requests, Fetch(r)
    PROVE  /\ ReqsOK' /\ req[r] # Idle /\ req[r].at = "fetch" /\ OnlyReq(r)
           /\ req'[r].at = "save" /\ req'[r].start = req[r].start
           /\ req[r].start + Len(req'[r].page) <= Len(queue)
           /\ \A i \in 1..Len(req'[r].page) : req'[r].page[i] = queue[req[r].start + i]
<1>. DEFINE s == req[r].start
            stop == IF s + req[r].limit <= Len(queue) THEN s + req[r].limit ELSE Len(queue)
            p == SubSeq(queue, s + 1, stop)
            q == [req[r] EXCEPT !.at = "save", !.page = p]
<1>1. req[r] # Idle /\ req[r].at = "fetch" /\ s < Len(queue)
  BY NotIdle DEF Fetch, At, Typed
<1>2. req[r] \in Tasks /\ s \in Nat /\ req[r].limit \in Nat \ {0}
  BY <1>1, ReqTyped DEF Typed
<1>3. queue \in Seq(Tweets) /\ Len(queue) \in Nat
  BY LenProperties DEF Typed, RestOK
<1>4. stop \in Nat /\ s + 1 <= stop /\ stop <= Len(queue) /\ stop <= s + req[r].limit
  BY <1>1, <1>2, <1>3
<1>. HIDE DEF s, stop
<1>5. /\ p \in Seq(Tweets) /\ Len(p) = stop - (s + 1) + 1
      /\ \A i \in 1..(stop - (s + 1) + 1) : p[i] = queue[(s + 1) + i - 1]
  <2>1. \A i \in (s + 1)..stop : queue[i] \in Tweets
    BY <1>2, <1>3, <1>4, ElementOfSeq
  <2>2. s + 1 \in Int /\ stop \in Int
    BY <1>2, <1>4
  <2>3. /\ p \in Seq(Tweets) /\ Len(p) = IF s + 1 <= stop THEN stop - (s + 1) + 1 ELSE 0
        /\ \A i \in 1..(stop - (s + 1) + 1) : p[i] = queue[(s + 1) + i - 1]
    BY <2>1, <2>2, SubSeqProperties
  <2>. QED  BY <1>4, <2>3
<1>. HIDE DEF p
<1>6. q \in Tasks /\ q.at = "save" /\ q.start = s /\ q.page = p /\ q.limit = req[r].limit
  BY <1>2, <1>5 DEF Tasks, s
<1>7. req' = [req EXCEPT ![r] = q]
  BY DEF Fetch, p, stop, s
<1>. HIDE DEF q
<1>8. Len(p) = stop - s /\ Len(p) <= req[r].limit
  BY <1>2, <1>4, <1>5
<1>9. ReqsOK' /\ OnlyReq(r) /\ req'[r] = q
  BY <1>6, <1>7, <1>8, ReqTo DEF Typed
<1>10. \A i \in 1..Len(p) : p[i] = queue[s + i]
  BY <1>2, <1>4, <1>5
<1>11. s + Len(p) <= Len(queue)
  BY <1>2, <1>3, <1>4, <1>8
<1>. QED  BY <1>1, <1>6, <1>9, <1>10, <1>11 DEF s

-----------------------------------------------------------------------------
(* Types. *)

LEMMA RequestsTyped ==
    ASSUME Typed, NEW r \in Requests,
           \/ \E n \in Limits : Open(r, n)
           \/ CreateCursor(r) \/ Fetch(r) \/ Fallback(r) \/ Save(r) \/ Answer(r) \/ Stop(r)
    PROVE  Typed'
<1>1. ASSUME NEW n \in Limits, Open(r, n) PROVE Typed'
  BY <1>1, OpenReq, SameJobs DEF Open, Typed, RestOK, tastes, history
<1>2. CASE CreateCursor(r)
  <2>1. ReqsOK'
    BY <1>2, NotIdle, GoesOn DEF CreateCursor, Typed
  <2>. QED  BY <1>2, <2>1, SameJobs DEF CreateCursor, Typed, RestOK, tastes, history
<1>3. CASE Fetch(r)
  BY <1>3, FetchReq, SameJobs DEF Fetch, Typed, RestOK, tastes, history
<1>4. CASE Fallback(r)
  <2>1. ReqsOK'
    BY <1>4, EndsIdle DEF Fallback, Typed
  <2>2. JobsOK'
    BY <1>4, QueuedJoins, SameJobs, SomePages DEF Fallback, Typed
  <2>. QED  BY <1>4, <2>1, <2>2 DEF Fallback, Typed, RestOK
<1>5. CASE Save(r)
  <2>1. req[r] # Idle
    BY <1>5, NotIdle DEF Save, Typed
  <2>2. ReqsOK'
    BY <1>5, <2>1, GoesOn DEF Save, Typed
  <2>3. cursor' \in Nat
    BY <1>5, <2>1, ReqTyped DEF Save, Typed
  <2>. QED  BY <1>5, <2>2, <2>3, SameJobs DEF Save, Typed, RestOK, tastes, history
<1>6. CASE Answer(r)
  <2>1. req[r] # Idle /\ ReqsOK'
    BY <1>6, NotIdle, EndsIdle DEF Answer, Typed
  <2>2. (IF req[r].limit > Batch THEN req[r].limit ELSE Batch) \in Nat
    BY <2>1, ReqTyped, SomePages DEF Typed
  <2>3. JobsOK'
    BY <1>6, <2>2, QueuedJoins, SameJobs DEF Answer, Typed
  <2>4. Elements(req[r].page) \subseteq Tweets
    BY <2>1, ReqTyped, ElementOfSeq DEF Elements, Typed
  <2>. QED  BY <1>6, <2>1, <2>3, <2>4 DEF Answer, Typed, RestOK, tastes
<1>7. CASE Stop(r)
  <2>1. ReqsOK'
    BY <1>7, EndsIdle DEF Stop, Typed
  <2>. QED  BY <1>7, <2>1, SameJobs DEF Stop, Typed, RestOK, tastes, At
<1>. QED  BY <1>1, <1>2, <1>3, <1>4, <1>5, <1>6, <1>7

LEMMA AssignJoins ==
    ASSUME Typed, AssignInterests PROVE JobsOK' /\ Joins("init")
<1>1. PICK j \in Jobs : job[j] = Idle /\ job' = [job EXCEPT ![j] = NewJob("init", QueueSize, 1)]
  BY DEF AssignInterests
<1>. DEFINE q == NewJob("init", QueueSize, 1)
<1>2. q \in JobStates /\ q # Idle /\ ListOK(q) /\ q.kind = "init" /\ q.at = "waiting"
  <2>1. 1 \in 1..Attempts
    BY SomeAttempts
  <2>. QED  BY <2>1, NewJobTyped, SomePages
<1>. HIDE DEF q
<1>3. job' = [job EXCEPT ![j] = q]
  BY <1>1 DEF q
<1>4. JobsOK' /\ OnlyJob(j) /\ job'[j] = q
  BY <1>2, <1>3, JobTo DEF Typed
<1>. QED  BY <1>1, <1>2, <1>4 DEF Joins

LEMMA JobsTyped ==
    ASSUME Typed, NEW j \in Jobs,
           \/ Pick(j) \/ Clear(j) \/ Push(j) \/ Size(j) \/ Trim(j)
           \/ FindOld(j) \/ RemoveOld(j) \/ Fail(j)
    PROVE  Typed'
<1>1. CASE Pick(j)
  <2>1. JobsOK'
    BY <1>1, PickJob
  <2>2. starved' \in BOOLEAN
    BY <1>1, PickJob DEF Typed, RestOK
  <2>. QED  BY <1>1, <2>1, <2>2, SameReqs DEF Pick, Typed, RestOK, tastes
<1>2. CASE Clear(j)
  <2>1. JobsOK'
    BY <1>2, ClearJob
  <2>. QED  BY <1>2, <2>1, SameReqs, EmptySeq DEF Clear, Typed, RestOK, tastes, Reading
<1>3. CASE Push(j)
  <2>1. JobsOK' /\ queue' \in Seq(Tweets)
    BY <1>3, PushJob, ConcatProperties DEF Push, Typed, RestOK
  <2>. QED  BY <1>3, <2>1, SameReqs DEF Push, Typed, RestOK, tastes
<1>4. CASE Size(j)
  BY <1>4, SizeJob, SameReqs DEF Size, Typed, RestOK, tastes, history
<1>5. CASE Trim(j)
  <2>1. JobsOK' /\ queue' \in Seq(Tweets)
    BY <1>5, TrimJob, FromTyped DEF Typed, RestOK
  <2>. QED  BY <1>5, <2>1, SameReqs DEF Trim, Typed, RestOK, tastes, Reading
<1>6. CASE FindOld(j)
  BY <1>6, FindOldJob, SameReqs DEF FindOld, Typed, RestOK, tastes, history
<1>7. CASE RemoveOld(j)
  <2>1. JobsOK' /\ queue' \in Seq(Tweets)
    BY <1>7, RemoveOldJob
  <2>. QED  BY <1>7, <2>1, SameReqs DEF RemoveOld, Typed, RestOK, tastes, Reading
<1>8. CASE Fail(j)
  BY <1>8, FailJob, SameReqs DEF Fail, Typed, RestOK, tastes
<1>. QED  BY <1>1, <1>2, <1>3, <1>4, <1>5, <1>6, <1>7, <1>8

LEMMA TypedStep == ASSUME Typed, [Next]_vars PROVE Typed'
<1>1. CASE AssignInterests
  BY <1>1, AssignJoins, SameReqs DEF AssignInterests, Typed, RestOK, history
<1>2. CASE Nightly
  BY <1>2, QueuedJoins, SameReqs DEF Nightly, Typed, RestOK, tastes, history
<1>3. ASSUME NEW t \in Tweets, Refuse(t) \/ Accept(t) \/ Ages(t) PROVE Typed'
  BY <1>3, SameJobs, SameReqs DEF Refuse, Accept, Ages, Typed, RestOK, history
<1>4. CASE UNCHANGED vars
  BY <1>4, SameJobs, SameReqs DEF vars, Typed, RestOK, tastes, history
<1>. QED  BY <1>1, <1>2, <1>3, <1>4, RequestsTyped, JobsTyped DEF Next

LEMMA TypedHolds == Spec => []Typed
BY TypedInit, TypedStep, PTL DEF Spec

\* The list, the position, every request and every job stay well typed for any
\* sizes; in particular no page is longer than was asked for, although the list
\* may have changed since its length was looked at.
THEOREM TypeCorrect == Spec => []TypeOK
BY TypedHolds, TypedTypeOK, PTL

-----------------------------------------------------------------------------
(* What lies before the position. *)

SeenStays == \A t : Seen(t) => Seen(t)'

LEMMA SeenKept ==
    ASSUME served \subseteq served',
           \A s \in Requests : At(s, "answer") =>
               (At(s, "answer")' /\ req'[s].page = req[s].page) \/ Elements(req[s].page) \subseteq served'
    PROVE  SeenStays
BY DEF SeenStays, Seen, At

LEMMA CoveredStays ==
    ASSUME Grows, SeenStays, queue \in Seq(Tweets), NEW n \in Nat, Covered(n) PROVE Covered(n)'
<1>1. Len(queue) \in Nat
  BY LenProperties
<1>2. \A i \in 1..n : queue'[i] = queue[i]
  BY <1>1 DEF Grows, Covered
<1>3. \A i \in 1..n : \A t : t = queue'[i] => Seen(t)'
  BY <1>2 DEF Covered, SeenStays
<1>4. n <= Len(queue')
  BY <1>1 DEF Grows, Covered
<1>. QED  BY <1>3, <1>4 DEF Covered

\* A request that goes on, or stays, while the list grows.
LEMMA PlaceStays ==
    ASSUME Typed, Grows, SeenStays, NEW r \in Requests, req[r] # Idle, PlaceOK(r),
           req'[r].start = req[r].start,
           At(r, "save")' => At(r, "save") /\ req'[r].page = req[r].page
    PROVE  PlaceOK(r)'
<1>1. queue \in Seq(Tweets) /\ Len(queue) \in Nat /\ req[r].start \in Nat /\ Len(req[r].page) \in Nat
  BY ReqTyped, LenProperties DEF Typed, RestOK
<1>2. Covered(req[r].start) /\ PageOK(r)
  BY DEF PlaceOK
<1>3. \A n \in Nat : Covered(n) => Covered(n)'
  BY <1>1, CoveredStays
<1>4. ASSUME NEW n \in Nat, n = req[r].start PROVE PlaceOK(r)'
  <2>1. Covered(n)'
    BY <1>2, <1>3, <1>4
  <2>2. PageOK(r)'
    <3>1. SUFFICES ASSUME At(r, "save")'
                   PROVE  /\ n + Len(req[r].page) <= Len(queue')
                          /\ \A i \in 1..Len(req[r].page) : req[r].page[i] = queue'[n + i]
      BY <1>4 DEF PageOK
    <3>2. /\ n + Len(req[r].page) <= Len(queue)
          /\ \A i \in 1..Len(req[r].page) : req[r].page[i] = queue[n + i]
      BY <1>2, <1>4, <3>1 DEF PageOK
    <3>3. \A i \in 1..Len(req[r].page) : n + i \in 1..Len(queue)
      BY <1>1, <1>4, <3>2
    <3>4. n + Len(req[r].page) <= Len(queue')
      BY <1>1, <1>4, <3>2 DEF Grows
    <3>. QED  BY <3>2, <3>3, <3>4 DEF Grows
  <2>. QED  BY <1>4, <2>1, <2>2 DEF PlaceOK
<1>. QED  BY <1>1, <1>4

LEMMA ReadGrows ==
    ASSUME Typed, ReadInv, shifted => shifted', ~shifted' => Grows /\ SeenStays,
           cursor' = cursor \/ (~shifted' => CursorOK'),
           \A r \in Requests : \/ req'[r] = req[r] \/ req'[r] = Idle
                               \/ ~shifted' => PlaceOK(r)'
    PROVE  ReadInv'
<1>1. SUFFICES ASSUME ~shifted' PROVE CursorOK' /\ \A r \in Requests : PlaceOK(r)'
  BY DEF ReadInv
<1>2. queue \in Seq(Tweets) /\ cursor \in Nat \cup {None} /\ ~shifted /\ Grows /\ SeenStays
  BY <1>1 DEF Typed, RestOK
<1>3. ASSUME cursor' = cursor PROVE CursorOK'
  <2>1. ASSUME NEW n \in Nat, n = cursor PROVE Covered(n)'
    BY <1>2, <2>1, NoneIsNothing, CoveredStays DEF ReadInv, CursorOK
  <2>2. \A n \in Nat : n = cursor' => Covered(n)'
    BY <1>3, <2>1
  <2>3. cursor' \in Nat \cup {None}
    BY <1>2, <1>3
  <2>. QED  BY <2>2, <2>3 DEF CursorOK, Covered
<1>4. ASSUME NEW r \in Requests, req'[r] = req[r] PROVE PlaceOK(r)'
  <2>1. CASE req[r] = Idle
    BY <1>4, <2>1 DEF PlaceOK
  <2>2. CASE req[r] # Idle
    <3>1. PlaceOK(r)
      BY <1>2 DEF ReadInv
    <3>. QED  BY <1>2, <1>4, <2>2, <3>1, PlaceStays DEF At
  <2>. QED  BY <2>1, <2>2
<1>5. ASSUME NEW r \in Requests, req'[r] = Idle PROVE PlaceOK(r)'
  BY <1>5 DEF PlaceOK
<1>. QED  BY <1>1, <1>3, <1>4, <1>5

\* Something is taken off, and nobody reads.
LEMMA ReadUnread ==
    ASSUME Typed, Typed', ReadInv, req' = req, cursor' = cursor, shifted' \/ ~Reading PROVE ReadInv'
<1>1. SUFFICES ASSUME ~Reading PROVE CursorOK' /\ \A r \in Requests : PlaceOK(r)'
  BY DEF ReadInv
<1>2. \A r \in Requests : PlaceOK(r)'
  BY <1>1 DEF Reading, PlaceOK
<1>3. cursor' \in {None, 0}
  BY <1>1 DEF Reading
<1>4. Covered(0)'
  <2>1. (queue \in Seq(Tweets))'
    BY DEF Typed, RestOK
  <2>. QED  BY <2>1, LenProperties DEF Covered
<1>. QED  BY <1>2, <1>3, <1>4 DEF CursorOK, Covered

LEMMA GrowsSame == ASSUME Typed, queue' = queue PROVE Grows
BY LenProperties DEF Grows, Typed, RestOK

LEMMA OpenRead == ASSUME Typed, ReadInv, NEW r \in Requests, NEW n \in Limits, Open(r, n) PROVE ReadInv'
<1>1. /\ req[r].at = "idle" /\ OnlyReq(r) /\ req'[r].at \in {"create", "fetch"}
      /\ req'[r].start = IF cursor = None THEN 0 ELSE cursor
  BY OpenReq
<1>2. queue' = queue /\ cursor' = cursor /\ served' = served /\ shifted' = shifted
  BY DEF Open, history
<1>3. Grows /\ SeenStays
  <2>1. Grows
    BY <1>2, GrowsSame
  <2>. QED  BY <1>1, <1>2, <2>1, SeenKept DEF OnlyReq, At
<1>4. ASSUME ~shifted PROVE PlaceOK(r)'
  <2>1. queue \in Seq(Tweets) /\ Len(queue) \in Nat /\ cursor \in Nat \cup {None}
    BY LenProperties DEF Typed, RestOK
  <2>2. \A m \in Nat : m = req'[r].start => Covered(m)
    <3>1. Covered(0)
      BY <2>1 DEF Covered
    <3>. QED  BY <1>1, <1>4, <3>1 DEF ReadInv, CursorOK
  <2>3. \A m \in Nat : m = req'[r].start => Covered(m)'
    BY <1>3, <2>1, <2>2, CoveredStays
  <2>4. req'[r].start \in Nat
    BY <1>1, <2>1
  <2>5. Covered(req[r].start)'
    BY <2>3, <2>4 DEF Covered
  <2>. QED  BY <1>1, <2>5 DEF PlaceOK, PageOK, At
<1>. QED  BY <1>1, <1>2, <1>3, <1>4, ReadGrows DEF OnlyReq

LEMMA CreateCursorRead == ASSUME Typed, ReadInv, NEW r \in Requests, CreateCursor(r) PROVE ReadInv'
<1>1. req[r] # Idle /\ At(r, "create") /\ Proceeds(r, "fetch")
  BY NotIdle, GoesOn DEF CreateCursor, Typed
<1>2. queue' = queue /\ cursor' = 0 /\ served' = served /\ shifted' = shifted
  BY DEF CreateCursor, history
<1>3. Grows /\ SeenStays
  <2>1. Grows
    BY <1>2, GrowsSame
  <2>. QED  BY <1>1, <1>2, <2>1, SeenKept DEF Proceeds, OnlyReq, At
<1>4. CursorOK'
  BY <1>2, LenProperties DEF CursorOK, Covered, Typed, RestOK
<1>5. ASSUME ~shifted PROVE PlaceOK(r)'
  BY <1>1, <1>3, <1>5, PlaceStays DEF ReadInv, Proceeds, At
<1>. QED  BY <1>1, <1>2, <1>3, <1>4, <1>5, ReadGrows DEF Proceeds, OnlyReq

LEMMA FetchRead == ASSUME Typed, ReadInv, NEW r \in Requests, Fetch(r) PROVE ReadInv'
<1>1. /\ req[r] # Idle /\ req[r].at = "fetch" /\ OnlyReq(r)
      /\ req'[r].at = "save" /\ req'[r].start = req[r].start
      /\ req[r].start + Len(req'[r].page) <= Len(queue)
      /\ \A i \in 1..Len(req'[r].page) : req'[r].page[i] = queue[req[r].start + i]
  BY FetchReq
<1>2. queue' = queue /\ cursor' = cursor /\ served' = served /\ shifted' = shifted
  BY DEF Fetch, history
<1>3. Grows /\ SeenStays
  <2>1. Grows
    BY <1>2, GrowsSame
  <2>. QED  BY <1>1, <1>2, <2>1, SeenKept DEF OnlyReq, At
<1>4. ASSUME ~shifted PROVE PlaceOK(r)'
  <2>1. queue \in Seq(Tweets) /\ req[r].start \in Nat
    BY <1>1, ReqTyped DEF Typed, RestOK
  <2>2. \A m \in Nat : m = req[r].start => Covered(m)'
    BY <1>1, <1>3, <1>4, <2>1, CoveredStays DEF ReadInv, PlaceOK
  <2>3. Covered(req[r].start)'
    BY <1>1, <2>1, <2>2 DEF Covered
  <2>. QED  BY <1>1, <1>2, <2>3 DEF PlaceOK, PageOK
<1>. QED  BY <1>1, <1>2, <1>3, <1>4, ReadGrows DEF OnlyReq

LEMMA FallbackRead == ASSUME Typed, ReadInv, NEW r \in Requests, Fallback(r) PROVE ReadInv'
<1>1. At(r, "fetch") /\ OnlyReq(r) /\ req'[r] = Idle
  BY EndsIdle DEF Fallback, Typed
<1>2. queue' = queue /\ cursor' = cursor /\ served' = served /\ shifted' = shifted
  BY DEF Fallback
<1>3. Grows /\ SeenStays
  <2>1. Grows
    BY <1>2, GrowsSame
  <2>. QED  BY <1>1, <1>2, <2>1, SeenKept DEF OnlyReq, At
<1>. QED  BY <1>1, <1>2, <1>3, ReadGrows DEF OnlyReq

\* The position moves behind a page whose request is about to answer.
LEMMA SaveRead == ASSUME Typed, ReadInv, NEW r \in Requests, Save(r) PROVE ReadInv'
<1>1. req[r] # Idle /\ At(r, "save") /\ Proceeds(r, "answer")
  BY NotIdle, GoesOn DEF Save, Typed
<1>2. /\ queue' = queue /\ cursor' = req[r].start + Len(req[r].page)
      /\ served' = served /\ shifted' = shifted
  BY DEF Save, history
<1>3. Grows /\ SeenStays
  <2>1. Grows
    BY <1>2, GrowsSame
  <2>. QED  BY <1>1, <1>2, <2>1, SeenKept DEF Proceeds, OnlyReq, At
<1>4. ASSUME ~shifted, NEW s \in Nat, NEW n \in Nat, s = req[r].start, n = Len(req[r].page)
      PROVE  CursorOK'
  <2>1. /\ Covered(s) /\ s + n <= Len(queue)
        /\ \A i \in 1..n : req[r].page[i] = queue[s + i]
    BY <1>1, <1>4 DEF ReadInv, PlaceOK, PageOK
  <2>2. \A i \in 1..n : \A t : t = queue[s + i] => Seen(t)'
    <3>1. SUFFICES ASSUME NEW i \in 1..n, NEW t, t = queue[s + i] PROVE Seen(t)'
      OBVIOUS
    <3>2. t \in Elements(req[r].page)
      BY <1>4, <2>1, <3>1 DEF Elements
    <3>3. At(r, "answer")' /\ req'[r].page = req[r].page
      BY <1>1 DEF Proceeds, At
    <3>. QED  BY <3>2, <3>3 DEF Seen
  <2>3. \A i \in 1..s : \A t : t = queue[i] => Seen(t)'
    BY <1>3, <2>1 DEF Covered, SeenStays
  <2>4. \A i \in 1..(s + n) : i \in 1..s \/ \E k \in 1..n : i = s + k
    <3>1. SUFFICES ASSUME NEW i \in 1..(s + n), i \notin 1..s PROVE \E k \in 1..n : i = s + k
      OBVIOUS
    <3>2. i \in Int /\ s < i /\ i <= s + n
      BY <3>1
    <3>3. i - s \in 1..n /\ i = s + (i - s)
      BY <3>2
    <3>. QED  BY <3>3
  <2>5. \A i \in 1..(s + n) : \A t : t = queue[i] => Seen(t)'
    BY <2>2, <2>3, <2>4
  <2>6. Covered(s + n)'
    BY <1>2, <2>1, <2>5 DEF Covered
  <2>7. cursor' = s + n
    BY <1>2, <1>4
  <2>. QED  BY <2>6, <2>7 DEF CursorOK, Covered
<1>5. ASSUME ~shifted PROVE PlaceOK(r)'
  BY <1>1, <1>3, <1>5, PlaceStays DEF ReadInv, Proceeds, At
<1>6. ~shifted => CursorOK'
  BY <1>1, <1>4, ReqTyped DEF Typed
<1>. QED  BY <1>1, <1>2, <1>3, <1>5, <1>6, ReadGrows DEF Proceeds, OnlyReq

LEMMA AnswerRead == ASSUME Typed, ReadInv, NEW r \in Requests, Answer(r) PROVE ReadInv'
<1>1. OnlyReq(r) /\ req'[r] = Idle
  BY EndsIdle DEF Answer, Typed
<1>2. /\ queue' = queue /\ cursor' = cursor /\ shifted' = shifted
      /\ served' = served \cup Elements(req[r].page)
  BY DEF Answer
<1>3. Grows /\ SeenStays
  <2>1. Grows
    BY <1>2, GrowsSame
  <2>. QED  BY <1>1, <1>2, <2>1, SeenKept DEF OnlyReq, At
<1>. QED  BY <1>1, <1>2, <1>3, ReadGrows DEF OnlyReq

\* A page that was saved and is not answered is lost.
LEMMA StopRead == ASSUME Typed, ReadInv, NEW r \in Requests, Stop(r) PROVE ReadInv'
<1>1. OnlyReq(r) /\ req'[r] = Idle
  BY EndsIdle DEF Stop, Typed
<1>2. /\ queue' = queue /\ cursor' = cursor /\ served' = served
      /\ shifted' = (shifted \/ At(r, "answer"))
  BY DEF Stop
<1>3. Grows /\ (~shifted' => SeenStays)
  <2>1. Grows
    BY <1>2, GrowsSame
  <2>. QED  BY <1>1, <1>2, <2>1, SeenKept DEF OnlyReq, At
<1>. QED  BY <1>1, <1>2, <1>3, ReadGrows DEF OnlyReq

LEMMA ReadSame ==
    ASSUME Typed, ReadInv, queue' = queue, cursor' = cursor, served' = served, req' = req,
           shifted => shifted'
    PROVE  ReadInv'
<1>1. Grows /\ SeenStays
  BY GrowsSame, SeenKept DEF At
<1>. QED  BY <1>1, ReadGrows

LEMMA JobsRead ==
    ASSUME Typed, Typed', ReadInv, NEW j \in Jobs,
           \/ Pick(j) \/ Clear(j) \/ Push(j) \/ Size(j) \/ Trim(j)
           \/ FindOld(j) \/ RemoveOld(j) \/ Fail(j)
    PROVE  ReadInv'
<1>1. CASE Pick(j) \/ Size(j) \/ FindOld(j) \/ Fail(j)
  <2>1. /\ queue' = queue /\ cursor' = cursor /\ served' = served /\ req' = req
        /\ shifted' = shifted
    BY <1>1 DEF Pick, Size, FindOld, Fail, history
  <2>. QED  BY <2>1, ReadSame
<1>2. CASE Clear(j)
  <2>1. CASE queue = <<>>
    BY <1>2, <2>1, ReadSame DEF Clear
  <2>2. CASE queue # <<>>
    BY <1>2, <2>2, ReadUnread DEF Clear
  <2>. QED  BY <2>1, <2>2
<1>3. CASE Push(j)
  <2>1. queue' = queue \o job[j].list /\ job[j].list \in Seq(Tweets) /\ queue \in Seq(Tweets)
    BY <1>3, PushJob DEF Push, Typed, RestOK
  <2>2. /\ Len(queue') = Len(queue) + Len(job[j].list)
        /\ \A i \in 1..(Len(queue) + Len(job[j].list)) :
               queue'[i] = IF i <= Len(queue) THEN queue[i] ELSE job[j].list[i - Len(queue)]
    BY <2>1, ConcatProperties
  <2>3. Len(queue) \in Nat /\ Len(job[j].list) \in Nat
    BY <2>1, LenProperties
  <2>4. Grows
    <3>1. \A i \in 1..Len(queue) : i \in 1..(Len(queue) + Len(job[j].list)) /\ i <= Len(queue)
      BY <2>3
    <3>2. \A i \in 1..Len(queue) : queue'[i] = queue[i]
      BY <2>2, <3>1
    <3>3. Len(queue) <= Len(queue')
      BY <2>2, <2>3
    <3>. QED  BY <3>2, <3>3 DEF Grows
  <2>5. /\ cursor' = cursor /\ served' = served /\ req' = req /\ shifted' = shifted
    BY <1>3 DEF Push
  <2>6. SeenStays
    BY <2>5, SeenKept DEF At
  <2>. QED  BY <2>4, <2>5, <2>6, ReadGrows
<1>4. CASE Trim(j)
  BY <1>4, ReadUnread DEF Trim
<1>5. CASE RemoveOld(j)
  <2>1. CASE queue' = queue
    BY <1>5, <2>1, ReadSame DEF RemoveOld
  <2>2. CASE queue' # queue
    BY <1>5, <2>2, ReadUnread DEF RemoveOld
  <2>. QED  BY <2>1, <2>2
<1>. QED  BY <1>1, <1>2, <1>3, <1>4, <1>5

LEMMA ReadStep == ASSUME Typed, ReadInv, [Next]_vars PROVE ReadInv'
<1>1. Typed'
  BY TypedStep
<1>2. CASE AssignInterests \/ Nightly \/ UNCHANGED vars
  BY <1>2, ReadSame DEF AssignInterests, Nightly, vars, history
<1>3. ASSUME NEW t \in Tweets, Refuse(t) \/ Accept(t) \/ Ages(t) PROVE ReadInv'
  BY <1>3, ReadSame DEF Refuse, Accept, Ages, history
<1>. QED  BY <1>1, <1>2, <1>3, JobsRead, OpenRead, CreateCursorRead, FetchRead, FallbackRead,
             SaveRead, AnswerRead, StopRead DEF Next

LEMMA ReadHolds == Spec => []ReadInv
<1>1. Init => ReadInv
  BY DEF Init, ReadInv, CursorOK, PlaceOK
<1>2. Typed /\ ReadInv /\ [Next]_vars => ReadInv'
  BY ReadStep
<1>. QED  BY <1>1, <1>2, TypedHolds, PTL DEF Spec

\* Nothing before the position goes unread: it never passes the end of the list,
\* and each entry that it has passed was answered or is about to be, for any
\* number of requests that overlap with each other and with fillings.
THEOREM NothingSkippedHolds == Spec => []NothingSkipped
<1>1. ReadInv => NothingSkipped
  BY DEF ReadInv, CursorOK, Covered, Seen, NothingSkipped
<1>. QED  BY <1>1, ReadHolds, PTL

-----------------------------------------------------------------------------
(* A list that is too long. *)

\* The list gets no longer, and the jobs that will make it shorter stay.
LEMMA LongSame ==
    ASSUME Typed, Typed', LongInv, Len(queue') <= Len(queue), flooded => flooded',
           \A j \in Jobs : Is(j, "refill", "size") \/ Is(j, "refill", "trim") =>
               flooded' \/ job'[j] = job[j]
    PROVE  LongInv'
<1>1. Len(queue) \in Nat /\ Len(queue') \in Nat /\ MaxSize \in Nat
  BY LenProperties, Room DEF Typed, RestOK
<1>2. SUFFICES ASSUME Len(queue') > MaxSize, ~flooded'
               PROVE  \E j \in Jobs : Counting(j)' \/ Trimming(j)'
  BY DEF LongInv
<1>3. PICK j \in Jobs : Counting(j) \/ Trimming(j)
  BY <1>1, <1>2 DEF LongInv
<1>4. job'[j] = job[j]
  BY <1>2, <1>3 DEF Counting, Trimming
<1>5. CASE Counting(j)
  BY <1>4, <1>5 DEF Counting, Is
<1>6. CASE Trimming(j)
  <2>1. job[j].excess \in Nat
    BY <1>6, JobTyped DEF Trimming, Is, Typed
  <2>2. job[j].excess >= Len(queue') - MaxSize
    BY <1>1, <1>6, <2>1 DEF Trimming
  <2>. QED  BY <1>4, <1>6, <2>2 DEF Trimming, Is
<1>. QED  BY <1>3, <1>5, <1>6

LEMMA JoinsLong ==
    ASSUME NEW kind, Joins(kind), NEW i \in Jobs, job[i] # Idle PROVE job'[i] = job[i]
BY DEF Joins, OnlyJob

LEMMA RequestsLong ==
    ASSUME Typed, Typed', LongInv, NEW r \in Requests,
           \/ \E n \in Limits : Open(r, n)
           \/ CreateCursor(r) \/ Fetch(r) \/ Fallback(r) \/ Save(r) \/ Answer(r) \/ Stop(r)
    PROVE  LongInv'
<1>1. queue' = queue /\ flooded' = flooded
  BY DEF Open, CreateCursor, Fetch, Fallback, Save, Answer, Stop, history
<1>2. Len(queue') <= Len(queue)
  BY <1>1, LenProperties DEF Typed, RestOK
<1>3. job' = job \/ Joins("init") \/ Joins("refill")
  <2>1. CASE Fallback(r)
    BY <2>1, QueuedJoins, SomePages DEF Fallback, Typed
  <2>2. CASE Answer(r)
    <3>1. (IF req[r].limit > Batch THEN req[r].limit ELSE Batch) \in Nat
      BY <2>2, NotIdle, ReqTyped, SomePages DEF Answer, Typed
    <3>. QED  BY <2>2, <3>1, QueuedJoins DEF Answer, Typed
  <2>. QED  BY <2>1, <2>2 DEF Open, CreateCursor, Fetch, Save, Stop
<1>4. \A j \in Jobs : job[j] # Idle => job'[j] = job[j]
  BY <1>3, JoinsLong
<1>. QED  BY <1>1, <1>2, <1>4, LongSame DEF Is

LEMMA PushLong == ASSUME Typed, Typed', LongInv, NEW j \in Jobs, Push(j) PROVE LongInv'
<1>1. /\ job[j].list \in Seq(Tweets) /\ Len(job[j].list) \in Nat \ {0}
      /\ \/ job[j].kind = "init" /\ Leaves(j) /\ Len(job[j].list) <= QueueSize
         \/ job[j].kind = "refill" /\ Moves(j, "size")
  BY PushJob
<1>2. /\ queue' = queue \o job[j].list
      /\ flooded' = (flooded \/ (job[j].kind = "init" /\ queue # <<>>))
  BY DEF Push
<1>3. CASE job[j].kind = "refill" /\ Moves(j, "size")
  <2>1. Counting(j)'
    BY <1>3 DEF Moves, Counting, Is
  <2>. QED  BY <2>1 DEF LongInv
<1>4. CASE job[j].kind = "init" /\ Len(job[j].list) <= QueueSize
  <2>1. CASE queue # <<>>
    BY <1>2, <1>4, <2>1 DEF LongInv
  <2>2. CASE queue = <<>>
    <3>1. queue' = job[j].list
      BY <1>1, <1>2, <2>2, ConcatEmptySeq
    <3>2. Len(queue') <= MaxSize
      BY <1>1, <1>4, <3>1, SomePages, Room
    <3>. QED  BY <1>1, <3>1, <3>2, Room DEF LongInv
  <2>. QED  BY <2>1, <2>2
<1>. QED  BY <1>1, <1>3, <1>4

LEMMA SizeLong == ASSUME Typed, Typed', LongInv, NEW j \in Jobs, Size(j) PROVE LongInv'
<1>1. queue' = queue
  BY DEF Size
<1>2. Len(queue) \in Nat /\ MaxSize \in Nat
  BY LenProperties, Room DEF Typed, RestOK
<1>3. CASE Len(queue) <= MaxSize
  BY <1>1, <1>2, <1>3 DEF LongInv
<1>4. CASE Is(j, "refill", "size") /\ Moves(j, "trim") /\ job'[j].excess = Len(queue) - MaxSize
  <2>1. Is(j, "refill", "trim")'
    BY <1>4 DEF Moves, Is
  <2>2. (job[j].excess >= Len(queue) - MaxSize)'
    BY <1>1, <1>2, <1>4
  <2>3. Trimming(j)'
    BY <2>1, <2>2 DEF Trimming
  <2>. QED  BY <2>3 DEF LongInv
<1>. QED  BY <1>3, <1>4, SizeJob

\* What the job takes off is enough, or another is still to take off as much.
LEMMA TrimLong == ASSUME Typed, Typed', LongInv, NEW j \in Jobs, Trim(j) PROVE LongInv'
<1>1. /\ Is(j, "refill", "trim") /\ Leaves(j) /\ job[j].excess \in Nat
      /\ queue' = From(queue, job[j].excess + 1) /\ flooded' = flooded
  BY TrimJob DEF Trim
<1>2. Len(queue) \in Nat /\ MaxSize \in Nat /\ queue \in Seq(Tweets)
  BY LenProperties, Room DEF Typed, RestOK
<1>3. /\ Len(queue') \in Nat /\ Len(queue') <= Len(queue)
      /\ job[j].excess >= Len(queue) - MaxSize => Len(queue') <= MaxSize
  BY <1>1, <1>2, FromTyped
<1>4. SUFFICES ASSUME Len(queue') > MaxSize, ~flooded'
               PROVE  \E i \in Jobs : Counting(i)' \/ Trimming(i)'
  BY DEF LongInv
<1>5. PICK i \in Jobs : Counting(i) \/ Trimming(i)
  BY <1>1, <1>2, <1>3, <1>4 DEF LongInv
<1>6. i # j
  BY <1>1, <1>2, <1>3, <1>4, <1>5 DEF Counting, Trimming, Is
<1>7. job'[i] = job[i]
  BY <1>1, <1>6 DEF Leaves, OnlyJob
<1>8. CASE Counting(i)
  BY <1>7, <1>8 DEF Counting, Is
<1>9. CASE Trimming(i)
  <2>1. job[i].excess \in Nat
    BY <1>9, JobTyped DEF Trimming, Is, Typed
  <2>2. job[i].excess >= Len(queue') - MaxSize
    BY <1>2, <1>3, <1>9, <2>1 DEF Trimming
  <2>. QED  BY <1>7, <1>9, <2>2 DEF Trimming, Is
<1>. QED  BY <1>5, <1>8, <1>9

LEMMA JobsLong ==
    ASSUME Typed, Typed', LongInv, NEW j \in Jobs,
           Pick(j) \/ Clear(j) \/ FindOld(j) \/ RemoveOld(j) \/ Fail(j)
    PROVE  LongInv'
<1>1. Len(queue) \in Nat
  BY LenProperties DEF Typed, RestOK
<1>2. CASE Pick(j)
  <2>1. /\ OnlyJob(j) /\ Len(queue') <= Len(queue) /\ flooded' = flooded
        /\ job[j].at = "waiting"
    <3>1. OnlyJob(j)
      BY <1>2, PickJob DEF Leaves, Moves
    <3>2. queue' = queue /\ flooded' = flooded /\ job[j].at = "waiting"
      BY <1>2 DEF Pick, Is
    <3>. QED  BY <1>1, <3>1, <3>2
  <2>. QED  BY <2>1, LongSame DEF OnlyJob, Is
<1>3. CASE Clear(j)
  <2>1. OnlyJob(j) /\ Len(queue') <= Len(queue) /\ flooded' = flooded /\ job[j].at = "clear"
    BY <1>1, <1>3, ClearJob, EmptySeq DEF Clear, Moves, Is
  <2>. QED  BY <2>1, LongSame DEF OnlyJob, Is
<1>4. CASE FindOld(j)
  <2>1. /\ OnlyJob(j) /\ Len(queue') <= Len(queue) /\ flooded' = flooded
        /\ job[j].kind = "cleanup"
    <3>1. OnlyJob(j) /\ job[j].kind = "cleanup"
      BY <1>4, FindOldJob
    <3>2. queue' = queue /\ flooded' = flooded
      BY <1>4 DEF FindOld, history
    <3>. QED  BY <1>1, <3>1, <3>2
  <2>. QED  BY <2>1, LongSame DEF OnlyJob, Is
<1>5. CASE RemoveOld(j)
  <2>1. /\ OnlyJob(j) /\ Len(queue') <= Len(queue) /\ flooded' = flooded
        /\ job[j].kind = "cleanup"
    <3>1. OnlyJob(j) /\ job[j].kind = "cleanup" /\ Len(queue') <= Len(queue)
      BY <1>5, RemoveOldJob DEF Leaves, Is
    <3>2. flooded' = flooded
      BY <1>5 DEF RemoveOld
    <3>. QED  BY <3>1, <3>2
  <2>. QED  BY <2>1, LongSame DEF OnlyJob, Is
<1>6. CASE Fail(j)
  <2>1. /\ OnlyJob(j) /\ Len(queue') <= Len(queue)
        /\ flooded' = (flooded \/ job[j].at \in {"size", "trim"})
    <3>1. OnlyJob(j)
      BY <1>6, FailJob DEF Leaves, Moves
    <3>2. queue' = queue /\ flooded' = (flooded \/ job[j].at \in {"size", "trim"})
      BY <1>6 DEF Fail
    <3>. QED  BY <1>1, <3>1, <3>2
  <2>2. \A i \in Jobs : Is(i, "refill", "size") \/ Is(i, "refill", "trim") =>
            flooded' \/ job'[i] = job[i]
    BY <2>1 DEF OnlyJob, Is
  <2>3. flooded => flooded'
    BY <2>1
  <2>. QED  BY <2>1, <2>2, <2>3, LongSame
<1>. QED  BY <1>2, <1>3, <1>4, <1>5, <1>6

LEMMA LongStep == ASSUME Typed, LongInv, [Next]_vars PROVE LongInv'
<1>1. Typed'
  BY TypedStep
<1>2. ASSUME queue' = queue, flooded' = flooded, \A j \in Jobs : job[j] # Idle => job'[j] = job[j]
      PROVE  LongInv'
  <2>1. Len(queue') <= Len(queue)
    BY <1>2, LenProperties DEF Typed, RestOK
  <2>. QED  BY <1>1, <1>2, <2>1, LongSame DEF Is
<1>3. CASE AssignInterests
  BY <1>2, <1>3, AssignJoins, JoinsLong DEF AssignInterests, history
<1>4. CASE Nightly
  <2>1. Joins("cleanup")
    BY <1>4, QueuedJoins DEF Nightly, Typed
  <2>. QED  BY <1>2, <1>4, <2>1, JoinsLong DEF Nightly, history
<1>5. ASSUME NEW t \in Tweets, Refuse(t) \/ Accept(t) \/ Ages(t) PROVE LongInv'
  BY <1>2, <1>5 DEF Refuse, Accept, Ages, history
<1>6. CASE UNCHANGED vars
  BY <1>2, <1>6 DEF vars, history
<1>. QED  BY <1>1, <1>3, <1>4, <1>5, <1>6, RequestsLong, PushLong, SizeLong, TrimLong, JobsLong DEF Next

\* The list is bounded: whenever it is longer than MaxSize a job is about to
\* count it, or to take off at least what is too much, for any number of jobs
\* that push and trim at the same time; the exceptions are on record.
THEOREM TrimmedSoon == Spec => []TooLongForNow
<1>1. Init => LongInv
  BY EmptySeq, Room DEF Init, LongInv
<1>2. Typed /\ LongInv /\ [Next]_vars => LongInv'
  BY LongStep
<1>3. LongInv => TooLongForNow
  BY DEF LongInv, TooLongForNow, Counting, Trimming
<1>. QED  BY <1>1, <1>2, <1>3, TypedHolds, PTL DEF Spec

-----------------------------------------------------------------------------
(* A filling is under way. *)

LEMMA FillSame ==
    ASSUME FillInv, queue' = queue, cursor' = cursor, interests' = interests,
           starved => starved', shifted => shifted',
           AnyFilling => AnyFilling' \/ starved',
           Answering => Answering' \/ AnyFilling' \/ starved'
    PROVE  FillInv'
BY DEF FillInv, Empty, AtEnd

\* A filling is under way again: whatever else changes, that is enough.
LEMMA FillAny == ASSUME AnyFilling' \/ starved' PROVE FillInv'
BY DEF FillInv

LEMMA JoinsFill ==
    ASSUME NEW kind, Joins(kind)
    PROVE  /\ AnyFilling => AnyFilling'
           /\ kind \in {"init", "refill"} => AnyFilling'
BY DEF Joins, OnlyJob, AnyFilling, Filling

LEMMA OthersFill ==
    ASSUME NEW j \in Jobs, OnlyJob(j), ~Filling(j), AnyFilling PROVE AnyFilling'
BY DEF OnlyJob, AnyFilling, Filling

LEMMA OthersAnswer ==
    ASSUME NEW r \in Requests, OnlyReq(r), ~At(r, "answer"), Answering PROVE Answering'
BY DEF OnlyReq, Answering, At

LEMMA RequestsFill ==
    ASSUME Typed, FillInv, NEW r \in Requests,
           \/ \E n \in Limits : Open(r, n)
           \/ CreateCursor(r) \/ Fetch(r) \/ Fallback(r) \/ Save(r) \/ Answer(r) \/ Stop(r)
    PROVE  FillInv'
<1>1. ASSUME NEW n \in Limits, Open(r, n) PROVE FillInv'
  <2>1. OnlyReq(r) /\ ~At(r, "answer")
    BY <1>1, OpenReq DEF At
  <2>2. Answering => Answering'
    BY <2>1, OthersAnswer
  <2>3. AnyFilling => AnyFilling'
    BY <1>1 DEF Open, AnyFilling, Filling
  <2>. QED  BY <1>1, <2>2, <2>3, FillSame DEF Open, tastes, history
<1>2. CASE CreateCursor(r)
  <2>1. queue' = queue /\ cursor' = 0 /\ interests' = interests /\ job' = job /\ starved' = starved
    BY <1>2 DEF CreateCursor, tastes, history
  <2>2. AnyFilling => AnyFilling'
    BY <2>1 DEF AnyFilling, Filling
  <2>3. ~Empty' => ~AtEnd'
    BY <2>1, EmptySeq, NoneIsNothing DEF Empty, AtEnd, Typed, RestOK
  <2>. QED  BY <2>1, <2>2, <2>3 DEF FillInv, Empty
<1>3. CASE Fetch(r)
  <2>1. OnlyReq(r) /\ ~At(r, "answer")
    BY <1>3, FetchReq DEF At
  <2>2. Answering => Answering'
    BY <2>1, OthersAnswer
  <2>3. AnyFilling => AnyFilling'
    BY <1>3 DEF Fetch, AnyFilling, Filling
  <2>. QED  BY <1>3, <2>2, <2>3, FillSame DEF Fetch, tastes, history
<1>4. CASE Fallback(r)
  <2>1. OnlyReq(r) /\ ~At(r, "answer")
    BY <1>4, EndsIdle DEF Fallback, Typed, At
  <2>2. Answering => Answering'
    BY <2>1, OthersAnswer
  <2>3. CASE job' \in Queued(job, "init", QueueSize)
    BY <2>3, QueuedJoins, JoinsFill, FillAny, SomePages DEF Typed
  <2>4. CASE starved' = TRUE
    BY <2>4, FillAny
  <2>5. CASE interests /\ UNCHANGED <<interests, job, starved>>
    <3>1. AnyFilling => AnyFilling'
      BY <2>5 DEF AnyFilling, Filling
    <3>2. queue' = queue /\ cursor' = cursor /\ shifted' = shifted
      BY <1>4 DEF Fallback
    <3>. QED  BY <2>2, <2>5, <3>1, <3>2, FillSame
  <2>. QED  BY <1>4, <2>3, <2>4, <2>5 DEF Fallback
<1>5. CASE Save(r)
  <2>1. queue' = queue /\ interests' = interests /\ job' = job /\ starved' = starved
    BY <1>5 DEF Save, tastes, history
  <2>2. AnyFilling => AnyFilling'
    BY <2>1 DEF AnyFilling, Filling
  <2>3. Answering'
    BY <1>5, NotIdle, GoesOn DEF Save, Typed, Proceeds, Answering, At
  <2>. QED  BY <2>1, <2>2, <2>3 DEF FillInv, Empty
<1>6. CASE Answer(r)
  <2>1. CASE starved' = TRUE
    BY <2>1, FillAny
  <2>2. CASE job' \in Queued(job, "refill", IF req[r].limit > Batch THEN req[r].limit ELSE Batch)
    <3>1. (IF req[r].limit > Batch THEN req[r].limit ELSE Batch) \in Nat
      BY <1>6, NotIdle, ReqTyped, SomePages DEF Answer, Typed
    <3>2. Joins("refill")
      BY <2>2, <3>1, QueuedJoins DEF Typed
    <3>. QED  BY <3>2, JoinsFill, FillAny
  <2>. QED  BY <1>6, <2>1, <2>2 DEF Answer
<1>7. CASE Stop(r)
  <2>1. CASE At(r, "answer")
    BY <1>7, <2>1, FillAny DEF Stop
  <2>2. CASE ~At(r, "answer")
    <3>1. Answering => Answering'
      BY <1>7, <2>2, EndsIdle, OthersAnswer DEF Stop, Typed
    <3>2. /\ queue' = queue /\ cursor' = cursor /\ interests' = interests /\ job' = job
          /\ (starved => starved') /\ (shifted => shifted')
      BY <1>7 DEF Stop, tastes
    <3>3. AnyFilling => AnyFilling'
      BY <3>2 DEF AnyFilling, Filling
    <3>. QED  BY <3>1, <3>2, <3>3, FillSame
  <2>. QED  BY <2>1, <2>2
<1>. QED  BY <1>1, <1>2, <1>3, <1>4, <1>5, <1>6, <1>7

\* What is taken off leaves nothing, or is under a reader, or lies behind the
\* position of nobody.
LEMMA TakenFill ==
    ASSUME Typed', FillInv, cursor' = cursor, starved' = (starved \/ queue' = <<>>),
           shifted' \/ ~Reading
    PROVE  FillInv'
<1>1. ~starved' => ~Empty'
  BY DEF Empty
<1>2. ~Empty' /\ ~shifted' => ~AtEnd'
  <2>1. (queue \in Seq(Tweets))'
    BY DEF Typed, RestOK
  <2>. QED  BY <2>1, EmptySeq, NoneIsNothing DEF Empty, AtEnd, Reading
<1>. QED  BY <1>1, <1>2 DEF FillInv

LEMMA JobsFill ==
    ASSUME Typed, Typed', ReadInv, FillInv, NEW j \in Jobs,
           \/ Pick(j) \/ Clear(j) \/ Push(j) \/ Size(j) \/ Trim(j)
           \/ FindOld(j) \/ RemoveOld(j) \/ Fail(j)
    PROVE  FillInv'
<1>1. CASE Pick(j)
  <2>1. \/ starved' = TRUE
        \/ (Moves(j, "clear") \/ Moves(j, "push")) /\ job[j].kind \in {"init", "refill"}
    BY <1>1, PickJob DEF Is
  <2>2. Moves(j, "clear") \/ Moves(j, "push") => AnyFilling' \/ job[j].kind \notin {"init", "refill"}
    BY DEF Moves, AnyFilling, Filling
  <2>. QED  BY <2>1, <2>2, FillAny
<1>2. CASE Clear(j)
  <2>1. Moves(j, "push") /\ job[j].kind = "init"
    BY <1>2, ClearJob DEF Is
  <2>2. AnyFilling'
    BY <2>1 DEF Moves, AnyFilling, Filling
  <2>. QED  BY <2>2, FillAny
<1>3. CASE Push(j)
  <2>1. /\ queue' = queue \o job[j].list /\ cursor' = cursor /\ shifted' = shifted
        /\ job[j].list \in Seq(Tweets) /\ Len(job[j].list) \in Nat \ {0}
        /\ queue \in Seq(Tweets)
    BY <1>3, PushJob DEF Push, Typed, RestOK
  <2>2. Len(queue) \in Nat /\ Len(queue') = Len(queue) + Len(job[j].list)
    BY <2>1, LenProperties, ConcatProperties
  <2>3. ~Empty'
    BY <2>1, <2>2, EmptySeq DEF Empty
  <2>4. ~shifted' => ~AtEnd'
    <3>1. SUFFICES ASSUME ~shifted, cursor # None PROVE ~(cursor >= Len(queue'))
      BY <2>1 DEF AtEnd
    <3>2. cursor <= Len(queue) /\ cursor \in Nat
      BY <3>1 DEF ReadInv, CursorOK, Covered, Typed, RestOK
    <3>. QED  BY <2>1, <2>2, <3>2
  <2>. QED  BY <2>3, <2>4 DEF FillInv
<1>4. CASE Size(j)
  <2>1. OnlyJob(j) /\ ~Filling(j)
    BY <1>4, SizeJob DEF Leaves, Moves, Is, Filling
  <2>2. /\ queue' = queue /\ cursor' = cursor /\ interests' = interests /\ req' = req
        /\ starved' = starved /\ shifted' = shifted
    BY <1>4 DEF Size, tastes, history
  <2>3. Answering => Answering'
    BY <2>2 DEF Answering, At
  <2>. QED  BY <2>1, <2>2, <2>3, OthersFill, FillSame
<1>5. CASE Trim(j)
  BY <1>5, TakenFill DEF Trim
<1>6. CASE FindOld(j)
  <2>1. OnlyJob(j) /\ ~Filling(j)
    BY <1>6, FindOldJob DEF Filling
  <2>2. /\ queue' = queue /\ cursor' = cursor /\ interests' = interests /\ req' = req
        /\ starved' = starved /\ shifted' = shifted
    BY <1>6 DEF FindOld, tastes, history
  <2>3. Answering => Answering'
    BY <2>2 DEF Answering, At
  <2>. QED  BY <2>1, <2>2, <2>3, OthersFill, FillSame
<1>7. CASE RemoveOld(j)
  <2>1. CASE queue' # queue
    BY <1>7, <2>1, TakenFill DEF RemoveOld
  <2>2. CASE queue' = queue
    <3>1. OnlyJob(j) /\ ~Filling(j)
      BY <1>7, RemoveOldJob DEF Leaves, Is, Filling
    <3>2. /\ queue' = queue /\ cursor' = cursor /\ interests' = interests /\ req' = req
          /\ (starved => starved') /\ (shifted => shifted')
      BY <1>7, <2>2 DEF RemoveOld, tastes
    <3>3. Answering => Answering'
      BY <3>2 DEF Answering, At
    <3>. QED  BY <3>1, <3>2, <3>3, OthersFill, FillSame
  <2>. QED  BY <2>1, <2>2
<1>8. CASE Fail(j)
  <2>1. /\ queue' = queue /\ cursor' = cursor /\ interests' = interests /\ req' = req
        /\ shifted' = shifted
    BY <1>8 DEF Fail, tastes
  <2>2. Answering => Answering'
    BY <2>1 DEF Answering, At
  <2>3. (starved => starved') /\ (AnyFilling => AnyFilling' \/ starved')
    <3>1. CASE Leaves(j) /\ starved' = (starved \/ job[j].kind # "cleanup")
      <4>1. CASE Filling(j)
        BY <3>1, <4>1 DEF Filling
      <4>2. CASE ~Filling(j)
        BY <3>1, <4>2, OthersFill DEF Leaves
      <4>. QED  BY <4>1, <4>2
    <3>2. CASE Moves(j, "waiting") /\ starved' = starved
      <4>1. CASE Filling(j)
        <5>1. Filling(j)'
          BY <3>2, <4>1 DEF Moves, Filling
        <5>. QED  BY <3>2, <5>1 DEF AnyFilling
      <4>2. CASE ~Filling(j)
        BY <3>2, <4>2, OthersFill DEF Moves
      <4>. QED  BY <4>1, <4>2
    <3>. QED  BY <1>8, <3>1, <3>2, FailJob
  <2>. QED  BY <2>1, <2>2, <2>3, FillSame
<1>. QED  BY <1>1, <1>2, <1>3, <1>4, <1>5, <1>6, <1>7, <1>8

LEMMA FillStep == ASSUME Typed, ReadInv, FillInv, [Next]_vars PROVE FillInv'
<1>1. Typed'
  BY TypedStep
<1>2. ASSUME queue' = queue, cursor' = cursor, interests' = interests, req' = req,
             starved' = starved, shifted' = shifted, AnyFilling => AnyFilling'
      PROVE  FillInv'
  <2>1. Answering => Answering'
    BY <1>2 DEF Answering, At
  <2>. QED  BY <1>2, <2>1, FillSame
<1>3. CASE AssignInterests
  BY <1>3, AssignJoins, JoinsFill, FillAny
<1>4. CASE Nightly
  <2>1. Joins("cleanup")
    BY <1>4, QueuedJoins DEF Nightly, Typed
  <2>2. AnyFilling => AnyFilling'
    BY <2>1, JoinsFill
  <2>. QED  BY <1>2, <1>4, <2>2 DEF Nightly, tastes, history
<1>5. ASSUME NEW t \in Tweets, Refuse(t) \/ Accept(t) \/ Ages(t) PROVE FillInv'
  <2>1. AnyFilling => AnyFilling'
    BY <1>5 DEF Refuse, Accept, Ages, AnyFilling, Filling
  <2>. QED  BY <1>2, <1>5, <2>1 DEF Refuse, Accept, Ages, history
<1>6. CASE UNCHANGED vars
  <2>1. AnyFilling => AnyFilling'
    BY <1>6 DEF vars, AnyFilling, Filling
  <2>. QED  BY <1>2, <1>6, <2>1 DEF vars, tastes, history
<1>. QED  BY <1>1, <1>3, <1>4, <1>5, <1>6, RequestsFill, JobsFill DEF Next

\* A reader gets stuck at the end of the list, with nothing under way that would
\* make it longer, only after a filling was lost, found nothing or was removed
\* whole, or something was taken off under the reader: otherwise each way of
\* getting there has queued a filling that is not done.
THEOREM StuckHasAReason == Spec => []StuckForAReason
<1>1. Init => FillInv
  BY DEF Init, FillInv, AtEnd
<1>2. Typed /\ ReadInv /\ FillInv /\ [Next]_vars => FillInv'
  BY FillStep
<1>3. FillInv => StuckForAReason
  <2>1. Stuck => interests /\ AtEnd /\ ~AnyFilling /\ ~Answering
    BY DEF Stuck, AtEnd, AnyFilling, Filling, Answering, At, Idle
  <2>. QED  BY <2>1 DEF FillInv, StuckForAReason
<1>. QED  BY <1>1, <1>2, <1>3, TypedHolds, ReadHolds, PTL DEF Spec

=============================================================================
