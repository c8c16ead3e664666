------------------------------- MODULE MCTrends -------------------------------
(* Two hashtags in either order, and a tweet without any.                     *)
EXTENDS Trends, TLC
CONSTANTS a, b, t1, t2, t3
MCTagsOf == t1 :> <<a, b>> @@ t2 :> <<b, a>> @@ t3 :> <<>>
MCTopicsOf == a :> {"Sports"} @@ b :> {}
Symmetry == Permutations(Requests) \cup Permutations(Jobs) \cup Permutations(Runs)

\* Bounds: two requests and no trends; or the trends of posts that are rolled
\* back once their jobs are queued, two jobs and calculations at a time, and no
\* calculation during a retry; or a post or a deletion, a job at its first
\* attempt and a calculation, one after the other.
Busy == {r \in Requests : req[r] # Idle}
Queued == {j \in Jobs : job[j] # Free}
Running == {k \in Runs : run[k] # Idle}
Posting == Queued \cup Running = {} /\ now = 1 /\ last = [h \in Tags |-> 0]
Trending ==
    /\ rows = {} /\ Cardinality(Busy) <= 1
    /\ \A r \in Busy : At(r, "queue") \/ (At(r, "tags") /\ req[r].took = {})
    /\ Cardinality(Queued) + Cardinality(Running) + Cardinality({r \in Busy : At(r, "queue")}) <= 2
    /\ (\E j \in Queued : job[j].left < Attempts) => Running = {}
Showing ==
    /\ now = 1
    /\ Cardinality(Busy) + Cardinality(Queued) + Cardinality(Running) <= 1
    /\ (\A r \in Busy : req[r].op # "edit") /\ (\A j \in Queued : job[j].left = Attempts)
Bounds == Posting \/ Trending \/ Showing
===============================================================================
