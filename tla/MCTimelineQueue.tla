--------------------------- MODULE MCTimelineQueue ---------------------------
(* Three tweets, pages of one or two, a list that is trimmed to two.        *)
EXTENDS TimelineQueue, TLC
Symmetry == Permutations(Tweets) \cup Permutations(Requests) \cup Permutations(Jobs)

\* Bounds: two requests overlap while the tastes of the user and the age of the
\* tweets do not matter; or there is one request at a time, and one tweet that
\* grows old or is refused.  Two requests overlap with one job, and a job that
\* has failed overlaps with nothing.  Once one of the things has happened that
\* the properties make exceptions of there are only jobs, until a second has.
Busy == {r \in Requests : req[r] # Idle}
Active == {j \in Jobs : job[j] # Idle}
Count(B) == IF B THEN 1 ELSE 0
Exceptions == Count(shifted) + Count(starved) + Count(flooded)
Tasteless == refused = {} /\ stale = {} /\ \A j \in Active : job[j].kind # "cleanup"
Bounds ==
    /\ Len(queue) <= 4
    /\ Exceptions = 0 \/ (Exceptions = 1 /\ Busy = {})
    /\ \/ Cardinality(Busy) <= 1 /\ Cardinality(refused) + Cardinality(stale) <= 1
       \/ Cardinality(Active) <= 1 /\ Tasteless
    /\ \A j \in Active : job[j].kind # "init" /\ job[j].left < Attempts => Active = {j} /\ Busy = {}
==============================================================================
