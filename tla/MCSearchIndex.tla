--------------------------- MODULE MCSearchIndex ---------------------------
(* A tweet of the account that may be deleted, and a reply by someone else: *)
(* how the index follows them, the engagement left as it is.                *)
EXTENDS TweetStore
CONSTANTS t1, t2
MCParent == [t \in Tweets |-> IF t = t2 THEN t1 ELSE NoTweet]

MCInit == Init /\ Index!Init
IndexStep == Index!Next /\ UNCHANGED vars
MCSpec == MCInit /\ [][IndexStep]_<<vars, indexing>> /\ Index!Fairness
=============================================================================
