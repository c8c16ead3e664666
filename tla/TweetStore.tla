------------------------------ MODULE TweetStore ------------------------------
(***************************************************************************)
(* Where tweets are kept: in the tables (TweetEngagement: what counts and  *)
(* refers to them), and once more in the search index, which follows the   *)
(* tables by jobs and a log (SearchIndex).  The second needs of the first  *)
(* only that a row comes, changes and goes, so that each is a              *)
(* specification of its own.                                               *)
(***************************************************************************)
EXTENDS TweetEngagement

CONSTANTS
    Parent, Indexed, Owned, MaxHandlers, MaxJobs, Attempts, BatchSize, MaxVersion

VARIABLES row, born, owner, log, doc, docParent, todo, begun, job, cron, astray

indexing == <<row, born, owner, log, doc, docParent, todo, begun, job, cron, astray>>

Index == INSTANCE SearchIndex WITH Seed <- Indexed, MaxRequests <- MaxHandlers, task <- todo

ASSUME ProperIndex ==
    /\ Index!ParentIsFunction /\ Index!OwnedAreTweets /\ Index!SeedIsThread
    /\ Index!SomeRequests /\ Index!SomeJobs /\ Index!SomeAttempts
    /\ Index!SomeBatch /\ Index!SomeVersions

\* A document shows its row when nothing is under way about it and nothing went wrong.
IndexCaughtUp == Index!IndexCaughtUp
\* A change shows, and what is deleted goes, sooner or later.
IndexFollows == Index!IndexFollows
=============================================================================
