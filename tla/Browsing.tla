------------------------------- MODULE Browsing -------------------------------
(***************************************************************************)
(* What a reader comes upon: lists that are read page by page (Pages), the *)
(* best tweets of a category, which a job keeps (ExploreLists), whom to    *)
(* follow (WhoToFollow), and a conversation in the search, on timelines,   *)
(* profiles and in threads (Reading).  They share no state but the tables, *)
(* of which each takes what it reads, so that each is a specification of   *)
(* its own.                                                                *)
(***************************************************************************)
EXTENDS Pages

CONSTANTS
    Rated, Percent, MaxScore, MaxSize, BatchSize, MaxTouches,
    Users, Me,
    Wanted, Share, Multiplier, Appeals, ByFollowers,
    Tweets, Shapes, None, MaxMeanwhile

VARIABLES
    live, score, recent, best, job, clearing, touches, scored, handled, still, same,
    moves, clean, lowered,
    appeal, follows, refused, deleted, found, advice, at, strangers,
    shape, world, past, req, answer

rating == <<live, score, recent, best, job, clearing, touches, scored, handled, still, same,
            moves, clean, lowered>>
advising == <<appeal, follows, refused, deleted, found, advice, at, strangers>>
reading == <<shape, world, past, req, answer>>

Explored == INSTANCE ExploreLists WITH
    Tweets <- Rated, MaxChanges <- MaxTouches, list <- best, changes <- touches, steady <- still
Advice == INSTANCE WhoToFollow WITH Limit <- Wanted, answer <- advice
Readers == INSTANCE Reading WITH MaxChanges <- MaxMeanwhile

ASSUME ProperLists == Explored!PercentOfTweets /\ Explored!Sizes /\ Explored!FinitelyMany
ASSUME ProperAdvice == Advice!Given
ASSUME ProperReaders == Readers!Given

\* The list of a category is the best of what its last job has scored.
ListsSound == Explored!ListsSound
\* The job misses no more tweets than have moved.
MissesOnePerMove == Explored!MissesOnePerMove
\* What the sources recommend is new to the reader, and said once.
AdviceSound == Advice!AdviceSound
\* Nobody is shown who is blocked or muted, where it is asked.
SilencedHidden == Readers!SilencedHidden
\* What matches is found, and comes with what it is about.
FoundWhole == Readers!FoundWhole
\* The flags of what is shown are those of the reader.
FlagsAgree == Readers!FlagsAgree
=============================================================================
