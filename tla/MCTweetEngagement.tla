-------------------------- MODULE MCTweetEngagement --------------------------
EXTENDS TweetEngagement, TLC
CONSTANT t1
MCSeed == {t1}
Symmetry == Permutations(Tweets \ Seed) \cup Permutations(Requests) \cup Permutations(Users)
=============================================================================
