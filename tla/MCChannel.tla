------------------------------ MODULE MCChannel ------------------------------
EXTENDS Templates, TLC
ChannelSymmetry == Permutations(OaRequests) \cup Permutations(Templates)
                   \cup Permutations(Codes) \cup Permutations(Reviewers)
=============================================================================
