---------------------------- MODULE MCReadIndex ----------------------------
EXTENDS ReadIndex, TLC

CONSTANTS s1, s2, s3

MCVoters == <<Server, {}>>

Perms == Permutations(Server)
=============================================================================
