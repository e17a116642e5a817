---------------------------- MODULE MCTopicLive -----------------------------
EXTENDS TopicLive
MCInfohashes == 1..MaxRelease
Distinct == [r \in Releases |-> r]
=============================================================================
