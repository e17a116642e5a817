---------------------------- MODULE MCTopicCheck ----------------------------
(***************************************************************************)
(* Small instances of TopicCheck: one or two releases, each with a torrent *)
(* of its own.                                                             *)
(***************************************************************************)
EXTENDS TopicCheck, TLC

MCInfohashes == 1..MaxRelease
Distinct == [r \in Releases |-> r]

\* Stamps are interchangeable: nothing but equality looks at them.
StampSymmetry == Permutations(Stamps)
=============================================================================
