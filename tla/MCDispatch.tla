----------------------------- MODULE MCDispatch -----------------------------
(***************************************************************************)
(* A spaced tracker with enough topics to fill the window of a tick, and   *)
(* topics of other trackers.                                               *)
(***************************************************************************)
EXTENDS Dispatch

CONSTANTS SpacedTopics, SharedTopics, TheLane

MCTopics == SpacedTopics \cup SharedTopics
MCLaneOf == [t \in MCTopics |-> IF t \in SpacedTopics THEN TheLane ELSE None]
=============================================================================
