------------------------------ MODULE MCImport ------------------------------
(* Two mirrors of one page.  The instance is saved so that it realigns the     *)
(* topics it finds, so that it imports from another tracker only and keeps its *)
(* key, turned off without a URL, and in a form that is refused.               *)
EXTENDS Import

MCPageOf == [u \in Urls |-> "p"]
\* Of a grab from the second mirror Sonarr's record lacks the info hash.
MCGives == [u \in Urls |-> IF u = "m" THEN {{"title"}} ELSE {{"title", "hash"}}]
MCTrackerOf == [u \in Urls |-> "t"]

MCForm(enabled, url, key, allowed, update) ==
    [enabled |-> enabled, url |-> url, key |-> key, allowed |-> allowed, update |-> update,
     client |-> "c"]
MCPlain == {MCForm(TRUE, TRUE, TRUE, {}, TRUE)}
MCForms == MCPlain \cup {MCForm(TRUE, TRUE, FALSE, {"o"}, FALSE),
                         MCForm(FALSE, FALSE, FALSE, {}, TRUE),
                         MCForm(TRUE, FALSE, TRUE, {}, TRUE)}
MCDefaults == {[replace |-> TRUE, delete |-> TRUE]}

\* The owner turns a shared folder on and, with it, the deletion off.
MCRequests == {[client |-> None, delete |-> FALSE, folder |-> TRUE]}
=============================================================================
