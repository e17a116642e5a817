------------------------------- MODULE MCFeed -------------------------------
(* One worker and the watcher, two topics that share one torrent.          *)
EXTENDS Feed

CONSTANTS d1, d2

MCDeliveries == {d1, d2}
MCHashOf == [d \in MCDeliveries |-> "h"]
=============================================================================
