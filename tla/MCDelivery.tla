----------------------------- MODULE MCDelivery -----------------------------
(***************************************************************************)
(* Three releases: each keeps the files of the one before and adds one,    *)
(* and each has a folder name of its own.                                  *)
(***************************************************************************)
EXTENDS Delivery

MCManifest == [r \in Releases |-> IF r = 1 THEN {"a"} ELSE IF r = 2 THEN {"a", "b"} ELSE {"a", "b", "c"}]
MCTrackerName == [r \in Releases |-> IF r = 1 THEN "n1" ELSE IF r = 2 THEN "n2" ELSE "n3"]

Setting(p, o, f) ==
    [addPaused |-> p, onlyNew |-> o, episodic |-> FALSE, folder |-> f, replace |-> "no"]
Replacing(s, data) == [s EXCEPT !.replace = data]
Topic(k, o, f) == [kind |-> k, opt |-> o, form |-> f]
Two == <<"torrent", "torrent">>
Three == <<"torrent", "torrent", "torrent">>

\* Only new files on each client, with and without a folder name, replacing
\* the previous version or not; payloads whose list is unknown; clients that
\* cannot select or remove; the plain cases; a policy the API refuses.
MCScenarios ==
    {Topic("qbittorrent", Replacing(Setting(FALSE, TRUE, "keep"), "keep"), Two),
     Topic("deluge", Setting(FALSE, TRUE, "custom"), Three),
     Topic("transmission", Replacing(Setting(TRUE, TRUE, "tracker"), "keep"), Three),
     Topic("transmission", Setting(FALSE, TRUE, "custom"), <<"torrent", "magnet", "torrent">>),
     Topic("deluge", Setting(FALSE, TRUE, "tracker"), <<"torrent", "long", "torrent">>),
     Topic("qbittorrent", Setting(TRUE, FALSE, "custom"), <<"torrent", "v2">>),
     Topic("deluge", Setting(FALSE, FALSE, "keep"), <<"torrent", "single">>),
     Topic("utorrent", Setting(FALSE, TRUE, "custom"), Two),
     Topic("utorrent", Replacing(Setting(FALSE, FALSE, "tracker"), "delete"), Three),
     Topic("deluge", Replacing(Setting(FALSE, TRUE, "tracker"), "delete"), Three),
     Topic("downloadfolder", Replacing(Setting(TRUE, FALSE, "tracker"), "delete"), Two),
     Topic("transmission", [Setting(TRUE, TRUE, "custom") EXCEPT !.episodic = TRUE], Two)}
=============================================================================
