--------------------------- MODULE TorrentClient ----------------------------
(***************************************************************************)
(* What the torrent clients do with the calls of the delivery path, plugin *)
(* by plugin (internal/plugins/clients).  A torrent is the record below; a *)
(* call that fails may still have taken effect ("lost": the answer was).   *)
(***************************************************************************)
EXTENDS Naturals, FiniteSets

CONSTANTS
    Files,          \* content files, each a path with its size
    FolderNames,    \* top folder names
    NoRoot,         \* "the client puts the files in no folder"
    None

ASSUME ClientAssumption == NoRoot \notin FolderNames

Plugins == {"qbittorrent", "transmission", "deluge", "utorrent", "downloadfolder"}

(***************************************************************************)
(* listed  the client answers questions about it (qBittorrent adds later)  *)
(* run     started;  flag: Deluge's cached paused flag                     *)
(* busy    "add" right after a paused add, "recheck" while verifying: not  *)
(*         reported as stopped                                             *)
(* skip    files not to download;  data: bytes on disk                     *)
(* root    top folder, toRoot: a rename accepted but not done yet          *)
(* renamed, checked: the folder was renamed, its data verified since       *)
(***************************************************************************)
Torrent == [listed: BOOLEAN, run: BOOLEAN, flag: BOOLEAN,
            busy: {"no", "add", "recheck"}, skip: SUBSET Files,
            data: BOOLEAN, root: FolderNames \cup {NoRoot},
            toRoot: FolderNames \cup {NoRoot},
            renamed: BOOLEAN, checked: BOOLEAN]

ASSUME NoneAssumption == None \notin Torrent

\* Which plugins implement registry.WithFileSelection and WithRename.
CanSelect(k) == k \in {"qbittorrent", "transmission", "deluge"}
CanRename(k) == k \in {"qbittorrent", "transmission", "deluge"}

\* Which plugins implement registry.WithRemoval.
CanRemove(k) == k # "downloadfolder"

----------------------------------------------------------------------------
(* Add: "ok", "error" (nothing done) or "lost" (done, reported failed).    *)

Attempt == {"ok", "error", "lost"}

\* A rejected duplicate is a success if the presence probe sees the torrent;
\* the probe itself may fail.
QbitAdd(present) == IF present THEN {"ok", "error"} ELSE Attempt

TransmissionAdd(present) == IF present THEN {"ok", "error"} ELSE Attempt

\* Deluge raises for a torrent it has; the plugin hands the error on.
DelugeAdd(present) == IF present THEN {"error"} ELSE Attempt

UTorrentAdd(present) == IF present THEN {"ok", "error"} ELSE Attempt

\* Writing the same file again.
FolderAdd(present) == IF present THEN {"ok", "error"} ELSE Attempt

AddOutcomes(k, present) ==
    CASE k = "qbittorrent"    -> QbitAdd(present)
      [] k = "transmission"   -> TransmissionAdd(present)
      [] k = "deluge"         -> DelugeAdd(present)
      [] k = "utorrent"       -> UTorrentAdd(present)
      [] k = "downloadfolder" -> FolderAdd(present)

\* A new torrent.  uTorrent and the download folder ignore Paused.
Added(k, paused, root) ==
    LET held == paused /\ CanSelect(k) IN
    [listed |-> k # "qbittorrent", run |-> ~held, flag |-> held,
     busy |-> IF held THEN "add" ELSE "no", skip |-> {}, data |-> FALSE,
     root |-> root, toRoot |-> root, renamed |-> FALSE, checked |-> FALSE]

----------------------------------------------------------------------------
(* The calls after Add.                                                    *)

\* qBittorrent answers 404, the plugin an empty list, until it is added.
HasFiles(t) == t # None /\ t.listed

Skipped(t, files) == [t EXCEPT !.skip = @ \cup files]

\* A start is lost on a torrent qBittorrent has not added or is checking.
Started(k, t) ==
    IF ~t.listed \/ (k = "qbittorrent" /\ t.busy = "recheck")
    THEN t ELSE [t EXCEPT !.run = TRUE]

Stopped(t) == [t EXCEPT !.run = FALSE, !.flag = TRUE]

\* DiskState's two answers, and what reading them does to Deluge's flag.
ReportsStopped(t) == ~t.run /\ t.busy = "no"
Read(t) == [t EXCEPT !.flag = ~t.run]

\* qBittorrent accepts a rename and moves the files afterwards.
Renaming(k, t, want) ==
    IF k = "qbittorrent"
    THEN [t EXCEPT !.toRoot = want]
    ELSE [t EXCEPT !.root = want, !.toRoot = want, !.renamed = TRUE, !.checked = FALSE]

\* The recheck finds what lies in the folder.  Deluge ends it in the state
\* its cached flag says.
Rechecked(k, t, found) ==
    [t EXCEPT !.checked = TRUE, !.busy = "recheck", !.data = @ \/ found,
              !.run = @ /\ ~(k = "deluge" /\ t.flag)]
=============================================================================
