----------------------------- MODULE TopicCheck -----------------------------
(***************************************************************************)
(* One topic of the scheduler: the dispatcher that finds it due, the       *)
(* worker that checks it and hands its releases to the torrent client, and *)
(* the API handlers (reset, recheck, pause, resume, edit, delete) that     *)
(* write the same row while the check runs.  Database, client and tracker  *)
(* calls may fail, and the process may crash, between any two steps.       *)
(*                                                                         *)
(* Topics share no state but the worker queue, so one topic is the whole   *)
(* of a check; the queue and its limits are in module Dispatch.            *)
(***************************************************************************)
EXTENDS TopicRow

CONSTANTS
    Episodic,     \* the tracker delivers per episode (LostFilm)
    Spaced,       \* the tracker wants its checks spaced, so has a lane
    MaxPerTick,   \* SchedulerMaxEpisodesPerTick
    Ops,          \* bound: which of AllOps happen in this instance
    Infohashes,   \* torrents
    Torrent,      \* the torrent of each release; two may share one
    Clients,      \* what clients there are
    None

ASSUME FlagsAssumption == Episodic \in BOOLEAN /\ Spaced \in BOOLEAN
AllOps == {"recheck", "pause", "delete", "edit", "reset", "crash"}
ASSUME OpsAssumption == Ops \subseteq AllOps
ASSUME MaxPerTickAssumption == MaxPerTick \in Nat \ {0}
ASSUME NoneAssumption == None \notin Infohashes /\ None \notin [row : RowType, overtaken : BOOLEAN]
ASSUME TorrentAssumption == Torrent \in [Releases -> Infohashes]

\* A client takes a torrent it holds once more, or raises an error (Deluge).
ASSUME ClientsAssumption == Clients \subseteq {"takes", "raises"}

VARIABLES
    row,        \* the topic's row
    due,        \* next_check_at <= now()
    published,  \* how many releases the tracker lists
    disp,       \* dispatchOnce: [pc, excluded, snap]
    inflight,   \* the topic is in Scheduler.inflight
    job,        \* the snapshot in Scheduler.jobs or in the lane
    w,          \* the goroutine running runCheck
    torrents,   \* torrents of the topic in the client
    client,     \* the client, which stays the same
    rows,       \* infohashes in topic_deliveries
    reset,      \* the Reset handler: [pc, hit]
    edit,       \* the extra blob the Update handler read, or None
    hist        \* history: what the properties speak about

dbVars == <<row, due, rows>>
schedVars == <<disp, inflight, job>>
worldVars == <<published, torrents, client>>
handlerVars == <<reset, edit>>
vars == <<dbVars, schedVars, worldVars, handlerVars, w, hist>>

-----------------------------------------------------------------------------
\* A snapshot remembers whether a reset completed since it was read.
Snap(r) == [row |-> r, overtaken |-> FALSE]
Snaps == [row : RowType, overtaken : BOOLEAN]
Overtake(s) == IF s = None THEN None ELSE [s EXCEPT !.overtaken = TRUE]

\* The snapshots in use, the stamps they and the row hold, and those now()
\* can therefore return.
Holders == {disp.snap, job, w.snap} \ {None}
HeldStamps ==
    LET held == {row} \cup {s.row : s \in Holders}
    IN  {r.next : r \in held} \cup {r.checked : r \in held}
Fresh == Stamps \ HeldStamps

IdleDisp == [pc |-> "idle", excluded |-> FALSE, snap |-> None]
IdleReset == [pc |-> "idle", hit |-> {}]
IdleWorker ==
    [pc |-> "idle", snap |-> None, hash |-> NoHash, pending |-> {},
     prior |-> {}, payload |-> None, got |-> {}, told |-> FALSE,
     failed |-> FALSE, blind |-> FALSE]

\* owed: a check that delivered something recorded its hash since the last
\* reset.  seen: episodes marked by a notify-only check, never downloaded.
\* hurt: what went wrong that only another reset repairs.
NoHist == [owed |-> FALSE, seen |-> {}, hurt |-> {}]

Init ==
    /\ \E s \in Stamps, m \in Modes :
          row = [checked |-> Unset, next |-> s, hash |-> NoHash, done |-> {},
                 status |-> "active", failing |-> FALSE, mode |-> m]
    /\ due = TRUE
    /\ published = 1
    /\ disp = IdleDisp /\ inflight = FALSE /\ job = None /\ w = IdleWorker
    /\ torrents = {} /\ client \in Clients /\ rows = {}
    /\ reset = IdleReset /\ edit = None
    /\ hist = NoHist
-----------------------------------------------------------------------------
(* dispatchOnce *)

\* inflightIDs: the exclusion list, read before the query.
DispatchExclude ==
    /\ disp.pc = "idle"
    /\ disp' = [disp EXCEPT !.pc = "query", !.excluded = inflight]
    /\ UNCHANGED <<dbVars, inflight, job, worldVars, handlerVars, w, hist>>

\* Mutant: the query forgets the exclusion list.
DispatchQueryNoExclusion ==
    /\ disp.pc = "query"
    /\ disp' = IF Scheduled(row) /\ due
               THEN [disp EXCEPT !.pc = "store", !.snap = Snap(row)]
               ELSE IdleDisp
    /\ UNCHANGED <<dbVars, inflight, job, worldVars, handlerVars, w, hist>>

\* DueForCheck
DispatchQuery ==
    /\ disp.pc = "query"
    /\ disp' = IF Scheduled(row) /\ due /\ ~disp.excluded
               THEN [disp EXCEPT !.pc = "store", !.snap = Snap(row)]
               ELSE IdleDisp
    /\ UNCHANGED <<dbVars, inflight, job, worldVars, handlerVars, w, hist>>

\* The loop body: inflight.LoadOrStore, then the lane or the jobs channel.
DispatchStore ==
    /\ disp.pc = "store"
    /\ disp' = IdleDisp
    /\ IF inflight
       THEN UNCHANGED <<inflight, job>>
       ELSE inflight' = TRUE /\ job' = disp.snap
    /\ UNCHANGED <<dbVars, worldVars, handlerVars, w, hist>>

\* Mutant: the mark stays although nothing was queued.
DispatchFullKeepsMark ==
    /\ disp.pc = "store" /\ ~Spaced
    /\ disp' = IdleDisp
    /\ inflight' = TRUE
    /\ UNCHANGED <<dbVars, job, worldVars, handlerVars, w, hist>>

\* The channel is full of other topics: the mark is taken back.  A spaced
\* tracker's lane is unbounded.
DispatchFull ==
    /\ disp.pc = "store" /\ ~Spaced
    /\ disp' = IdleDisp
    /\ UNCHANGED <<dbVars, inflight, job, worldVars, handlerVars, w, hist>>

Dispatch == DispatchExclude \/ DispatchQuery \/ DispatchStore
-----------------------------------------------------------------------------
(* runCheck *)

Worker(pc) == w.pc = pc
Quiet == UNCHANGED <<schedVars, handlerVars>>

\* The check fails: runCheck records the error and keeps the old hash.
FailCheck == w' = [w EXCEPT !.pc = "record", !.failed = TRUE]

\* Mutant: the worker holds on to the snapshot of a finished check.
ReturnedKeepsSnapshot == [w EXCEPT !.pc = "done"]

\* runCheck returns: its variables are gone.
Returned == [IdleWorker EXCEPT !.pc = "done"]

\* Receive from the queue.
Take ==
    /\ Worker("idle") /\ job # None
    /\ w' = [IdleWorker EXCEPT !.pc = IF Spaced THEN "turn" ELSE "check",
                               !.snap = job]
    /\ job' = None
    /\ UNCHANGED <<dbVars, disp, inflight, worldVars, handlerVars, hist>>

\* awaitCheckTurn of a spaced tracker: the wait is over, the row re-read.
AwaitTurn ==
    /\ Worker("turn")
    /\ w' = IF Scheduled(row)
            THEN [w EXCEPT !.pc = "check", !.snap = Snap(row)]
            ELSE Returned
    /\ Quiet /\ UNCHANGED <<dbVars, worldVars, hist>>

AwaitTurnReadFails ==
    /\ Worker("turn")
    /\ w' = [w EXCEPT !.pc = "check"]
    /\ Quiet /\ UNCHANGED <<dbVars, worldVars, hist>>

\* Mutant: episodes already downloaded are pending again.
PendingAll(r) == IF Episodic THEN 1..published ELSE {}

\* What the tracker plugin reports for a row (lostfilm.Check for episodes).
Pending(r) == IF Episodic THEN (1..published) \ r.done ELSE {}
CheckHash(r) ==
    IF Episodic
    THEN <<published, Cardinality(r.done), Cardinality(Pending(r))>>
    ELSE <<published, 0, 0>>

\* tr.Check, and the branch on `updated`.
Check ==
    /\ Worker("check")
    /\ LET r == w.snap.row
           hash == CheckHash(r)
           next == CASE hash = r.hash        -> "record"
                     [] r.mode = "notify"    -> "announce"
                     [] OTHER                -> "found"
       IN  w' = [w EXCEPT !.hash = hash, !.pending = Pending(r), !.pc = next]
    /\ Quiet /\ UNCHANGED <<dbVars, worldVars, hist>>

\* Credentials, session or tracker request failed.
CheckFails ==
    /\ Worker("check")
    /\ FailCheck
    /\ Quiet /\ UNCHANGED <<dbVars, worldVars, hist>>

\* release.found unless the topic is in an error episode, and the snapshot
\* of the previous deliveries for the replace policy.
Found ==
    /\ Worker("found")
    /\ w' = [w EXCEPT !.pc = "download",
                      !.told = ~w.snap.row.failing,
                      !.prior = IF w.snap.row.mode = "replace" /\ ~Episodic
                                THEN rows ELSE {}]
    /\ Quiet /\ UNCHANGED <<dbVars, worldVars, hist>>

\* listPriorDeliveries fails open: keep all versions.
FoundListFails ==
    /\ Worker("found") /\ w.snap.row.mode = "replace" /\ ~Episodic
    /\ w' = [w EXCEPT !.pc = "download", !.told = ~w.snap.row.failing]
    /\ Quiet /\ UNCHANGED <<dbVars, worldVars, hist>>

Oldest(S) == {e \in S : \A f \in S : e <= f}   \* one element, or none

\* tr.Download: the oldest pending episode, or whatever the tracker has now.
Download ==
    /\ Worker("download")
    /\ \/ /\ Episodic /\ w.pending = {}             \* ErrNoPendingEpisodes
          /\ w' = [w EXCEPT !.pc = "record"]
       \/ \E r \in IF Episodic THEN Oldest(w.pending) ELSE {published} :
             w' = [w EXCEPT !.pc = "verify", !.payload = Torrent[r]]
    /\ Quiet /\ UNCHANGED <<dbVars, worldVars, hist>>

DownloadFails ==
    /\ Worker("download")
    /\ FailCheck
    /\ Quiet /\ UNCHANGED <<dbVars, worldVars, hist>>

\* Mutant: the torrent just delivered is not spared.
SupersededAll == w.prior

\* What replacePrevious removes: never what this check just delivered.
Superseded == w.prior \ w.got

\* After the download loop: replace what was there before, or record.
AfterLoop ==
    [w EXCEPT !.pc = IF w.got # {} /\ Superseded # {} THEN "replace"
                                                          ELSE "record"]

\* Mutant: the answer of VerifyCheckState is ignored.
VerifyIgnored ==
    /\ Worker("verify")
    /\ w' = [w EXCEPT !.pc = "add"]
    /\ Quiet /\ UNCHANGED <<dbVars, worldVars, hist>>

\* sendViaClient: VerifyCheckState just before Add.
Verify ==
    /\ Worker("verify")
    /\ w' = IF Matches(row, w.snap.row)
            THEN [w EXCEPT !.pc = "add"]
            ELSE AfterLoop
    /\ Quiet /\ UNCHANGED <<dbVars, worldVars, hist>>

VerifyFails ==
    /\ Worker("verify")
    /\ w' = [w EXCEPT !.pc = "add", !.blind = TRUE]
    /\ Quiet /\ UNCHANGED <<dbVars, worldVars, hist>>

\* Deluge's plugin hands on the error that a torrent is there already.
Raises == client = "raises" /\ w.payload \in torrents

Add ==
    /\ Worker("add")
    /\ torrents' = torrents \cup {w.payload}
    /\ IF Raises THEN FailCheck
       ELSE w' = [w EXCEPT !.pc = "log", !.got = @ \cup {w.payload}, !.blind = FALSE]
    /\ Quiet /\ UNCHANGED <<dbVars, published, client, hist>>

\* No client, its plugin or its config, or it did not answer, whether it has
\* added the torrent or not.
AddFails ==
    /\ Worker("add")
    /\ torrents' \in {torrents, torrents \cup {w.payload}}
    /\ FailCheck
    /\ Quiet /\ UNCHANGED <<dbVars, published, client, hist>>

AfterLog == IF w.pending = {} THEN AfterLoop ELSE [w EXCEPT !.pc = "mark"]

\* recordDelivery: best effort, and the foreign key needs the topic.
LogDelivery ==
    /\ Worker("log")
    /\ rows' = IF row.status = "gone" THEN rows ELSE rows \cup {w.payload}
    /\ w' = AfterLog
    /\ Quiet /\ UNCHANGED <<row, due, worldVars, hist>>

LogDeliveryFails ==
    /\ Worker("log")
    /\ w' = AfterLog
    /\ Quiet /\ UNCHANGED <<dbVars, worldVars, hist>>

\* Mutant: the mark is appended whatever happened to the topic meanwhile.
MayMarkAlways == row.status # "gone"

\* The guard of MarkEpisodeDownloaded and MarkEpisodesDownloaded.
MayMark == Matches(row, w.snap.row)

\* MarkEpisodeDownloaded, then the next iteration of the loop.
Mark ==
    /\ Worker("mark")
    /\ \E e \in Oldest(w.pending) :
         LET rest == w.pending \ {e}
             more == rest # {} /\ Cardinality(w.got) < MaxPerTick
         IN  IF MayMark
             THEN /\ row' = MarkEpisodes(row, {e})
                  /\ w' = [w EXCEPT !.pending = rest,
                                    !.pc = IF more THEN "download" ELSE "record"]
             ELSE /\ UNCHANGED row
                  /\ w' = [w EXCEPT !.pc = "record"]
    /\ Quiet /\ UNCHANGED <<due, rows, worldVars, hist>>

\* The error may hide a commit: here, and in SeeFails, the row has changed
\* though the check fails; elsewhere that comes to the same as success.
MarkFails ==
    /\ Worker("mark")
    /\ \/ UNCHANGED row
       \/ MayMark /\ row' = MarkEpisodes(row, Oldest(w.pending))
    /\ FailCheck
    /\ Quiet /\ UNCHANGED <<due, rows, worldVars, hist>>

\* replacePrevious: remove what was there before, keep what was just added.
Replace ==
    /\ Worker("replace")
    /\ torrents' = torrents \ Superseded
    /\ w' = [w EXCEPT !.pc = "prune"]
    /\ Quiet /\ UNCHANGED <<dbVars, published, client, hist>>

\* The client did not confirm, so nothing is pruned.
ReplaceFails ==
    /\ Worker("replace")
    /\ torrents' \in {torrents, torrents \ Superseded}
    /\ w' = [w EXCEPT !.pc = "record"]
    /\ Quiet /\ UNCHANGED <<dbVars, published, client, hist>>

Prune ==
    /\ Worker("prune")
    /\ rows' = rows \ Superseded
    /\ w' = [w EXCEPT !.pc = "record"]
    /\ Quiet /\ UNCHANGED <<row, due, worldVars, hist>>

PruneFails ==
    /\ Worker("prune")
    /\ w' = [w EXCEPT !.pc = "record"]
    /\ Quiet /\ UNCHANGED <<dbVars, worldVars, hist>>

\* notifyOnlyRelease: verify, then mark every pending episode, then announce.
Announce ==
    /\ Worker("announce")
    /\ w' = [w EXCEPT !.pc = IF Matches(row, w.snap.row) THEN "see" ELSE "record"]
    /\ Quiet /\ UNCHANGED <<dbVars, worldVars, hist>>

AnnounceVerifyFails ==
    /\ Worker("announce")
    /\ w' = [w EXCEPT !.pc = "see"]
    /\ Quiet /\ UNCHANGED <<dbVars, worldVars, hist>>

\* Mutant: a topic in an error episode stays silent, as downloads do.
WorthTellingOnce(announceCurrent) ==
    /\ ~w.snap.row.failing
    /\ Episodic => w.pending # {}
    /\ w.snap.row.hash # NoHash \/ announceCurrent

\* The `announce` flag of notifyOnlyRelease.
WorthTelling(announceCurrent) ==
    /\ Episodic => w.pending # {}
    /\ w.snap.row.hash # NoHash \/ announceCurrent

\* announceCurrent: the user asked for the first check to be announced too.
See ==
    /\ Worker("see")
    /\ \E announceCurrent \in BOOLEAN :
         LET fits == w.pending = {} \/ MayMark
         IN  /\ row' = IF fits THEN MarkEpisodes(row, w.pending) ELSE row
             /\ w' = [w EXCEPT !.pc = "record", !.told = fits /\ WorthTelling(announceCurrent)]
             /\ hist' = IF fits THEN [hist EXCEPT !.seen = @ \cup w.pending]
                                ELSE hist
    /\ Quiet /\ UNCHANGED <<due, rows, worldVars>>

SeeFails ==
    /\ Worker("see") /\ w.pending # {}
    /\ \/ UNCHANGED <<row, hist>>
       \/ /\ MayMark /\ row' = MarkEpisodes(row, w.pending)
          /\ hist' = [hist EXCEPT !.seen = @ \cup w.pending]
    /\ FailCheck
    /\ Quiet /\ UNCHANGED <<due, rows, worldVars>>

\* Mutant: a failed check advances the hash.
ResultHashAdvances == w.hash

\* A failed check persists the old hash, so the release is found again.
ResultHash == IF w.failed THEN w.snap.row.hash ELSE w.hash

\* recordResult: RecordCheckResult, whose delay is always positive.
Record ==
    /\ Worker("record")
    /\ IF Matches(row, w.snap.row)
       THEN /\ \E now \in Fresh :
                  row' = RecordCheckResult(row, ResultHash, w.failed, now)
            /\ due' = FALSE
            /\ hist' = [hist EXCEPT !.owed = @ \/ (~w.failed /\ w.got # {})]
       ELSE UNCHANGED <<row, due, hist>>
    /\ w' = Returned
    /\ Quiet /\ UNCHANGED <<rows, worldVars>>

RecordFails ==
    /\ Worker("record")
    /\ w' = Returned
    /\ Quiet /\ UNCHANGED <<dbVars, worldVars, hist>>

\* inflight.Delete, once runCheck has returned.
Release ==
    /\ Worker("done")
    /\ w' = IdleWorker
    /\ inflight' = FALSE
    /\ UNCHANGED <<dbVars, disp, job, worldVars, handlerVars, hist>>

Work == \/ Take \/ AwaitTurn \/ Check \/ Found \/ Download \/ Verify \/ Add
        \/ LogDelivery \/ Mark \/ Replace \/ Prune \/ Announce \/ See
        \/ Record \/ Release

\* Failures the code handles: every one is a call that returned an error.
Faults == \/ DispatchFull \/ AwaitTurnReadFails \/ CheckFails \/ FoundListFails
          \/ DownloadFails \/ VerifyFails \/ AddFails \/ LogDeliveryFails
          \/ MarkFails \/ ReplaceFails \/ PruneFails \/ AnnounceVerifyFails
          \/ SeeFails \/ RecordFails
-----------------------------------------------------------------------------
(* The API handlers *)

Idle == UNCHANGED <<schedVars, w, worldVars>>

Recheck ==
    /\ "recheck" \in Ops /\ Scheduled(row)
    /\ \E now \in Fresh : row' = QueueRecheck(row, now)
    /\ due' = TRUE
    /\ Idle /\ UNCHANGED <<rows, handlerVars, hist>>

Pause ==
    /\ "pause" \in Ops /\ row.status # "gone"
    /\ row' = UpdateStatus(row, "paused")
    /\ Idle /\ UNCHANGED <<due, rows, handlerVars, hist>>

Resume ==
    /\ "pause" \in Ops /\ row.status # "gone"
    /\ row' = UpdateStatus(row, "active")
    /\ Idle /\ UNCHANGED <<due, rows, handlerVars, hist>>

\* DELETE cascades to topic_deliveries and leaves the torrents alone.
Delete ==
    /\ "delete" \in Ops
    /\ row' = DeleteRow(row)
    /\ rows' = {}
    /\ hist' = NoHist
    /\ Idle /\ UNCHANGED <<due, handlerVars>>

\* PUT reads the topic, then writes it whole.
EditRead ==
    /\ "edit" \in Ops /\ edit = None /\ row.status # "gone"
    /\ edit' = row.done
    /\ Idle /\ UNCHANGED <<dbVars, reset, hist>>

\* A shorter interval pulls a due topic to now(), and one that is not due to
\* an earlier time unless it is early enough already.
EditWrite ==
    /\ edit # None
    /\ edit' = None
    /\ IF row.status = "gone"
       THEN UNCHANGED <<row, hist>>
       ELSE /\ \E m \in Modes, now \in Fresh \cup {row.next} :
                  row' = Update(row, edit, m, now)
            /\ hist' = IF edit = row.done THEN hist
                       ELSE [hist EXCEPT !.hurt = @ \cup {"edit"}]
    /\ Idle /\ UNCHANGED <<due, rows, reset>>

\* Reset passed its single-flight gate.
ResetStart ==
    /\ "reset" \in Ops /\ reset.pc = "idle" /\ row.status # "gone"
    /\ reset' = [reset EXCEPT !.pc = "list"]
    /\ Idle /\ UNCHANGED <<dbVars, edit, hist>>

ResetList ==
    /\ reset.pc = "list"
    /\ reset' = [pc |-> "remove", hit |-> rows]
    /\ Idle /\ UNCHANGED <<dbVars, edit, hist>>

\* Listing fails open: nothing is removed.
ResetListFails ==
    /\ reset.pc = "list"
    /\ reset' = [reset EXCEPT !.pc = "rows"]
    /\ Idle /\ UNCHANGED <<dbVars, edit, hist>>

ResetRemove ==
    /\ reset.pc = "remove"
    /\ torrents' = torrents \ reset.hit
    /\ reset' = [pc |-> "rows", hit |-> {}]
    /\ UNCHANGED <<schedVars, w, published, client, dbVars, edit, hist>>

ResetRemoveFails ==
    /\ reset.pc = "remove"
    /\ torrents' \in {torrents, torrents \ reset.hit}
    /\ reset' = [pc |-> "rows", hit |-> {}]
    /\ UNCHANGED <<schedVars, w, published, client, dbVars, edit, hist>>

\* DeleteForTopic
ResetRows ==
    /\ reset.pc = "rows"
    /\ rows' = {}
    /\ reset' = [reset EXCEPT !.pc = "commit"]
    /\ Idle /\ UNCHANGED <<row, due, edit, hist>>

\* ResetCheckState, the step that arms the scheduler.
ResetCommit ==
    /\ reset.pc = "commit"
    /\ reset' = IdleReset
    /\ IF row.status = "gone"
       THEN UNCHANGED <<row, due, disp, job, w, hist>>
       ELSE /\ \E now \in Fresh : row' = ResetCheckState(row, now)
            /\ due' = TRUE
            /\ disp' = [disp EXCEPT !.snap = Overtake(@)]
            /\ job' = Overtake(job)
            /\ w' = [w EXCEPT !.snap = Overtake(@)]
            /\ hist' = NoHist
    /\ UNCHANGED <<inflight, worldVars, rows, edit>>

\* Both steps after the removal fail closed: the user is told to retry.
ResetAborts ==
    /\ reset.pc \in {"rows", "commit"}
    /\ reset' = IdleReset
    /\ hist' = [hist EXCEPT !.hurt = @ \cup {"reset"}]
    /\ Idle /\ UNCHANGED <<dbVars, edit>>

User == Recheck \/ Pause \/ Resume \/ Delete \/ EditRead \/ ResetStart
Finish == EditWrite \/ ResetList \/ ResetRemove \/ ResetRows \/ ResetCommit
ResetFaults == ResetListFails \/ ResetRemoveFails \/ ResetAborts
-----------------------------------------------------------------------------
(* The world *)

\* The tracker gets a release.
Publish ==
    /\ published < MaxRelease
    /\ published' = published + 1
    /\ UNCHANGED <<dbVars, schedVars, handlerVars, torrents, client, w, hist>>

ComeDue ==
    /\ ~due
    /\ due' = TRUE
    /\ UNCHANGED <<row, rows, schedVars, handlerVars, worldVars, w, hist>>

\* The process dies and starts again: only the database, the client and the
\* tracker remain.
Crash ==
    /\ "crash" \in Ops
    /\ disp' = IdleDisp /\ inflight' = FALSE /\ job' = None /\ w' = IdleWorker
    /\ reset' = IdleReset /\ edit' = None
    /\ hist' = IF reset.pc \in {"rows", "commit"}
               THEN [hist EXCEPT !.hurt = @ \cup {"reset"}] ELSE hist
    /\ UNCHANGED <<dbVars, worldVars>>

Next == \/ Dispatch \/ Work \/ Faults
        \/ User \/ Finish \/ ResetFaults
        \/ Publish \/ ComeDue \/ Crash

Spec == Init /\ [][Next]_vars
-----------------------------------------------------------------------------
(* Properties *)

WorkerPCs == {"idle", "turn", "check", "found", "download", "verify", "add",
              "log", "mark", "replace", "prune", "announce", "see", "record",
              "done"}

DbOK == row \in RowType /\ due \in BOOLEAN /\ rows \subseteq Infohashes

SchedOK ==
    /\ disp \in [pc : {"idle", "query", "store"}, excluded : BOOLEAN,
                 snap : Snaps \cup {None}]
    /\ (disp.pc = "store") <=> (disp.snap # None)
    /\ inflight \in BOOLEAN
    /\ job \in Snaps \cup {None}

WorkerOK ==
    /\ w \in [pc : WorkerPCs, snap : Snaps \cup {None}, hash : Hashes,
              pending : SUBSET Releases, prior : SUBSET Infohashes,
              payload : Infohashes \cup {None}, got : SUBSET Infohashes,
              told : BOOLEAN, failed : BOOLEAN, blind : BOOLEAN]
    /\ (w.pc \notin {"idle", "done"}) <=> (w.snap # None)
    /\ w.pc \in {"verify", "add", "log"} => w.payload # None
    /\ w.pc = "mark" => w.pending # {}

WorldOK == published \in Releases /\ torrents \subseteq Infohashes /\ client \in Clients

HandlersOK ==
    /\ reset \in [pc : {"idle", "list", "remove", "rows", "commit"},
                  hit : SUBSET Infohashes]
    /\ edit \in (SUBSET Releases) \cup {None}
    /\ hist \in [owed : BOOLEAN, seen : SUBSET Releases,
                 hurt : SUBSET {"edit", "reset"}]

\* Every variable has the shape the code gives it, and a snapshot exists
\* exactly while somebody works from it.
TypeOK == DbOK /\ SchedOK /\ WorkerOK /\ WorldOK /\ HandlersOK

\* The inflight mark (scheduler.go, Scheduler.inflight) makes a topic's
\* checks exclusive: it is up from the dispatch until runCheck returned, a
\* topic is never queued while it is checked, and the exclusion list already
\* keeps the dispatcher from holding a topic that is queued or running, so
\* LoadOrStore never finds one.
OneCheckAtATime ==
    /\ job # None => w.pc = "idle"
    /\ (job # None \/ w.pc # "idle") => inflight
    /\ disp.pc = "store" => ~inflight

\* The token guard of RecordCheckResult, MarkEpisodeDownloaded and
\* MarkEpisodesDownloaded: no step of a check changes the row once a reset
\* has completed since the check read it, however many resets, rechecks and
\* edits follow, so a reset is never undone by a check.
StaleCheckNeverWrites ==
    [][w.snap # None /\ w'.pc # w.pc /\ w.snap.overtaken => row' = row]_vars

\* A payload is handed to the client only by a check no reset has overtaken
\* by the time VerifyCheckState answers: "What it does remove is the
\* unbounded case" (topics.go).  Only a failed read lets one pass.
NoSubmissionAfterReset ==
    [][Worker("verify") /\ w'.pc = "add" /\ ~w'.blind => ~w.snap.overtaken]_vars

\* last_hash moves to a new value only when the check that recorded it
\* handed at least one torrent to the client, or was notify-only, or found
\* no episode pending: a release that was not delivered is always detected
\* again (the dlErr branch of runCheck, and the stale paths of
\* downloadAllPending which report no error).
HashMeansDelivered ==
    [][row'.hash \notin {row.hash, NoHash} =>
         \/ w.got # {}
         \/ w.snap.row.mode = "notify"
         \/ Episodic /\ w.pending = {}]_vars

\* No release disappears from the user's view: when last_hash moves, the
\* check told the user (release.found, or download.submitted for what it
\* delivered), unless it was the silent first look of a notify-only topic or
\* an episode recount with nothing pending.
AdvanceIsVisible ==
    [][row'.hash \notin {row.hash, NoHash} =>
         \/ w.told \/ w.got # {}
         \/ w.snap.row.mode = "notify" /\ w.snap.row.hash = NoHash
         \/ Episodic /\ w.pending = {}]_vars

\* Replace on update never leaves the user without a copy: once a check that
\* delivered has been recorded, some torrent of the topic is in the client,
\* through replacements, failures and crashes, until the user resets.
CopyKept ==
    ~Episodic /\ hist.owed /\ hist.hurt = {} /\ reset.pc = "idle"
        => torrents # {}

\* No episode is stranded: absent from the client, yet in
\* downloaded_episodes and so skipped by every future check (topics.go,
\* MarkEpisodeDownloaded).
NoStrandedEpisode ==
    Episodic /\ hist.hurt = {} /\ reset.pc = "idle"
        => \A e \in row.done \ hist.seen : Torrent[e] \in torrents

\* MarkEpisodeDownloaded appends without looking; the list stays free of
\* duplicates because a check only marks episodes its snapshot lacks, and no
\* two checks of a topic share a valid token.
NoDoubleMark ==
    [][Mark /\ MayMark /\ hist.hurt = {}
         => Oldest(w.pending) \cap row.done = {}]_vars

\* A topic the user paused stays paused until the user resumes it.
PausedStaysPaused ==
    [][row.status = "paused" /\ ~Resume /\ ~Delete => row'.status = "paused"]_vars
=============================================================================
