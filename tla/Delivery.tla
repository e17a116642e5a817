------------------------------ MODULE Delivery ------------------------------
(***************************************************************************)
(* One delivery after another of a topic: what sendViaClient does around   *)
(* Add.  The update policy ("add updates paused", "only new files") and    *)
(* the folder name are planned, the torrent is added, recorded, selected,  *)
(* renamed, started and rechecked, the previous version is replaced and    *)
(* the user is told.  Every call may fail, the process may die between any *)
(* two of them, the result of the check may be discarded, and the user may *)
(* use the client meanwhile.                                               *)
(***************************************************************************)
EXTENDS TorrentClient, Sequences, SequencesExt

CONSTANTS
    MaxRelease,     \* bound: releases the tracker publishes
    Manifest,       \* Manifest[r]: the content files of release r
    TrackerName,    \* TrackerName[r]: the top folder in release r's torrent
    CustomName,     \* the folder name of a topic in custom mode
    Scenarios,      \* [kind, opt, form]: client, settings, payload of each release
    Faults,         \* which faults happen, a subset of FaultNames
    MaxFaults,      \* bound: faults and user interventions in a behaviour
    Unknown         \* a file list that is not known (NULL)

Releases == 1..MaxRelease
PayloadForms == {"torrent", "single", "long", "v2", "magnet"}
Settings == [addPaused: BOOLEAN, onlyNew: BOOLEAN, episodic: BOOLEAN,
             folder: {"tracker", "custom", "keep"},
             replace: {"no", "keep", "delete"}]   \* the previous version, its data
FaultNames == {"call", "read", "record", "crash", "user", "discard"}

ASSUME DeliveryAssumption ==
    /\ MaxRelease \in Nat \ {0} /\ MaxFaults \in Nat
    /\ Manifest \in [Releases -> SUBSET Files]
    /\ TrackerName \in [Releases -> FolderNames]
    /\ CustomName \in FolderNames
    /\ \A s \in Scenarios : /\ s.kind \in Plugins /\ s.opt \in Settings
                            /\ s.form \in Seq(PayloadForms) /\ Len(s.form) \in Releases
    /\ Faults \subseteq FaultNames
    /\ \A files \in SUBSET Files : files # Unknown

VARIABLES
    kind,       \* the topic's client plugin
    opt,        \* the topic's settings
    latest,     \* the tracker's current release
    form,       \* form[r]: the payload of release r, as many as come out
    hash,       \* the topic's last_hash: release last recorded, 0 for none
    seen,       \* folder_name_seen
    rows,       \* topic_deliveries, oldest first: [rel, files]
    torrents,   \* torrents[r]: release r in the client, or None
    left,       \* left[r]: what a removed torrent left on the disk, or None
    w,          \* the worker's delivery
    told,       \* told[r]: note parts the user was sent about release r
    hist        \* what happened: faults, and by release who touched what

vars == <<kind, opt, latest, form, hash, seen, rows, torrents, left, w, told, hist>>

Notes == {"paused", "pick", "unsupported", "noNew", "selected", "downloading",
          "selFailed", "saved", "cannot", "renameFailed", "startFailed",
          "recheckFailed", "stopFailed"}

Idle == [pc |-> "idle", rel |-> 0, paused |-> FALSE, select |-> FALSE,
         skip |-> {}, files |-> Unknown, fold |-> "none", want |-> NoRoot,
         ok |-> TRUE, recheck |-> FALSE, started |-> FALSE, prior |-> "none", note |-> {}]

\* Mutant: every combination of the settings is taken.
AnyPolicy(o) == TRUE

\* The combinations the API takes: data the next version will not download,
\* or shares a folder with, is not deleted.
ValidUpdatePolicy(o) == o.replace = "delete" => ~o.onlyNew /\ o.folder = "tracker"

Init ==
    /\ \E s \in Scenarios :
        ValidUpdatePolicy(s.opt) /\ kind = s.kind /\ opt = s.opt /\ form = s.form
    /\ latest = 1
    /\ hash = 0 /\ seen = NoRoot /\ rows = <<>>
    /\ torrents = [r \in Releases |-> None] /\ left = [r \in Releases |-> None]
    /\ w = Idle /\ told = [r \in Releases |-> {}]
    /\ hist = [faults |-> 0, touched |-> {}, crashed |-> {}, astray |-> {},
               folder |-> [r \in Releases |-> NoRoot], old |-> [r \in Releases |-> {}]]

\* What a fault costs; the total is bounded.
Pay(f, n) ==
    /\ n > 0 => f \in Faults
    /\ hist.faults + n <= MaxFaults

Cost(out) == IF out = "ok" THEN 0 ELSE 1

\* A client call of the worker: its outcome, what it does to the torrent,
\* and how the delivery goes on.
Call(out, effect, next) ==
    /\ Pay("call", Cost(out))
    /\ hist' = [hist EXCEPT !.faults = @ + Cost(out)]
    /\ torrents' = [torrents EXCEPT ![w.rel] =
                        IF out = "error" \/ @ = None THEN @ ELSE effect]
    /\ w' = next
    /\ UNCHANGED <<kind, opt, left, latest, form, hash, seen, rows, told>>

\* A read that ended the wait for the client, or failed.
Wait(done, then, fault, next) ==
    \/ done /\ w' = then /\ UNCHANGED <<kind, opt, left, latest, form, hash, seen, rows, torrents, told, hist>>
    \/ /\ Pay("call", 1) /\ hist' = [hist EXCEPT !.faults = @ + 1]
       /\ fault /\ w' = next
       /\ UNCHANGED <<kind, opt, left, latest, form, hash, seen, rows, torrents, told>>

Go(pc) == [w EXCEPT !.pc = pc]
Noting(pc, note) == [w EXCEPT !.pc = pc, !.note = @ \cup {note}]
Tor == torrents[w.rel]

\* Release r in the client, or what it left on the disk.
Copy(r) == IF torrents[r] # None THEN torrents[r] ELSE left[r]

----------------------------------------------------------------------------
(* Planning                                                                *)

\* Mutant: a retry compares a release with its own row.
OwnRowToo(r) == DOMAIN rows

\* The rows of a topic's other deliveries, and the newest of them.
OtherRows(r) == {i \in DOMAIN rows : rows[i].rel # r}
LatestOther(r) == rows[Max(OtherRows(r))]

\* The newest other delivery's list, which may be unknown.
LatestFiles(r) == IF OtherRows(r) = {} THEN Unknown ELSE LatestOther(r).files

SkipSet(prev, next) == prev \cap next

ManifestOf(r) == IF form[r] \in {"torrent", "single"} THEN Manifest[r] ELSE Unknown

IsUpdate == ~opt.episodic /\ hash # 0 /\ (opt.addPaused \/ opt.onlyNew)

\* base: the baseline read from the table, Unknown when the read failed.
planDelivery(r, base) ==
    LET can    == CanSelect(kind)
        select == IsUpdate /\ can /\ opt.onlyNew /\ ManifestOf(r) # Unknown /\ base # Unknown
    IN [paused |-> IsUpdate /\ can, select |-> select, files |-> ManifestOf(r),
        skip |-> IF select THEN SkipSet(base, Manifest[r]) ELSE {},
        note |-> IF ~IsUpdate THEN {}
                 ELSE IF ~can THEN {"unsupported"}
                 ELSE IF opt.onlyNew /\ ~select THEN {"pick"} ELSE {}]

\* The previous version's folder in the client, as far as it can be trusted.
LiveFolder(r) ==
    LET prev == LatestOther(r) IN
    IF /\ OtherRows(r) # {} /\ CanSelect(kind)
       /\ HasFiles(torrents[prev.rel]) /\ prev.files # Unknown
    THEN torrents[prev.rel].root ELSE NoRoot

\* live: what keepFolderName read, NoRoot when the read failed.
FolderWanted(live) ==
    CASE opt.episodic          -> NoRoot
      [] opt.folder = "custom" -> CustomName
      [] opt.folder = "keep"   -> IF live # NoRoot THEN live ELSE seen
      [] OTHER                 -> NoRoot

planFolderName(r, want) ==
    CASE want = NoRoot                         -> "none"
      [] form[r] \in {"magnet", "v2", "single"} -> "cannot"
      [] TrackerName[r] = want                  -> "none"
      [] ~CanRename(kind) \/ ~CanSelect(kind)   -> "cannot"
      [] OTHER                                  -> "rename"

\* Keep mode stores the name it learned; the write may fail.
Remembered(r, want, live) ==
    IF opt.folder = "keep" /\ want # NoRoot /\ (live # NoRoot \/ TrackerName[r] = want)
    THEN want ELSE seen

\* The deliveries to replace, listed before the new one adds its own.
Prior(r) == IF opt.replace # "no" /\ ~opt.episodic /\ OtherRows(r) # {}
            THEN "listed" ELSE "none"

\* A check finds a release the topic has not recorded and plans it: the
\* deliveries before, the baseline and the live folder are database and
\* client reads that may fail.
Plan ==
    /\ w.pc = "idle" /\ latest # hash
    /\ \E base \in {LatestFiles(latest), Unknown}, live \in {LiveFolder(latest), NoRoot},
          prior \in {Prior(latest), "none"}, kept \in BOOLEAN :
        LET r    == latest
            want == FolderWanted(live)
            p    == planDelivery(r, base)
            fold == planFolderName(r, want)
            cost == Cardinality({i \in 1..4 :
                        <<base # LatestFiles(r), live # LiveFolder(r), prior # Prior(r), ~kept>>[i]})
        IN /\ ~kept => Remembered(r, want, live) # seen
           /\ Pay("read", cost)
           /\ hist' = [hist EXCEPT !.faults = @ + cost,
                  !.folder[r] = IF fold = "rename" THEN want ELSE @,
                  !.astray = IF hist.folder[r] = NoRoot \/ (fold = "rename" /\ want = hist.folder[r])
                             THEN @ ELSE @ \cup {r}]
           /\ seen' = IF kept THEN Remembered(r, want, live) ELSE seen
           /\ w' = [Idle EXCEPT !.pc = "add", !.rel = r, !.paused = p.paused,
                        !.select = p.select, !.skip = p.skip, !.files = p.files,
                        !.fold = fold, !.want = want, !.prior = prior,
                        !.note = p.note \cup IF fold = "cannot" THEN {"cannot"} ELSE {}]
    /\ UNCHANGED <<kind, opt, left, latest, form, hash, rows, torrents, told>>

addPaused == w.paused \/ w.fold = "rename"

filesAtRecord == IF w.select THEN Unknown ELSE w.files

----------------------------------------------------------------------------
(* Add and record                                                          *)

\* old: the files the update policy holds back in a new torrent, those of the
\* newest other version in the table, known or not (update_policy.go:71-79).
HeldBack(r) ==
    IF IsUpdate /\ opt.onlyNew /\ CanSelect(kind) /\ OtherRows(r) # {}
    THEN Manifest[LatestOther(r).rel] \cap Manifest[r] ELSE {}

Add ==
    /\ w.pc = "add"
    /\ \E out \in AddOutcomes(kind, Tor # None), root \in {TrackerName[w.rel], NoRoot} :
        /\ ~(out = "error" /\ kind = "deluge" /\ Tor # None) => Pay("call", Cost(out))
        /\ form[w.rel] \in {"magnet", "single"} => root = NoRoot
        /\ LET new == out # "error" /\ Tor = None IN
           /\ torrents' = IF new THEN [torrents EXCEPT ![w.rel] = Added(kind, addPaused, root)]
                                 ELSE torrents
           /\ hist' = [hist EXCEPT
                !.faults = @ + IF out = "error" /\ Tor # None /\ kind = "deluge" THEN 0 ELSE Cost(out),
                !.old[w.rel] = IF new THEN HeldBack(w.rel) ELSE @]
        /\ w' = IF out = "ok" THEN Go("record") ELSE Idle
    /\ UNCHANGED <<kind, opt, left, latest, form, hash, seen, rows, told>>

\* ON CONFLICT DO NOTHING: a row keeps the list it was inserted with.
Inserted(r, files) ==
    IF \E i \in DOMAIN rows : rows[i].rel = r THEN rows
    ELSE Append(rows, [rel |-> r, files |-> files])

\* Nothing to wait for: a plan without selection and rename is done.
AfterRecord ==
    IF w.fold = "rename" THEN Go("list")
    ELSE IF w.select /\ Manifest[w.rel] = {} THEN Noting("store", "noNew")
    ELSE IF w.select THEN Go("wait")
    ELSE IF w.paused /\ "pick" \notin w.note THEN Noting("notify", "paused")
    ELSE Go("notify")

recordDelivery ==
    /\ w.pc = "record"
    /\ \E out \in {"ok", "error"} :
        /\ Pay("record", Cost(out))
        /\ rows' = IF out = "ok" THEN Inserted(w.rel, filesAtRecord) ELSE rows
        /\ hist' = [hist EXCEPT !.faults = @ + Cost(out)]
    /\ w' = AfterRecord
    /\ UNCHANGED <<kind, opt, left, latest, form, hash, seen, torrents, told>>

----------------------------------------------------------------------------
(* The folder rename                                                       *)

\* No list, no rename, and no update policy either: the note is all.
ListFiles ==
    /\ w.pc = "list"
    /\ Wait(HasFiles(Tor), Go("root"), TRUE,
            [w EXCEPT !.pc = "notify", !.note = {"renameFailed"}])

\* After the folder step the update policy runs, started or held.
Folded(note, ok) ==
    [w EXCEPT !.note = @ \cup {note}, !.ok = ok,
              !.pc = IF w.select /\ Manifest[w.rel] # {} THEN "skip" ELSE "policy"]

applyFolderName ==
    /\ w.pc = "root" /\ Tor # None
    /\ IF Tor.root = NoRoot \/ Tor.root # w.want
       THEN /\ w' = IF Tor.root = NoRoot THEN Folded("cannot", TRUE) ELSE Go("stopped")
            /\ UNCHANGED <<kind, opt, left, latest, form, hash, seen, rows, torrents, told, hist>>
       ELSE \/ Call("ok", Read(Tor),
                    [Folded("saved", TRUE) EXCEPT !.recheck = ReportsStopped(Tor) /\ ~Tor.data])
            \/ /\ Pay("call", 1)
               /\ hist' = [hist EXCEPT !.faults = @ + 1, !.astray = @ \cup {w.rel}]
               /\ w' = Folded("saved", TRUE)
               /\ UNCHANGED <<kind, opt, left, latest, form, hash, seen, rows, torrents, told>>

\* Mutant: the rename does not wait for the torrent to stop.
RenamesAtOnce == w.pc = "stopped" /\ Tor # None /\ Call("ok", Tor, Go("rename"))

waitForStopped ==
    /\ w.pc = "stopped" /\ Tor # None
    /\ \/ Call("ok", Read(Tor),
               CASE ~ReportsStopped(Tor) -> Folded("cannot", TRUE)   \* the wait ran out
                 [] Tor.data             -> Folded("cannot", TRUE)
                 [] OTHER                -> Go("rename"))
       \/ Call("error", Tor, Folded("renameFailed", FALSE))

RenameRoot ==
    /\ w.pc = "rename" /\ Tor # None
    /\ \E out \in Attempt :
        Call(out, Renaming(kind, Tor, w.want),
             IF out = "ok" THEN Go("confirm") ELSE Folded("renameFailed", FALSE))

waitForRoot ==
    /\ w.pc = "confirm" /\ Tor # None
    /\ Wait(Tor.root = w.want, [Folded("saved", TRUE) EXCEPT !.recheck = TRUE],
            TRUE, Folded("renameFailed", FALSE))

----------------------------------------------------------------------------
(* The update policy                                                       *)

waitForFiles ==
    /\ w.pc = "wait"
    /\ Wait(HasFiles(Tor), Go("skip"), TRUE, Noting("finish", "selFailed"))

NewCount == Cardinality(Manifest[w.rel] \ w.skip)

\* The old files are skipped; a list that cannot be mapped fails likewise.
SkipFiles ==
    /\ w.pc = "skip" /\ Tor # None
    /\ \E out \in Attempt :
        Call(out, Skipped(Tor, w.skip),
             IF out # "ok" THEN Noting("finish", "selFailed")
             ELSE IF NewCount = 0 THEN Noting("store", "noNew")
             ELSE IF opt.addPaused \/ ~w.ok THEN Noting("store", "selected")
             ELSE Go("start"))

StartSelected ==
    /\ w.pc = "start" /\ Tor # None
    /\ \E out \in Attempt :
        Call(out, Started(kind, Tor),
             IF out = "ok" THEN [Noting("store", "downloading") EXCEPT !.started = TRUE]
                           ELSE Noting("finish", "selFailed"))

\* Only a selection that succeeded makes its list the next baseline.
storeSelectedFiles ==
    /\ w.pc = "store"
    /\ \E out \in {"ok", "error"} :
        /\ Pay("record", Cost(out))
        /\ rows' = IF out = "error" THEN rows
                   ELSE [i \in DOMAIN rows |-> IF rows[i].rel = w.rel
                            THEN [rows[i] EXCEPT !.files = w.files] ELSE rows[i]]
        /\ hist' = [hist EXCEPT !.faults = @ + Cost(out)]
    /\ w' = Go("finish")
    /\ UNCHANGED <<kind, opt, left, latest, form, hash, seen, torrents, told>>

\* The update policy without a selection, on the rename path.
PolicyNote ==
    /\ w.pc = "policy"
    /\ w' = IF w.select THEN Noting("store", "noNew")
            ELSE IF w.paused /\ "pick" \notin w.note THEN Noting("finish", "paused")
            ELSE Go("finish")
    /\ UNCHANGED <<kind, opt, left, latest, form, hash, seen, rows, torrents, told, hist>>

----------------------------------------------------------------------------
(* Start and recheck after a rename                                        *)

finishDelivery ==
    /\ w.pc = "finish"
    /\ w' = IF w.fold = "rename" /\ w.ok /\ ~w.paused THEN Go("startRenamed")
            ELSE IF w.recheck THEN Go(IF w.started THEN "running" ELSE "recheck")
            ELSE Go("notify")
    /\ UNCHANGED <<kind, opt, left, latest, form, hash, seen, rows, torrents, told, hist>>

startRenamed ==
    /\ w.pc = "startRenamed" /\ Tor # None
    /\ \E out \in Attempt :
        LET after == IF out = "ok" THEN [w EXCEPT !.started = TRUE]
                                   ELSE [w EXCEPT !.note = @ \cup {"startFailed"}]
        IN Call(out, Started(kind, Tor),
                [after EXCEPT !.pc = IF ~w.recheck THEN "notify"
                                     ELSE IF out = "ok" THEN "running" ELSE "recheck"])

\* Mutant: the recheck does not wait for the client to report the start.
NeverWaits ==
    /\ w.pc = "running" /\ Tor # None /\ Call("ok", Tor, Go("recheck"))

waitForRunning ==
    /\ w.pc = "running" /\ Tor # None
    /\ \/ ~ReportsStopped(Tor) /\ Call("ok", Read(Tor), Go("recheck"))
       \/ Call("error", Tor, Go("stop"))

\* Mutant: a recheck that failed is only logged.
RecheckLogged ==
    /\ w.pc = "recheck" /\ Tor # None
    /\ \E out \in Attempt : Call(out, Rechecked(kind, Tor, FALSE), Go("notify"))

recheckRenamed ==
    /\ w.pc = "recheck" /\ Tor # None
    /\ \E out \in Attempt :
        LET found == \E r \in Releases \ {w.rel} :
                Copy(r) # None /\ Copy(r).root = Tor.root /\ Copy(r).data
        IN Call(out, Rechecked(kind, Tor, found), Go(IF out = "ok" THEN "notify" ELSE "stop"))

\* On a context of its own: the delivery's deadline does not stop it.
stopUnchecked ==
    /\ w.pc = "stop" /\ Tor # None
    /\ \E out \in Attempt :
        Call(out, Stopped(Tor), Noting("notify", IF out = "ok" THEN "recheckFailed" ELSE "stopFailed"))

----------------------------------------------------------------------------
(* The previous version                                                    *)

\* The versions the table knows besides this one: only this delivery has
\* written to the table since they were listed.
Previous == {rows[i].rel : i \in OtherRows(w.rel)}

Removable == {r \in Previous : CanRemove(kind) /\ torrents[r] # None}

\* replacePrevious: a call that fails may have removed some of them.
removePrevious ==
    /\ w.pc = "notify" /\ w.prior = "listed"
    /\ \E out \in {"ok", "error"}, gone \in SUBSET Removable :
        LET cost == IF CanRemove(kind) THEN Cost(out) ELSE 0 IN
        /\ out = "ok" => CanRemove(kind) /\ gone = Removable
        /\ Pay("call", cost)
        /\ torrents' = [r \in Releases |-> IF r \in gone THEN None ELSE torrents[r]]
        /\ left' = [r \in Releases |-> IF r \in gone /\ opt.replace = "keep"
                                       THEN torrents[r] ELSE left[r]]
        /\ w' = [w EXCEPT !.prior = IF out = "ok" THEN "removed" ELSE "none"]
        /\ hist' = [hist EXCEPT !.faults = @ + cost, !.touched = @ \ gone]
    /\ UNCHANGED <<kind, opt, latest, form, hash, seen, rows, told>>

\* The row of this delivery, if it could be written, is the one that stays.
OwnRows == LET own == DOMAIN rows \ OtherRows(w.rel)
           IN IF own = {} THEN <<>> ELSE <<rows[Max(own)]>>

\* Only what the client confirmed as removed is forgotten.
pruneRows ==
    /\ w.pc = "notify" /\ w.prior = "removed"
    /\ \E out \in {"ok", "error"} :
        /\ Pay("record", Cost(out))
        /\ rows' = IF out = "ok" THEN OwnRows ELSE rows
        /\ hist' = [hist EXCEPT !.faults = @ + Cost(out)]
    /\ w' = [w EXCEPT !.prior = "none"]
    /\ UNCHANGED <<kind, opt, left, latest, form, hash, seen, torrents, told>>

----------------------------------------------------------------------------
(* The end of the check                                                    *)

notifyUpdated ==
    /\ w.pc = "notify" /\ w.prior = "none"
    /\ told' = [told EXCEPT ![w.rel] = @ \cup w.note]
    /\ w' = Go("result")
    /\ UNCHANGED <<kind, opt, left, latest, form, hash, seen, rows, torrents, hist>>

\* UpdateCheckResult; a moved check-state token discards the result.
Result ==
    /\ w.pc = "result"
    /\ \E out \in {"ok", "stale"} :
        /\ Pay("discard", Cost(out))
        /\ hash' = IF out = "ok" THEN w.rel ELSE hash
        /\ hist' = [hist EXCEPT !.faults = @ + Cost(out)]
    /\ w' = Idle
    /\ UNCHANGED <<kind, opt, left, latest, form, seen, rows, torrents, told>>

\* VerifyCheckState refuses: nothing was handed over.
Refused ==
    /\ w.pc = "add" /\ Pay("discard", 1)
    /\ hist' = [hist EXCEPT !.faults = @ + 1] /\ w' = Idle
    /\ UNCHANGED <<kind, opt, left, latest, form, hash, seen, rows, torrents, told>>

Crash ==
    /\ w.pc # "idle" /\ Pay("crash", 1)
    /\ hist' = [hist EXCEPT !.faults = @ + 1, !.crashed = @ \cup {w.rel}]
    /\ w' = Idle
    /\ UNCHANGED <<kind, opt, left, latest, form, hash, seen, rows, torrents, told>>

----------------------------------------------------------------------------
(* The world: the tracker, the client by itself, the user in the client.   *)

\* Only between two deliveries: a delivery does not look at the tracker again.
Publish ==
    /\ w.pc = "idle" /\ latest < Len(form) /\ latest' = latest + 1
    /\ UNCHANGED <<kind, opt, left, form, hash, seen, rows, torrents, w, told, hist>>

\* A torrent appears, finishes a check or a rename, or writes its first data.
ClientStep(r) ==
    LET t == torrents[r] IN
    /\ t # None
    /\ \/ ~t.listed /\ torrents' = [torrents EXCEPT ![r].listed = TRUE]
       \/ t.listed /\ t.busy # "no" /\ torrents' = [torrents EXCEPT ![r].busy = "no"]
       \/ /\ t.toRoot # t.root
          /\ torrents' = [torrents EXCEPT ![r] = [t EXCEPT !.root = t.toRoot,
                                !.renamed = TRUE, !.checked = FALSE]]
       \/ t.listed /\ t.run /\ ~t.data /\ torrents' = [torrents EXCEPT ![r].data = TRUE]
    /\ UNCHANGED <<kind, opt, left, latest, form, hash, seen, rows, w, told, hist>>

UserStep(r) ==
    LET t == torrents[r] IN
    /\ t # None /\ t.listed /\ Pay("user", 1)
    /\ torrents' = [torrents EXCEPT ![r] = IF t.run THEN Stopped(t) ELSE Started(kind, t)]
    /\ hist' = [hist EXCEPT !.faults = @ + 1, !.touched = @ \cup {r}]
    /\ UNCHANGED <<kind, opt, left, latest, form, hash, seen, rows, w, told>>

Worker == \/ Plan \/ Add \/ recordDelivery \/ ListFiles \/ applyFolderName
          \/ waitForStopped \/ RenameRoot \/ waitForRoot \/ waitForFiles
          \/ SkipFiles \/ StartSelected \/ storeSelectedFiles \/ PolicyNote
          \/ finishDelivery \/ startRenamed \/ waitForRunning \/ recheckRenamed
          \/ stopUnchecked \/ removePrevious \/ pruneRows \/ notifyUpdated \/ Result

Next == \/ Worker \/ Refused \/ Crash \/ Publish
        \/ \E r \in Releases : ClientStep(r) \/ UserStep(r)

Spec == Init /\ [][Next]_vars

----------------------------------------------------------------------------
(* Properties                                                              *)

PCs == {"idle", "add", "record", "list", "root", "stopped", "rename", "confirm",
        "wait", "skip", "start", "store", "policy", "finish", "startRenamed",
        "running", "recheck", "stop", "notify", "result"}

Rows == [rel: Releases, files: {Unknown} \cup SUBSET Files]

Work == [pc: PCs, rel: 0..MaxRelease, paused: BOOLEAN, select: BOOLEAN,
         skip: SUBSET Files, files: {Unknown} \cup SUBSET Files,
         fold: {"none", "cannot", "rename"}, want: FolderNames \cup {NoRoot},
         ok: BOOLEAN, recheck: BOOLEAN, started: BOOLEAN,
         prior: {"none", "listed", "removed"}, note: SUBSET Notes]

History == [faults: 0..MaxFaults, touched: SUBSET Releases, crashed: SUBSET Releases,
            astray: SUBSET Releases, folder: [Releases -> FolderNames \cup {NoRoot}],
            old: [Releases -> SUBSET Files]]

TypeOK ==
    /\ kind \in Plugins /\ opt \in Settings
    /\ latest \in Releases /\ form \in Seq(PayloadForms) /\ Len(form) \in Releases
    /\ hash \in 0..MaxRelease /\ seen \in FolderNames \cup {NoRoot}
    /\ rows \in Seq(Rows)
    /\ torrents \in [Releases -> Torrent \cup {None}]
    /\ left \in [Releases -> Torrent \cup {None}]
    /\ w \in Work /\ (w.pc # "idle" => w.rel \in Releases)
    /\ told \in [Releases -> SUBSET Notes]
    /\ hist \in History

Mine(r) == torrents[r] # None /\ r \notin hist.touched

\* Once an update is in the client under "only new files", no failure lets a
\* file of the version recorded before download: while the torrent runs by
\* the program's doing, those files are skipped (update_policy.go:18-22).
OldFilesStay ==
    \A r \in Releases : Mine(r) /\ torrents[r].run => hist.old[r] \subseteq torrents[r].skip

\* The delivery implements Handover: in every step, failed calls, retries and
\* user interventions included, a torrent is started by the program only with
\* its old files skipped, it skips only files another version wants, and a
\* version is replaced only in a way that keeps the files held back elsewhere.
LeftOf(r) == IF left[r] = None THEN {} ELSE Manifest[r] \ left[r].skip

InClient == [r \in Releases |->
    IF torrents[r] = None
    THEN [here |-> FALSE, run |-> FALSE, skip |-> {}, old |-> {}, user |-> FALSE, left |-> LeftOf(r)]
    ELSE [here |-> TRUE, run |-> torrents[r].run, skip |-> torrents[r].skip,
          old |-> hist.old[r], user |-> r \in hist.touched, left |-> LeftOf(r)]]
Promise == INSTANCE Handover WITH box <- InClient
Implements == Promise!Spec

\* The rename never moves a torrent that has written data, except when the
\* user got in between (folder_name.go:22-25).
RenamesOnlyEmpty ==
    [][\A r \in Releases : Mine(r) /\ torrents'[r] # None
            /\ torrents'[r].toRoot # torrents[r].toRoot => ~torrents[r].data /\ ~torrents[r].run]_vars

\* What the last two promises are about: torrents the user left alone, whose
\* delivery did not die, and whose retries went on with the rename of the
\* first attempt.  A retry plans afresh, from reads that may fail, and so may
\* overlook that a folder was renamed (folder_name.go:162-191, 205-214).
Steady(r) == Mine(r) /\ r \notin hist.crashed \cup hist.astray

Said(r) == told[r] \cup IF w.rel = r THEN w.note ELSE {}

\* A renamed torrent is left running only after its data was rechecked, or
\* the user was told that the recheck failed, by this delivery or one whose
\* result was discarded (folder_name.go:290-336).
CheckedBeforeLeft ==
    \A r \in Releases :
        /\ Steady(r) /\ torrents[r].renamed /\ torrents[r].run
        /\ w.rel = r => w.pc \in {"notify", "result"}
        => torrents[r].checked \/ Said(r) \cap {"recheckFailed", "stopFailed"} # {}

\* A torrent the program leaves stopped is one the user was told about: the
\* recorded release never waits in the client behind a plain "sent" note.
PausedNotes == {"paused", "pick", "noNew", "selected", "selFailed",
                "renameFailed", "startFailed", "recheckFailed", "stopFailed"}
PausedIsTold ==
    \A r \in Releases :
        Steady(r) /\ hash = r /\ ~torrents[r].run => told[r] \cap PausedNotes # {}
=============================================================================
