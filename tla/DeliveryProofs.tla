--------------------------- MODULE DeliveryProofs ---------------------------
(***************************************************************************)
(* For any releases, files, scenarios and number of faults: the delivery   *)
(* implements Handover, whose promises it inherits (no old file downloads, *)
(* none is lost), renames only empty torrents, leaves no renamed torrent   *)
(* running unchecked and none stopped untold.                              *)
(*                                                                         *)
(* The first half is a lemma per action: the step keeps the types and      *)
(* leaves alone what Frame lists.  Then come two inductive invariants: Inv *)
(* of the update policy and, above it, Courses of rename and start.        *)
(***************************************************************************)
EXTENDS Delivery, FiniteSetTheorems, SequenceTheorems, WellFoundedInduction, TLAPS

Present(r) == torrents[r] # None

\* In the client, or removed from it with its data kept.
Kept(r) == Copy(r) # None

\* The update policy applies to what is delivered now.
Applies == IsUpdate /\ CanSelect(kind)

\* Nothing newer than the tracker's release is in the client, and a row is of
\* a release that is still there unless replacing deletes, and its list, where
\* known, is that release's.
Baselines ==
    /\ \A r \in Releases : Present(r) => r <= latest
    /\ \A r \in hist.touched : r \in Releases /\ Present(r)
    /\ \A i \in DOMAIN rows : rows[i].files \in {Unknown, Manifest[rows[i].rel]}
    /\ \A i \in DOMAIN rows, r \in Releases : r = rows[i].rel =>
          r <= latest /\ (Kept(r) \/ opt.replace = "delete")

\* Only older releases are replaced, and none deleted where files are held back.
Replaced ==
    /\ ValidUpdatePolicy(opt)
    /\ \A r \in Releases : left[r] # None => r < latest /\ ~Present(r)
    /\ opt.replace = "delete" => \A r \in Releases : Kept(r) => Copy(r).skip = {}

Selecting == {"wait", "skip", "start"}

\* The plan stays true while it is carried out: rows, settings and the
\* tracker's release change only between two deliveries.
Planned ==
    w.pc # "idle" =>
        /\ w.rel = latest /\ w.paused = Applies /\ w.files = ManifestOf(w.rel)
        /\ w.select => Applies /\ opt.onlyNew
        /\ w.select /\ w.pc \notin {"notify", "result"} =>
             OtherRows(w.rel) # {} /\ w.skip = HeldBack(w.rel)
        /\ w.fold = "rename" => CanSelect(kind) /\ w.want # NoRoot
        /\ w.pc \in Selecting => w.select
        /\ w.pc # "add" => Present(w.rel)
        /\ w.pc = "start" => w.skip \subseteq Tor.skip
        /\ w.pc = "startRenamed" => ~w.paused
        /\ w.prior # "none" => opt.replace # "no"

\* A retry of the newest release holds back no less than its first attempt,
\* or selects nothing because the versions before were replaced.
Held == Present(latest) =>
          /\ OtherRows(latest) # {} => hist.old[latest] \subseteq HeldBack(latest)
          /\ hist.old[latest] # {} => Applies

WantedBelow(f, r) ==
    \E p \in Releases : p < r /\ Kept(p) /\ f \in Manifest[p] \ Copy(p).skip

\* A skipped file is wanted in an older version: what makes skipping safe.
SkipsBelow == \A r \in Releases : Kept(r) => \A f \in Copy(r).skip : WantedBelow(f, r)

\* What waitForStopped saw still holds when the rename is sent and awaited.
Empty ==
    w.pc \in {"rename", "confirm"} /\ w.rel \notin hist.touched =>
        ~Tor.run /\ ~Tor.data /\ Tor.busy = "no"

Inv == TypeOK /\ Baselines /\ Replaced /\ Planned /\ Held /\ SkipsBelow /\ Empty

----------------------------------------------------------------------------
(* The course of a renamed torrent, and of one that waits for its start    *)

Bad == {"recheckFailed", "stopFailed"}

Warned(said) == said \cap Bad # {}
PauseTold(said) == said \cap PausedNotes # {}

Pending(t) == t.toRoot # t.root
Unchecked(t) == t.renamed /\ ~t.checked
Resting(t) == ~t.run /\ ~t.data /\ t.busy = "no"

\* The program points behind the folder step, ...
Onward == {"skip", "policy", "start", "store", "finish", "startRenamed", "running", "recheck", "stop"}

\* ... those at which a torrent may still wait for its start, ...
Waiting == {"idle", "add", "record", "list", "root", "stopped", "rename", "confirm", "wait",
            "skip", "policy", "start", "stop"}

\* ... and those at which the client is known to list it.
Listed(p) == \/ p.pc \in {"skip", "start"}
             \/ p.fold = "rename" /\ p.pc \notin {"idle", "add", "record", "list", "notify", "result"}

\* What the user was or will be told of r, whatever comes, and the delivery
\* of r, if it is the one under way.
Telling(r) == told[r] \cup IF w.rel = r /\ w.pc \notin {"idle", "add"} THEN w.note ELSE {}
Doing(r) == IF w.rel = r /\ w.pc # "idle" THEN w ELSE Idle

\* Of a torrent t whose folder is to be F, of which the user is told what is
\* in said, and whose delivery is at p: a rename is under way or waits for
\* its recheck only on a torrent at rest, unless the user is warned or the
\* recheck is still to come.
Course(t, F, said, p) ==
    /\ t.root = NoRoot => t.toRoot = NoRoot
    /\ p.pc \in {"stopped", "rename"} => t.root # NoRoot
    /\ Pending(t) => Resting(t) /\ t.toRoot = F /\ F # NoRoot
    /\ t.renamed => t.root = F /\ F # NoRoot
    /\ Unchecked(t) => Resting(t) \/ Warned(said) \/ (p.recheck /\ p.pc \in Onward)
    /\ p.pc \in Onward /\ p.fold = "rename" /\ p.ok =>
         ~Pending(t) /\ (Unchecked(t) => p.recheck \/ Warned(said))

\* A torrent is added started, unless the policy applies or it is renamed,
\* and past its start it runs or the user is told that it does not.
Awake(t, F, said, p, applies) ==
    /\ F = NoRoot => t.busy # "recheck" /\ (t.run \/ applies)
    /\ t.busy = "recheck" => t.run \/ PauseTold(said) \/ p.pc = "stop"
    /\ Listed(p) => t.listed
    /\ p.pc \notin Waiting =>
          t.run \/ PauseTold(said)
          \/ (p.pc \in {"finish", "startRenamed"} /\ p.fold = "rename" /\ p.ok /\ ~p.paused)
    /\ p.pc = "recheck" /\ t.run /\ t.flag => PauseTold(said)
    /\ p.pc \in Onward /\ p.recheck /\ ~p.started => ~t.run \/ PauseTold(said)

\* The worker's own flags.
Shape ==
    /\ w.recheck \/ w.started \/ ~w.ok => w.pc \in Onward \cup {"notify", "result"}
    /\ w.recheck => w.fold = "rename" /\ w.ok
    /\ w.pc \in {"running", "recheck", "stop"} => w.recheck
    /\ w.pc \in {"start", "startRenamed"} => w.ok
    /\ ~w.ok => "renameFailed" \in w.note
    /\ w.note \cap Bad # {} => w.pc \in {"notify", "result"}
    /\ w.pc = "result" => w.note \subseteq told[w.rel]
    /\ w.pc # "idle" => w.rel # hash
    /\ w.pc \in {"list", "root", "stopped", "rename", "confirm", "policy", "startRenamed"}
          => w.fold = "rename"
    /\ w.pc = "wait" => w.fold # "rename"

\* The folder the delivery is to give its release.
Aim == w.pc # "idle" /\ w.rel \notin hist.astray =>
          hist.folder[w.rel] = IF w.fold = "rename" THEN w.want ELSE NoRoot

Sound(r) ==
    Steady(r) =>
        /\ Course(torrents[r], hist.folder[r], Telling(r), Doing(r))
        /\ Awake(torrents[r], hist.folder[r], Telling(r), Doing(r), Applies)
        /\ hash = r => torrents[r].run \/ PauseTold(Telling(r))

Courses == Shape /\ Aim /\ \A r \in Releases : Sound(r)

----------------------------------------------------------------------------
(* What the clients' answers make of a torrent                             *)

LEMMA ReadIs ==
  ASSUME NEW t \in Torrent
  PROVE  /\ Read(t) \in Torrent
         /\ Read(t).listed = t.listed /\ Read(t).run = t.run /\ Read(t).busy = t.busy
         /\ Read(t).skip = t.skip /\ Read(t).data = t.data /\ Read(t).root = t.root
         /\ Read(t).toRoot = t.toRoot /\ Read(t).renamed = t.renamed
         /\ Read(t).checked = t.checked
         /\ Read(t).flag = ~t.run
  BY DEF Read, Torrent

LEMMA StartedIs ==
  ASSUME NEW k \in Plugins, NEW t \in Torrent
  PROVE  /\ Started(k, t) \in Torrent
         /\ Started(k, t).listed = t.listed /\ Started(k, t).flag = t.flag
         /\ Started(k, t).busy = t.busy /\ Started(k, t).skip = t.skip
         /\ Started(k, t).data = t.data /\ Started(k, t).root = t.root
         /\ Started(k, t).toRoot = t.toRoot /\ Started(k, t).renamed = t.renamed
         /\ Started(k, t).checked = t.checked
         /\ Started(k, t).run = (t.run \/ (t.listed /\ (k = "qbittorrent" => t.busy # "recheck")))
  BY DEF Started, Torrent

LEMMA StoppedIs ==
  ASSUME NEW t \in Torrent
  PROVE  /\ Stopped(t) \in Torrent
         /\ Stopped(t).listed = t.listed /\ Stopped(t).busy = t.busy
         /\ Stopped(t).skip = t.skip /\ Stopped(t).data = t.data /\ Stopped(t).root = t.root
         /\ Stopped(t).toRoot = t.toRoot /\ Stopped(t).renamed = t.renamed
         /\ Stopped(t).checked = t.checked
         /\ ~Stopped(t).run
  BY DEF Stopped, Torrent

LEMMA RenamingIs ==
  ASSUME NEW k \in Plugins, NEW t \in Torrent, NEW want \in FolderNames \cup {NoRoot}
  PROVE  /\ Renaming(k, t, want) \in Torrent
         /\ Renaming(k, t, want).listed = t.listed /\ Renaming(k, t, want).run = t.run
         /\ Renaming(k, t, want).flag = t.flag /\ Renaming(k, t, want).busy = t.busy
         /\ Renaming(k, t, want).skip = t.skip /\ Renaming(k, t, want).data = t.data
         /\ Renaming(k, t, want).toRoot = want
         /\ \/ /\ Renaming(k, t, want).root = t.root /\ Renaming(k, t, want).renamed = t.renamed
               /\ Renaming(k, t, want).checked = t.checked
            \/ /\ Renaming(k, t, want).root = want /\ Renaming(k, t, want).renamed
               /\ ~Renaming(k, t, want).checked
  BY DEF Renaming, Torrent

LEMMA RecheckedIs ==
  ASSUME NEW k \in Plugins, NEW t \in Torrent, NEW found \in BOOLEAN
  PROVE  /\ Rechecked(k, t, found) \in Torrent
         /\ Rechecked(k, t, found).listed = t.listed /\ Rechecked(k, t, found).flag = t.flag
         /\ Rechecked(k, t, found).skip = t.skip /\ Rechecked(k, t, found).root = t.root
         /\ Rechecked(k, t, found).toRoot = t.toRoot
         /\ Rechecked(k, t, found).renamed = t.renamed
         /\ Rechecked(k, t, found).checked /\ Rechecked(k, t, found).busy = "recheck"
         /\ Rechecked(k, t, found).run => t.run
         /\ t.run /\ ~t.flag => Rechecked(k, t, found).run
  BY DEF Rechecked, Torrent

LEMMA SkippedIs ==
  ASSUME NEW t \in Torrent, NEW files \in SUBSET Files
  PROVE  /\ Skipped(t, files) \in Torrent
         /\ Skipped(t, files).listed = t.listed /\ Skipped(t, files).run = t.run
         /\ Skipped(t, files).flag = t.flag /\ Skipped(t, files).busy = t.busy
         /\ Skipped(t, files).data = t.data /\ Skipped(t, files).root = t.root
         /\ Skipped(t, files).toRoot = t.toRoot /\ Skipped(t, files).renamed = t.renamed
         /\ Skipped(t, files).checked = t.checked
         /\ Skipped(t, files).skip = t.skip \cup files
  BY DEF Skipped, Torrent

LEMMA NewTorrent ==
  ASSUME NEW k \in Plugins, NEW paused \in BOOLEAN, NEW root \in FolderNames \cup {NoRoot}
  PROVE  Added(k, paused, root) \in Torrent
  BY DEF Added, Torrent, CanSelect

----------------------------------------------------------------------------
(* The steps of a delivery between Add and its result                      *)

\* What all of them leave alone.
Frame ==
    /\ UNCHANGED <<kind, opt, left, latest, form, hash, seen>>
    /\ w.pc # "idle" /\ w'.pc # "idle"
    /\ w'.rel = w.rel /\ w'.paused = w.paused /\ w'.select = w.select /\ w'.skip = w.skip
    /\ w'.files = w.files /\ w'.fold = w.fold /\ w'.want = w.want /\ w'.prior = w.prior
    /\ hist'.touched = hist.touched /\ hist'.crashed = hist.crashed
    /\ hist'.folder = hist.folder /\ hist'.old = hist.old
    /\ hist.astray \subseteq hist'.astray /\ hist'.astray \subseteq hist.astray \cup {w.rel}
    /\ \A q \in Releases \ {w.rel} : torrents'[q] = torrents[q] /\ told'[q] = told[q]

\* The worker's next state, as the calls below give it.
Continues(next) ==
    /\ next \in Work /\ next.pc # "idle" /\ next.rel = w.rel /\ next.paused = w.paused
    /\ next.select = w.select /\ next.skip = w.skip /\ next.files = w.files
    /\ next.fold = w.fold /\ next.want = w.want /\ next.prior = w.prior

LEMMA Calling ==
  ASSUME TypeOK, w.pc # "idle", Tor # None,
         NEW out \in Attempt, NEW effect \in Torrent, NEW next, Continues(next),
         Call(out, effect, next)
  PROVE  /\ TypeOK' /\ Frame /\ UNCHANGED <<rows, told>> /\ hist'.astray = hist.astray
         /\ w' = next /\ torrents'[w.rel] = IF out = "error" THEN Tor ELSE effect
  <1>1. /\ w.rel \in Releases /\ Tor \in Torrent
        /\ torrents \in [Releases -> Torrent \cup {None}]
    BY DEF TypeOK, Tor
  <1>2. torrents' = [torrents EXCEPT ![w.rel] = IF out = "error" THEN Tor ELSE effect]
    BY <1>1 DEF Call, Tor
  <1>3. /\ torrents' \in [Releases -> Torrent \cup {None}]
        /\ torrents'[w.rel] = IF out = "error" THEN Tor ELSE effect
        /\ \A q \in Releases \ {w.rel} : torrents'[q] = torrents[q]
    BY <1>1, <1>2
  <1>4. /\ hist' = [hist EXCEPT !.faults = @ + Cost(out)] /\ Pay("call", Cost(out))
        /\ w' = next /\ UNCHANGED <<kind, opt, left, latest, form, hash, seen, rows, told>>
    BY DEF Call
  <1>5. /\ hist' \in History /\ hist'.touched = hist.touched /\ hist'.crashed = hist.crashed
        /\ hist'.folder = hist.folder /\ hist'.old = hist.old /\ hist'.astray = hist.astray
    <2>1. hist \in History
      BY DEF TypeOK
    <2>2. hist.faults + Cost(out) \in 0..MaxFaults
      BY <1>4, <2>1, DeliveryAssumption DEF History, Pay, Cost
    <2> QED BY <1>4, <2>1, <2>2 DEF History
  <1>6. TypeOK'
    BY <1>1, <1>3, <1>4, <1>5 DEF TypeOK, Continues
  <1> QED BY <1>3, <1>4, <1>5, <1>6 DEF Frame, Continues

LEMMA OneFault ==
  ASSUME TypeOK, NEW n \in Nat, hist.faults + n <= MaxFaults, hist' = [hist EXCEPT !.faults = @ + n]
  PROVE  /\ hist' \in History /\ hist'.touched = hist.touched /\ hist'.crashed = hist.crashed
         /\ hist'.folder = hist.folder /\ hist'.old = hist.old /\ hist'.astray = hist.astray
  <1>1. hist \in History
    BY DEF TypeOK
  <1>2. hist.faults + n \in 0..MaxFaults
    BY <1>1, DeliveryAssumption DEF History
  <1> QED BY <1>1, <1>2 DEF History

\* A step that leaves the client and the user alone.
LEMMA Moving ==
  ASSUME TypeOK, w.pc # "idle", NEW next, Continues(next), w' = next,
         UNCHANGED <<kind, opt, left, latest, form, hash, seen, rows, torrents, told>>,
         \/ hist' = hist
         \/ Pay("call", 1) /\ hist' = [hist EXCEPT !.faults = @ + 1]
  PROVE  /\ TypeOK' /\ Frame /\ hist'.astray = hist.astray
  <1>1. /\ hist' \in History /\ hist'.touched = hist.touched /\ hist'.crashed = hist.crashed
        /\ hist'.folder = hist.folder /\ hist'.old = hist.old /\ hist'.astray = hist.astray
    <2>1. CASE hist' = hist
      BY <2>1 DEF TypeOK
    <2>2. CASE Pay("call", 1) /\ hist' = [hist EXCEPT !.faults = @ + 1]
      <3>1. 1 \in Nat /\ hist.faults + 1 <= MaxFaults
        BY <2>2 DEF Pay
      <3> QED BY <2>2, <3>1, OneFault
    <2> QED BY <2>1, <2>2
  <1>2. TypeOK'
    BY <1>1 DEF TypeOK, Continues
  <1> QED BY <1>1, <1>2 DEF Frame, Continues

\* The torrent being delivered, after the step.
Now == torrents'[w.rel]

\* The folder step is over.
Leaves(note, ok) ==
    /\ w'.pc = IF w.select /\ Manifest[w.rel] # {} THEN "skip" ELSE "policy"
    /\ w'.note = w.note \cup {note} /\ w'.ok = ok

LEMMA FoldedIs ==
  ASSUME w \in Work, NEW note \in Notes, NEW ok \in BOOLEAN
  PROVE  /\ Continues(Folded(note, ok))
         /\ \A b \in BOOLEAN : Continues([Folded(note, ok) EXCEPT !.recheck = b])
  <1> DEFINE v == IF w.select /\ Manifest[w.rel] # {} THEN "skip" ELSE "policy"
             next == [w EXCEPT !.note = @ \cup {note}, !.ok = ok, !.pc = v]
  <1>1. v \in PCs /\ v # "idle"
    BY DEF PCs
  <1>2. Folded(note, ok) = next
    BY DEF Folded
  <1> HIDE DEF v
  <1>3. w.note \cup {note} \in SUBSET Notes
    BY DEF Work
  <1>4. /\ next \in Work /\ next.pc = v /\ next.rel = w.rel /\ next.paused = w.paused
        /\ next.select = w.select /\ next.skip = w.skip /\ next.files = w.files
        /\ next.fold = w.fold /\ next.want = w.want /\ next.prior = w.prior
    BY <1>1, <1>3 DEF Work
  <1> HIDE DEF next
  <1>5. Continues(next)
    BY <1>1, <1>4 DEF Continues
  <1>6. ASSUME NEW b \in BOOLEAN PROVE Continues([next EXCEPT !.recheck = b])
    BY <1>1, <1>4 DEF Continues, Work
  <1> QED BY <1>2, <1>5, <1>6

LEMMA ListFilesIs ==
  ASSUME TypeOK, ListFiles
  PROVE  /\ TypeOK' /\ Frame /\ UNCHANGED <<rows, told, torrents>> /\ hist'.astray = hist.astray
         /\ w'.ok = w.ok /\ w'.recheck = w.recheck /\ w'.started = w.started
         /\ \/ w'.pc = "root" /\ w'.note = w.note /\ HasFiles(Tor)
            \/ w'.pc = "notify" /\ w'.note = {"renameFailed"}
  <1>1. w \in Work /\ w.pc = "list"
    BY DEF TypeOK, ListFiles
  <1>2. CASE /\ HasFiles(Tor) /\ w' = Go("root")
             /\ UNCHANGED <<kind, opt, left, latest, form, hash, seen, rows, torrents, told, hist>>
    <2>1. Continues(Go("root"))
      BY <1>1 DEF Continues, Go, Work, PCs
    <2>2. TypeOK' /\ Frame /\ hist'.astray = hist.astray
      BY <1>1, <1>2, <2>1, Moving
    <2> QED BY <1>1, <1>2, <2>2 DEF Go, Work
  <1>3. CASE /\ Pay("call", 1) /\ hist' = [hist EXCEPT !.faults = @ + 1]
             /\ w' = [w EXCEPT !.pc = "notify", !.note = {"renameFailed"}]
             /\ UNCHANGED <<kind, opt, left, latest, form, hash, seen, rows, torrents, told>>
    <2>1. Continues([w EXCEPT !.pc = "notify", !.note = {"renameFailed"}])
      BY <1>1 DEF Continues, Work, PCs, Notes
    <2>2. TypeOK' /\ Frame /\ hist'.astray = hist.astray
      BY <1>1, <1>3, <2>1, Moving
    <2> QED BY <1>1, <1>3, <2>2 DEF Work
  <1> QED BY <1>2, <1>3 DEF ListFiles, Wait

LEMMA waitForRootIs ==
  ASSUME TypeOK, waitForRoot
  PROVE  /\ TypeOK' /\ Frame /\ UNCHANGED <<rows, told, torrents>> /\ hist'.astray = hist.astray
         /\ Tor # None /\ w'.started = w.started
         /\ \/ Leaves("saved", TRUE) /\ w'.recheck /\ Tor.root = w.want
            \/ Leaves("renameFailed", FALSE) /\ w'.recheck = w.recheck
  <1>1. w \in Work /\ w.pc = "confirm" /\ Tor # None
    BY DEF TypeOK, waitForRoot
  <1>2. CASE /\ Tor.root = w.want /\ w' = [Folded("saved", TRUE) EXCEPT !.recheck = TRUE]
             /\ UNCHANGED <<kind, opt, left, latest, form, hash, seen, rows, torrents, told, hist>>
    <2>1. Continues([Folded("saved", TRUE) EXCEPT !.recheck = TRUE])
      BY <1>1, FoldedIs DEF Notes
    <2>2. TypeOK' /\ Frame /\ hist'.astray = hist.astray
      BY <1>1, <1>2, <2>1, Moving
    <2> QED BY <1>1, <1>2, <2>2 DEF Folded, Work, Leaves
  <1>3. CASE /\ Pay("call", 1) /\ hist' = [hist EXCEPT !.faults = @ + 1]
             /\ w' = Folded("renameFailed", FALSE)
             /\ UNCHANGED <<kind, opt, left, latest, form, hash, seen, rows, torrents, told>>
    <2>1. Continues(Folded("renameFailed", FALSE))
      BY <1>1, FoldedIs DEF Notes
    <2>2. TypeOK' /\ Frame /\ hist'.astray = hist.astray
      BY <1>1, <1>3, <2>1, Moving
    <2> QED BY <1>1, <1>3, <2>2 DEF Folded, Work, Leaves
  <1> QED BY <1>1, <1>2, <1>3 DEF waitForRoot, Wait

LEMMA waitForFilesIs ==
  ASSUME TypeOK, waitForFiles
  PROVE  /\ TypeOK' /\ Frame /\ UNCHANGED <<rows, told, torrents>> /\ hist'.astray = hist.astray
         /\ w'.ok = w.ok /\ w'.recheck = w.recheck /\ w'.started = w.started
         /\ \/ w'.pc = "skip" /\ w'.note = w.note /\ HasFiles(Tor)
            \/ w'.pc = "finish" /\ w'.note = w.note \cup {"selFailed"}
  <1>1. w \in Work /\ w.pc = "wait"
    BY DEF TypeOK, waitForFiles
  <1>2. CASE /\ HasFiles(Tor) /\ w' = Go("skip")
             /\ UNCHANGED <<kind, opt, left, latest, form, hash, seen, rows, torrents, told, hist>>
    <2>1. Continues(Go("skip"))
      BY <1>1 DEF Continues, Go, Work, PCs
    <2>2. TypeOK' /\ Frame /\ hist'.astray = hist.astray
      BY <1>1, <1>2, <2>1, Moving
    <2> QED BY <1>1, <1>2, <2>2 DEF Go, Work
  <1>3. CASE /\ Pay("call", 1) /\ hist' = [hist EXCEPT !.faults = @ + 1]
             /\ w' = Noting("finish", "selFailed")
             /\ UNCHANGED <<kind, opt, left, latest, form, hash, seen, rows, torrents, told>>
    <2>1. Continues(Noting("finish", "selFailed"))
      BY <1>1 DEF Continues, Noting, Work, PCs, Notes
    <2>2. TypeOK' /\ Frame /\ hist'.astray = hist.astray
      BY <1>1, <1>3, <2>1, Moving
    <2> QED BY <1>1, <1>3, <2>2 DEF Noting, Work
  <1> QED BY <1>2, <1>3 DEF waitForFiles, Wait

LEMMA applyFolderNameIs ==
  ASSUME TypeOK, applyFolderName
  PROVE  /\ TypeOK' /\ Frame /\ UNCHANGED <<rows, told>> /\ w'.started = w.started
         /\ Tor \in Torrent
         /\ \/ Tor.root = NoRoot /\ Leaves("cannot", TRUE) /\ w'.recheck = w.recheck /\ Now = Tor
            \/ /\ Tor.root # NoRoot /\ w'.pc = "stopped" /\ w'.note = w.note
               /\ w'.ok = w.ok /\ w'.recheck = w.recheck /\ Now = Tor
            \/ /\ Tor.root = w.want /\ Now = Read(Tor) /\ Leaves("saved", TRUE)
               /\ w'.recheck = (ReportsStopped(Tor) /\ ~Tor.data)
            \/ w.rel \in hist'.astray /\ Now = Tor /\ Leaves("saved", TRUE) /\ w'.recheck = w.recheck
  <1>1. /\ w \in Work /\ w.pc = "root" /\ Tor # None /\ w.rel \in Releases /\ Tor \in Torrent
        /\ torrents \in [Releases -> Torrent \cup {None}]
    BY DEF TypeOK, applyFolderName, Tor
  <1>2. CASE /\ Tor.root = NoRoot \/ Tor.root # w.want
             /\ w' = IF Tor.root = NoRoot THEN Folded("cannot", TRUE) ELSE Go("stopped")
             /\ UNCHANGED <<kind, opt, left, latest, form, hash, seen, rows, torrents, told, hist>>
    <2>1. Continues(Folded("cannot", TRUE)) /\ Continues(Go("stopped"))
      <3>1. Continues(Go("stopped"))
        BY <1>1 DEF Continues, Go, Work, PCs
      <3> QED BY <1>1, <3>1, FoldedIs DEF Notes
    <2>2. Continues(IF Tor.root = NoRoot THEN Folded("cannot", TRUE) ELSE Go("stopped"))
      BY <2>1
    <2>3. TypeOK' /\ Frame
      BY <1>1, <1>2, <2>2, Moving
    <2>4. Now = Tor
      BY <1>2 DEF Now, Tor
    <2> QED BY <1>1, <1>2, <2>3, <2>4 DEF Folded, Go, Work, Leaves
  <1>3. CASE /\ Tor.root = w.want
             /\ Call("ok", Read(Tor),
                     [Folded("saved", TRUE) EXCEPT !.recheck = ReportsStopped(Tor) /\ ~Tor.data])
    <2> DEFINE next == [Folded("saved", TRUE) EXCEPT !.recheck = ReportsStopped(Tor) /\ ~Tor.data]
    <2>1. Continues(next)
      <3>1. \A b \in BOOLEAN : Continues([Folded("saved", TRUE) EXCEPT !.recheck = b])
        BY <1>1, FoldedIs DEF Notes
      <3>2. (ReportsStopped(Tor) /\ ~Tor.data) \in BOOLEAN
        OBVIOUS
      <3> QED BY <3>1, <3>2
    <2>2. Read(Tor) \in Torrent
      BY <1>1 DEF Torrent, Read
    <2>3. Call("ok", Read(Tor), next) /\ "ok" \in Attempt
      BY <1>3 DEF Attempt
    <2>4. next.recheck = (ReportsStopped(Tor) /\ ~Tor.data) /\ next.started = w.started
          /\ next.pc = (IF w.select /\ Manifest[w.rel] # {} THEN "skip" ELSE "policy")
          /\ next.note = w.note \cup {"saved"} /\ next.ok = TRUE
      BY <1>1 DEF Folded, Work
    <2> HIDE DEF next
    <2>5. /\ TypeOK' /\ Frame /\ UNCHANGED <<rows, told>>
          /\ w' = next /\ torrents'[w.rel] = Read(Tor)
      BY <1>1, <2>1, <2>2, <2>3, Calling
    <2> QED BY <1>1, <1>3, <2>4, <2>5 DEF Now, Leaves
  <1>4. CASE /\ Pay("call", 1)
             /\ hist' = [hist EXCEPT !.faults = @ + 1, !.astray = @ \cup {w.rel}]
             /\ w' = Folded("saved", TRUE)
             /\ UNCHANGED <<kind, opt, left, latest, form, hash, seen, rows, torrents, told>>
    <2>1. Continues(Folded("saved", TRUE))
      BY <1>1, FoldedIs DEF Notes
    <2>2. hist \in History /\ hist.faults + 1 \in 0..MaxFaults
      BY <1>4, DeliveryAssumption DEF TypeOK, Pay, History
    <2>3. /\ hist' \in History /\ hist'.touched = hist.touched /\ hist'.crashed = hist.crashed
          /\ hist'.folder = hist.folder /\ hist'.old = hist.old
          /\ hist'.astray = hist.astray \cup {w.rel}
      BY <1>1, <1>4, <2>2 DEF History
    <2>4. TypeOK'
      BY <1>1, <1>4, <2>1, <2>3 DEF TypeOK, Continues
    <2>5. Frame
      BY <1>1, <1>4, <2>1, <2>3 DEF Frame, Continues
    <2>6. Now = Tor
      BY <1>4 DEF Now, Tor
    <2> QED BY <1>1, <1>4, <2>3, <2>4, <2>5, <2>6 DEF Folded, Work, Leaves
  <1>5. \/ Tor.root = NoRoot \/ Tor.root # w.want
        \/ Tor.root = w.want
    OBVIOUS
  <1> QED BY <1>2, <1>3, <1>4, <1>5 DEF applyFolderName

LEMMA waitForStoppedIs ==
  ASSUME TypeOK, waitForStopped
  PROVE  /\ TypeOK' /\ Frame /\ UNCHANGED <<rows, told>> /\ hist'.astray = hist.astray
         /\ w'.started = w.started /\ w'.recheck = w.recheck /\ Tor \in Torrent
         /\ \/ /\ Now = Read(Tor) /\ Leaves("cannot", TRUE)
               /\ ~(ReportsStopped(Tor) /\ ~Tor.data)
            \/ /\ Now = Read(Tor) /\ ReportsStopped(Tor) /\ ~Tor.data
               /\ w'.pc = "rename" /\ w'.note = w.note /\ w'.ok = w.ok
            \/ Now = Tor /\ Leaves("renameFailed", FALSE)
  <1>1. w \in Work /\ w.pc = "stopped" /\ Tor # None /\ w.rel \in Releases /\ Tor \in Torrent
    BY DEF TypeOK, waitForStopped, Tor
  <1>2. CASE Call("ok", Read(Tor),
                  CASE ~ReportsStopped(Tor) -> Folded("cannot", TRUE)
                    [] Tor.data             -> Folded("cannot", TRUE)
                    [] OTHER                -> Go("rename"))
    <2> DEFINE next == CASE ~ReportsStopped(Tor) -> Folded("cannot", TRUE)
                         [] Tor.data             -> Folded("cannot", TRUE)
                         [] OTHER                -> Go("rename")
    <2>1. Continues(Folded("cannot", TRUE)) /\ Continues(Go("rename"))
      <3>1. Continues(Go("rename"))
        BY <1>1 DEF Continues, Go, Work, PCs
      <3> QED BY <1>1, <3>1, FoldedIs DEF Notes
    <2>2. \/ ~(ReportsStopped(Tor) /\ ~Tor.data) /\ next = Folded("cannot", TRUE)
          \/ ReportsStopped(Tor) /\ ~Tor.data /\ next = Go("rename")
      OBVIOUS
    <2>3. Read(Tor) \in Torrent
      BY <1>1 DEF Torrent, Read
    <2>4. Call("ok", Read(Tor), next) /\ "ok" \in Attempt
      BY <1>2 DEF Attempt
    <2> HIDE DEF next
    <2>5. /\ TypeOK' /\ Frame /\ UNCHANGED <<rows, told>> /\ hist'.astray = hist.astray
          /\ w' = next /\ torrents'[w.rel] = Read(Tor)
      BY <1>1, <2>1, <2>2, <2>3, <2>4, Calling
    <2> QED BY <1>1, <2>2, <2>5 DEF Now, Leaves, Folded, Go, Work
  <1>3. CASE Call("error", Tor, Folded("renameFailed", FALSE))
    <2>1. Continues(Folded("renameFailed", FALSE)) /\ "error" \in Attempt
      BY <1>1, FoldedIs DEF Notes, Attempt
    <2>2. /\ TypeOK' /\ Frame /\ UNCHANGED <<rows, told>> /\ hist'.astray = hist.astray
          /\ w' = Folded("renameFailed", FALSE) /\ torrents'[w.rel] = Tor
      BY <1>1, <1>3, <2>1, Calling
    <2> QED BY <1>1, <2>2 DEF Now, Leaves, Folded, Work
  <1> QED BY <1>2, <1>3 DEF waitForStopped

LEMMA RenameRootIs ==
  ASSUME TypeOK, RenameRoot
  PROVE  /\ TypeOK' /\ Frame /\ UNCHANGED <<rows, told>> /\ hist'.astray = hist.astray
         /\ w'.started = w.started /\ w'.recheck = w.recheck /\ Tor \in Torrent
         /\ Now \in {Tor, Renaming(kind, Tor, w.want)}
         /\ \/ w'.pc = "confirm" /\ w'.note = w.note /\ w'.ok = w.ok
            \/ Leaves("renameFailed", FALSE)
  <1>1. /\ w \in Work /\ w.pc = "rename" /\ Tor # None /\ w.rel \in Releases /\ Tor \in Torrent
        /\ kind \in Plugins
    BY DEF TypeOK, RenameRoot, Tor
  <1>2. PICK out \in Attempt :
          Call(out, Renaming(kind, Tor, w.want),
               IF out = "ok" THEN Go("confirm") ELSE Folded("renameFailed", FALSE))
    BY DEF RenameRoot
  <1>3. Continues(Go("confirm")) /\ Continues(Folded("renameFailed", FALSE))
    <2>1. Continues(Go("confirm"))
      BY <1>1 DEF Continues, Go, Work, PCs
    <2> QED BY <1>1, <2>1, FoldedIs DEF Notes
  <1>4. Renaming(kind, Tor, w.want) \in Torrent
    BY <1>1 DEF Renaming, Torrent, Work
  <1> DEFINE next == IF out = "ok" THEN Go("confirm") ELSE Folded("renameFailed", FALSE)
  <1>5. /\ Continues(next) /\ Call(out, Renaming(kind, Tor, w.want), next)
        /\ next \in {Go("confirm"), Folded("renameFailed", FALSE)}
    BY <1>2, <1>3
  <1> HIDE DEF next
  <1>6. /\ TypeOK' /\ Frame /\ UNCHANGED <<rows, told>> /\ hist'.astray = hist.astray
        /\ w' = next /\ torrents'[w.rel] = IF out = "error" THEN Tor ELSE Renaming(kind, Tor, w.want)
    BY <1>1, <1>4, <1>5, Calling
  <1> QED BY <1>1, <1>5, <1>6 DEF Now, Leaves, Folded, Go, Work

LEMMA SkipFilesIs ==
  ASSUME TypeOK, SkipFiles
  PROVE  /\ TypeOK' /\ Frame /\ UNCHANGED <<rows, told>> /\ hist'.astray = hist.astray
         /\ w'.started = w.started /\ w'.recheck = w.recheck /\ w'.ok = w.ok /\ Tor \in Torrent
         /\ Now \in {Tor, Skipped(Tor, w.skip)}
         /\ \/ w'.pc = "finish" /\ w'.note = w.note \cup {"selFailed"}
            \/ w'.pc = "store" /\ w'.note \in {w.note \cup {"noNew"}, w.note \cup {"selected"}}
            \/ w'.pc = "start" /\ w'.note = w.note /\ w.ok /\ Now = Skipped(Tor, w.skip)
  <1>1. w \in Work /\ w.pc = "skip" /\ Tor # None /\ w.rel \in Releases /\ Tor \in Torrent
    BY DEF TypeOK, SkipFiles, Tor
  <1> DEFINE Next0(out) ==
        IF out # "ok" THEN Noting("finish", "selFailed")
        ELSE IF NewCount = 0 THEN Noting("store", "noNew")
        ELSE IF opt.addPaused \/ ~w.ok THEN Noting("store", "selected") ELSE Go("start")
  <1>2. PICK out \in Attempt : Call(out, Skipped(Tor, w.skip), Next0(out))
    BY DEF SkipFiles
  <1>3. /\ Continues(Noting("finish", "selFailed")) /\ Continues(Noting("store", "noNew"))
        /\ Continues(Noting("store", "selected")) /\ Continues(Go("start"))
    BY <1>1 DEF Continues, Noting, Go, Work, PCs, Notes
  <1>4. Skipped(Tor, w.skip) \in Torrent
    BY <1>1 DEF Skipped, Torrent, Work
  <1>5. \/ Next0(out) \in {Noting("finish", "selFailed"), Noting("store", "noNew"), Noting("store", "selected")}
        \/ Next0(out) = Go("start") /\ w.ok /\ out = "ok"
    OBVIOUS
  <1> HIDE DEF Next0
  <1>6. /\ TypeOK' /\ Frame /\ UNCHANGED <<rows, told>> /\ hist'.astray = hist.astray
        /\ w' = Next0(out) /\ torrents'[w.rel] = IF out = "error" THEN Tor ELSE Skipped(Tor, w.skip)
    BY <1>1, <1>2, <1>3, <1>4, <1>5, Calling
  <1> QED BY <1>1, <1>5, <1>6 DEF Now, Noting, Go, Work

LEMMA StartSelectedIs ==
  ASSUME TypeOK, StartSelected
  PROVE  /\ TypeOK' /\ Frame /\ UNCHANGED <<rows, told>> /\ hist'.astray = hist.astray
         /\ w'.recheck = w.recheck /\ w'.ok = w.ok /\ Tor \in Torrent
         /\ \/ /\ w'.pc = "store" /\ w'.note = w.note \cup {"downloading"} /\ w'.started
               /\ Now = Started(kind, Tor)
            \/ /\ w'.pc = "finish" /\ w'.note = w.note \cup {"selFailed"} /\ w'.started = w.started
               /\ Now \in {Tor, Started(kind, Tor)}
  <1>1. /\ w \in Work /\ w.pc = "start" /\ Tor # None /\ w.rel \in Releases /\ Tor \in Torrent
        /\ kind \in Plugins
    BY DEF TypeOK, StartSelected, Tor
  <1> DEFINE Next0(out) ==
        IF out = "ok" THEN [Noting("store", "downloading") EXCEPT !.started = TRUE]
                      ELSE Noting("finish", "selFailed")
  <1>2. PICK out \in Attempt : Call(out, Started(kind, Tor), Next0(out))
    BY DEF StartSelected
  <1>3. /\ Continues([Noting("store", "downloading") EXCEPT !.started = TRUE])
        /\ Continues(Noting("finish", "selFailed"))
    BY <1>1 DEF Continues, Noting, Work, PCs, Notes
  <1>4. Started(kind, Tor) \in Torrent
    BY <1>1 DEF Started, Torrent
  <1>5. \/ Next0(out) = [Noting("store", "downloading") EXCEPT !.started = TRUE] /\ out = "ok"
        \/ Next0(out) = Noting("finish", "selFailed")
    OBVIOUS
  <1> HIDE DEF Next0
  <1>6. /\ TypeOK' /\ Frame /\ UNCHANGED <<rows, told>> /\ hist'.astray = hist.astray
        /\ w' = Next0(out) /\ torrents'[w.rel] = IF out = "error" THEN Tor ELSE Started(kind, Tor)
    BY <1>1, <1>2, <1>3, <1>4, <1>5, Calling
  <1> QED BY <1>1, <1>5, <1>6 DEF Now, Noting, Work

LEMMA startRenamedIs ==
  ASSUME TypeOK, startRenamed
  PROVE  /\ TypeOK' /\ Frame /\ UNCHANGED <<rows, told>> /\ hist'.astray = hist.astray
         /\ w'.recheck = w.recheck /\ w'.ok = w.ok /\ Tor \in Torrent
         /\ \/ /\ w'.pc = (IF w.recheck THEN "running" ELSE "notify") /\ w'.note = w.note /\ w'.started
               /\ Now = Started(kind, Tor)
            \/ /\ w'.pc = (IF w.recheck THEN "recheck" ELSE "notify")
               /\ w'.note = w.note \cup {"startFailed"} /\ w'.started = w.started
               /\ Now \in {Tor, Started(kind, Tor)}
  <1>1. /\ w \in Work /\ w.pc = "startRenamed" /\ Tor # None /\ w.rel \in Releases
        /\ Tor \in Torrent /\ kind \in Plugins
    BY DEF TypeOK, startRenamed, Tor
  <1> DEFINE After(out) == IF out = "ok" THEN [w EXCEPT !.started = TRUE]
                                         ELSE [w EXCEPT !.note = @ \cup {"startFailed"}]
             Next0(out) == [After(out) EXCEPT !.pc = IF ~w.recheck THEN "notify"
                                              ELSE IF out = "ok" THEN "running" ELSE "recheck"]
  <1>2. PICK out \in Attempt : Call(out, Started(kind, Tor), Next0(out))
    BY DEF startRenamed
  <1>3. /\ After(out) \in Work
        /\ out = "ok" => After(out).note = w.note /\ After(out).started
        /\ out # "ok" => After(out).note = w.note \cup {"startFailed"} /\ After(out).started = w.started
        /\ After(out).ok = w.ok /\ After(out).recheck = w.recheck /\ After(out).rel = w.rel
        /\ After(out).paused = w.paused /\ After(out).select = w.select /\ After(out).skip = w.skip
        /\ After(out).files = w.files /\ After(out).fold = w.fold /\ After(out).want = w.want
        /\ After(out).prior = w.prior
    BY <1>1 DEF Work, Notes
  <1> HIDE DEF After
  <1>4. /\ Continues(Next0(out)) /\ Next0(out).note = After(out).note
        /\ Next0(out).ok = After(out).ok
        /\ Next0(out).started = After(out).started /\ Next0(out).recheck = After(out).recheck
        /\ Next0(out).pc = IF ~w.recheck THEN "notify" ELSE IF out = "ok" THEN "running" ELSE "recheck"
    BY <1>1, <1>3 DEF Continues, Work, PCs
  <1> HIDE DEF Next0
  <1>5. Started(kind, Tor) \in Torrent
    BY <1>1 DEF Started, Torrent
  <1>6. /\ TypeOK' /\ Frame /\ UNCHANGED <<rows, told>> /\ hist'.astray = hist.astray
        /\ w' = Next0(out) /\ torrents'[w.rel] = IF out = "error" THEN Tor ELSE Started(kind, Tor)
    BY <1>1, <1>2, <1>4, <1>5, Calling
  <1> QED BY <1>1, <1>3, <1>4, <1>6 DEF Now

LEMMA waitForRunningIs ==
  ASSUME TypeOK, waitForRunning
  PROVE  /\ TypeOK' /\ Frame /\ UNCHANGED <<rows, told>> /\ hist'.astray = hist.astray
         /\ w'.recheck = w.recheck /\ w'.ok = w.ok /\ w'.started = w.started /\ Tor \in Torrent
         /\ w'.note = w.note
         /\ \/ w'.pc = "recheck" /\ Now = Read(Tor)
            \/ w'.pc = "stop" /\ Now = Tor
  <1>1. w \in Work /\ w.pc = "running" /\ Tor # None /\ w.rel \in Releases /\ Tor \in Torrent
    BY DEF TypeOK, waitForRunning, Tor
  <1>2. Continues(Go("recheck")) /\ Continues(Go("stop")) /\ "ok" \in Attempt /\ "error" \in Attempt
    BY <1>1 DEF Continues, Go, Work, PCs, Attempt
  <1>3. Read(Tor) \in Torrent
    BY <1>1 DEF Read, Torrent
  <1>4. CASE Call("ok", Read(Tor), Go("recheck"))
    <2>1. /\ TypeOK' /\ Frame /\ UNCHANGED <<rows, told>> /\ hist'.astray = hist.astray
          /\ w' = Go("recheck") /\ torrents'[w.rel] = Read(Tor)
      BY <1>1, <1>2, <1>3, <1>4, Calling
    <2> QED BY <1>1, <2>1 DEF Now, Go, Work
  <1>5. CASE Call("error", Tor, Go("stop"))
    <2>1. /\ TypeOK' /\ Frame /\ UNCHANGED <<rows, told>> /\ hist'.astray = hist.astray
          /\ w' = Go("stop") /\ torrents'[w.rel] = Tor
      BY <1>1, <1>2, <1>5, Calling
    <2> QED BY <1>1, <2>1 DEF Now, Go, Work
  <1> QED BY <1>4, <1>5 DEF waitForRunning

LEMMA recheckRenamedIs ==
  ASSUME TypeOK, recheckRenamed
  PROVE  /\ TypeOK' /\ Frame /\ UNCHANGED <<rows, told>> /\ hist'.astray = hist.astray
         /\ w'.recheck = w.recheck /\ w'.ok = w.ok /\ w'.started = w.started /\ Tor \in Torrent
         /\ w'.note = w.note
         /\ \E found \in BOOLEAN :
              \/ w'.pc = "notify" /\ Now = Rechecked(kind, Tor, found)
              \/ w'.pc = "stop" /\ Now \in {Tor, Rechecked(kind, Tor, found)}
  <1>1. /\ w \in Work /\ w.pc = "recheck" /\ Tor # None /\ w.rel \in Releases /\ Tor \in Torrent
        /\ kind \in Plugins
    BY DEF TypeOK, recheckRenamed, Tor
  <1> DEFINE found == \E r \in Releases \ {w.rel} :
                Copy(r) # None /\ Copy(r).root = Tor.root /\ Copy(r).data
  <1>2. PICK out \in Attempt :
          Call(out, Rechecked(kind, Tor, found), Go(IF out = "ok" THEN "notify" ELSE "stop"))
    BY DEF recheckRenamed
  <1>3. found \in BOOLEAN
    OBVIOUS
  <1> HIDE DEF found
  <1>4. Continues(Go(IF out = "ok" THEN "notify" ELSE "stop"))
    BY <1>1 DEF Continues, Go, Work, PCs
  <1>5. Rechecked(kind, Tor, found) \in Torrent
    BY <1>1, <1>3 DEF Rechecked, Torrent
  <1>6. /\ TypeOK' /\ Frame /\ UNCHANGED <<rows, told>> /\ hist'.astray = hist.astray
        /\ w' = Go(IF out = "ok" THEN "notify" ELSE "stop")
        /\ torrents'[w.rel] = IF out = "error" THEN Tor ELSE Rechecked(kind, Tor, found)
    BY <1>1, <1>2, <1>4, <1>5, Calling
  <1>7. /\ w'.recheck = w.recheck /\ w'.ok = w.ok /\ w'.started = w.started /\ w'.note = w.note
        /\ \/ w'.pc = "notify" /\ Now = Rechecked(kind, Tor, found)
           \/ w'.pc = "stop" /\ Now \in {Tor, Rechecked(kind, Tor, found)}
    BY <1>1, <1>6 DEF Now, Go, Work
  <1> QED BY <1>1, <1>3, <1>6, <1>7

LEMMA stopUncheckedIs ==
  ASSUME TypeOK, stopUnchecked
  PROVE  /\ TypeOK' /\ Frame /\ UNCHANGED <<rows, told>> /\ hist'.astray = hist.astray
         /\ w'.recheck = w.recheck /\ w'.ok = w.ok /\ w'.started = w.started /\ Tor \in Torrent
         /\ w'.pc = "notify"
         /\ w'.note \in {w.note \cup {"recheckFailed"}, w.note \cup {"stopFailed"}}
         /\ Now \in {Tor, Stopped(Tor)}
  <1>1. w \in Work /\ w.pc = "stop" /\ Tor # None /\ w.rel \in Releases /\ Tor \in Torrent
    BY DEF TypeOK, stopUnchecked, Tor
  <1>2. PICK out \in Attempt :
          Call(out, Stopped(Tor),
               Noting("notify", IF out = "ok" THEN "recheckFailed" ELSE "stopFailed"))
    BY DEF stopUnchecked
  <1> DEFINE note == IF out = "ok" THEN "recheckFailed" ELSE "stopFailed"
  <1>3. note \in {"recheckFailed", "stopFailed"} /\ Call(out, Stopped(Tor), Noting("notify", note))
    BY <1>2
  <1> HIDE DEF note
  <1>4. Continues(Noting("notify", note))
    BY <1>1, <1>3 DEF Continues, Noting, Work, PCs, Notes
  <1>5. Stopped(Tor) \in Torrent
    BY <1>1 DEF Stopped, Torrent
  <1>6. /\ TypeOK' /\ Frame /\ UNCHANGED <<rows, told>> /\ hist'.astray = hist.astray
        /\ w' = Noting("notify", note) /\ torrents'[w.rel] = IF out = "error" THEN Tor ELSE Stopped(Tor)
    BY <1>1, <1>3, <1>4, <1>5, Calling
  <1> QED BY <1>1, <1>3, <1>6 DEF Now, Noting, Work

LEMMA PolicyNoteIs ==
  ASSUME TypeOK, PolicyNote
  PROVE  /\ TypeOK' /\ Frame /\ UNCHANGED <<rows, told, torrents>> /\ hist'.astray = hist.astray
         /\ w'.recheck = w.recheck /\ w'.ok = w.ok /\ w'.started = w.started
         /\ \/ w.select /\ w'.pc = "store" /\ w'.note = w.note \cup {"noNew"}
            \/ w.paused /\ w'.pc = "finish" /\ w'.note = w.note \cup {"paused"}
            \/ (~w.paused \/ "pick" \in w.note) /\ w'.pc = "finish" /\ w'.note = w.note
  <1>1. w \in Work /\ w.pc = "policy"
    BY DEF TypeOK, PolicyNote
  <1>2. /\ Continues(Noting("store", "noNew")) /\ Continues(Noting("finish", "paused"))
        /\ Continues(Go("finish"))
    BY <1>1 DEF Continues, Noting, Go, Work, PCs, Notes
  <1>3. /\ \/ w.select /\ w' = Noting("store", "noNew")
           \/ w.paused /\ w' = Noting("finish", "paused")
           \/ (~w.paused \/ "pick" \in w.note) /\ w' = Go("finish")
        /\ UNCHANGED <<kind, opt, left, latest, form, hash, seen, rows, torrents, told, hist>>
    BY DEF PolicyNote
  <1>4. Continues(w')
    BY <1>2, <1>3
  <1>5. TypeOK' /\ Frame /\ hist'.astray = hist.astray
    BY <1>1, <1>3, <1>4, Moving
  <1> QED BY <1>1, <1>3, <1>5 DEF Noting, Go, Work

LEMMA finishDeliveryIs ==
  ASSUME TypeOK, finishDelivery
  PROVE  /\ TypeOK' /\ Frame /\ UNCHANGED <<rows, told, torrents>> /\ hist'.astray = hist.astray
         /\ w'.recheck = w.recheck /\ w'.ok = w.ok /\ w'.started = w.started /\ w'.note = w.note
         /\ \/ w'.pc = "startRenamed" /\ w.fold = "rename" /\ w.ok /\ ~w.paused
            \/ /\ ~(w.fold = "rename" /\ w.ok /\ ~w.paused)
               /\ w'.pc = IF w.recheck THEN (IF w.started THEN "running" ELSE "recheck") ELSE "notify"
  <1>1. w \in Work /\ w.pc = "finish"
    BY DEF TypeOK, finishDelivery
  <1>2. /\ Continues(Go("startRenamed")) /\ Continues(Go("running"))
        /\ Continues(Go("recheck")) /\ Continues(Go("notify"))
    BY <1>1 DEF Continues, Go, Work, PCs
  <1>3. /\ \/ w' = Go("startRenamed") /\ w.fold = "rename" /\ w.ok /\ ~w.paused
           \/ /\ ~(w.fold = "rename" /\ w.ok /\ ~w.paused)
              /\ \/ w.recheck /\ w.started /\ w' = Go("running")
                 \/ w.recheck /\ ~w.started /\ w' = Go("recheck")
                 \/ ~w.recheck /\ w' = Go("notify")
        /\ UNCHANGED <<kind, opt, left, latest, form, hash, seen, rows, torrents, told, hist>>
    BY DEF finishDelivery
  <1>4. Continues(w')
    BY <1>2, <1>3
  <1>5. TypeOK' /\ Frame /\ hist'.astray = hist.astray
    BY <1>1, <1>3, <1>4, Moving
  <1> QED BY <1>1, <1>3, <1>5 DEF Go, Work

LEMMA notifyUpdatedIs ==
  ASSUME TypeOK, notifyUpdated
  PROVE  /\ TypeOK' /\ Frame /\ UNCHANGED <<rows, torrents>> /\ hist'.astray = hist.astray
         /\ w'.recheck = w.recheck /\ w'.ok = w.ok /\ w'.started = w.started /\ w'.note = w.note
         /\ w'.pc = "result" /\ told'[w.rel] = told[w.rel] \cup w.note
  <1>1. /\ w \in Work /\ w.pc = "notify" /\ w.rel \in Releases
        /\ told \in [Releases -> SUBSET Notes] /\ w.note \subseteq Notes
    BY DEF TypeOK, notifyUpdated, Work
  <1>2. Continues(Go("result"))
    BY <1>1 DEF Continues, Go, Work, PCs
  <1>3. /\ told' = [told EXCEPT ![w.rel] = @ \cup w.note] /\ w' = Go("result")
        /\ UNCHANGED <<kind, opt, left, latest, form, hash, seen, rows, torrents, hist>>
    BY DEF notifyUpdated
  <1>4. told' \in [Releases -> SUBSET Notes] /\ told'[w.rel] = told[w.rel] \cup w.note
        /\ \A q \in Releases \ {w.rel} : told'[q] = told[q]
    BY <1>1, <1>3
  <1>5. TypeOK'
    BY <1>1, <1>2, <1>3, <1>4 DEF TypeOK, Continues
  <1>6. Frame
    BY <1>1, <1>2, <1>3, <1>4 DEF Frame, Continues, TypeOK
  <1> QED BY <1>1, <1>3, <1>4, <1>5, <1>6 DEF Go, Work

\* The rows of other deliveries stay what they are, and where they are.
RowsKept ==
    /\ Len(rows') \in {Len(rows), Len(rows) + 1}
    /\ \A i \in 1..Len(rows) : rows'[i].rel = rows[i].rel
    /\ \A i \in 1..Len(rows) :
          rows'[i].files = rows[i].files \/ (rows[i].rel = w.rel /\ rows'[i].files = w.files)
    /\ Len(rows') = Len(rows) + 1 =>
         rows'[Len(rows) + 1].rel = w.rel /\ rows'[Len(rows) + 1].files \in {Unknown, w.files}

LEMMA RowFault ==
  ASSUME TypeOK, w.pc # "idle", NEW out \in {"ok", "error"}, Pay("record", Cost(out)),
         hist' = [hist EXCEPT !.faults = @ + Cost(out)],
         NEW next, Continues(next), w' = next, rows' \in Seq(Rows),
         UNCHANGED <<kind, opt, left, latest, form, hash, seen, torrents, told>>
  PROVE  TypeOK' /\ Frame /\ hist'.astray = hist.astray
  <1>1. /\ hist' \in History /\ hist'.touched = hist.touched /\ hist'.crashed = hist.crashed
        /\ hist'.folder = hist.folder /\ hist'.old = hist.old /\ hist'.astray = hist.astray
    <2>1. Cost(out) \in Nat /\ hist.faults + Cost(out) <= MaxFaults
      BY DEF Cost, Pay
    <2> QED BY <2>1, OneFault
  <1>2. TypeOK'
    BY <1>1 DEF TypeOK, Continues
  <1> QED BY <1>1, <1>2 DEF Frame, Continues

LEMMA recordDeliveryIs ==
  ASSUME TypeOK, recordDelivery
  PROVE  /\ TypeOK' /\ Frame /\ RowsKept /\ UNCHANGED <<told, torrents>>
         /\ hist'.astray = hist.astray
         /\ w'.recheck = w.recheck /\ w'.ok = w.ok /\ w'.started = w.started
         /\ \/ w'.pc = "list" /\ w'.note = w.note /\ w.fold = "rename"
            \/ /\ w.fold # "rename"
               /\ \/ w.select /\ w'.pc = "store" /\ w'.note = w.note \cup {"noNew"}
                  \/ w.select /\ w'.pc = "wait" /\ w'.note = w.note
                  \/ w'.pc = "notify" /\ w'.note = w.note \cup {"paused"}
                  \/ w'.pc = "notify" /\ w'.note = w.note /\ (~w.paused \/ "pick" \in w.note)
  <1>1. w \in Work /\ w.pc = "record" /\ w.rel \in Releases /\ rows \in Seq(Rows)
    BY DEF TypeOK, recordDelivery
  <1>2. PICK out \in {"ok", "error"} :
          /\ Pay("record", Cost(out))
          /\ rows' = IF out = "ok" THEN Inserted(w.rel, filesAtRecord) ELSE rows
          /\ hist' = [hist EXCEPT !.faults = @ + Cost(out)]
    BY DEF recordDelivery
  <1>3. w' = AfterRecord /\ UNCHANGED <<kind, opt, left, latest, form, hash, seen, torrents, told>>
    BY DEF recordDelivery
  <1>4. [rel |-> w.rel, files |-> filesAtRecord] \in Rows /\ filesAtRecord \in {Unknown, w.files}
    BY <1>1 DEF Rows, filesAtRecord, Work
  <1>5. rows' = rows \/ rows' = Append(rows, [rel |-> w.rel, files |-> filesAtRecord])
    BY <1>2 DEF Inserted
  <1>6. rows' \in Seq(Rows) /\ RowsKept
    <2>1. CASE rows' = rows
      BY <1>1, <2>1, LenProperties DEF RowsKept
    <2>2. CASE rows' = Append(rows, [rel |-> w.rel, files |-> filesAtRecord])
      <3> DEFINE new == [rel |-> w.rel, files |-> filesAtRecord]
      <3>1. /\ Append(rows, new) \in Seq(Rows) /\ Len(Append(rows, new)) = Len(rows) + 1
            /\ \A i \in 1..Len(rows) : Append(rows, new)[i] = rows[i]
            /\ Append(rows, new)[Len(rows) + 1] = new
        BY <1>1, <1>4, AppendProperties
      <3>2. new.rel = w.rel /\ new.files \in {Unknown, w.files}
        BY <1>4
      <3>3. rows' = Append(rows, new) /\ Len(rows) \in Nat
        BY <1>1, <2>2, LenProperties
      <3> HIDE DEF new
      <3> QED BY <3>1, <3>2, <3>3 DEF RowsKept
    <2> QED BY <1>5, <2>1, <2>2
  <1>7. \/ w' = Go("list") /\ w.fold = "rename"
        \/ /\ w.fold # "rename"
           /\ \/ w.select /\ w' = Noting("store", "noNew")
              \/ w.select /\ w' = Go("wait")
              \/ w' = Noting("notify", "paused")
              \/ w' = Go("notify") /\ (~w.paused \/ "pick" \in w.note)
    BY <1>3 DEF AfterRecord
  <1>8. /\ Continues(Go("list")) /\ Continues(Noting("store", "noNew")) /\ Continues(Go("wait"))
        /\ Continues(Noting("notify", "paused")) /\ Continues(Go("notify"))
    BY <1>1 DEF Continues, Noting, Go, Work, PCs, Notes
  <1>9. Continues(w')
    BY <1>7, <1>8
  <1>10. TypeOK' /\ Frame /\ hist'.astray = hist.astray
    BY <1>1, <1>2, <1>3, <1>6, <1>9, RowFault
  <1> QED BY <1>1, <1>3, <1>6, <1>7, <1>10 DEF Noting, Go, Work

LEMMA storeSelectedFilesIs ==
  ASSUME TypeOK, storeSelectedFiles
  PROVE  /\ TypeOK' /\ Frame /\ RowsKept /\ UNCHANGED <<told, torrents>>
         /\ hist'.astray = hist.astray
         /\ w'.recheck = w.recheck /\ w'.ok = w.ok /\ w'.started = w.started
         /\ w'.pc = "finish" /\ w'.note = w.note
  <1>1. w \in Work /\ w.pc = "store" /\ w.rel \in Releases /\ rows \in Seq(Rows)
    BY DEF TypeOK, storeSelectedFiles
  <1> DEFINE Set(i) == IF rows[i].rel = w.rel THEN [rows[i] EXCEPT !.files = w.files] ELSE rows[i]
  <1>2. PICK out \in {"ok", "error"} :
          /\ Pay("record", Cost(out))
          /\ rows' = IF out = "error" THEN rows ELSE [i \in DOMAIN rows |-> Set(i)]
          /\ hist' = [hist EXCEPT !.faults = @ + Cost(out)]
    BY DEF storeSelectedFiles
  <1>3. w' = Go("finish") /\ UNCHANGED <<kind, opt, left, latest, form, hash, seen, torrents, told>>
    BY DEF storeSelectedFiles
  <1>4. DOMAIN rows = 1..Len(rows) /\ Len(rows) \in Nat /\ \A i \in 1..Len(rows) : rows[i] \in Rows
    BY <1>1, LenProperties, ElementOfSeq
  <1>5. rows' \in Seq(Rows) /\ RowsKept
    <2>1. CASE rows' = rows
      BY <1>1, <2>1, LenProperties DEF RowsKept
    <2>2. CASE rows' = [i \in DOMAIN rows |-> Set(i)]
      <3>1. \A i \in 1..Len(rows) :
              /\ Set(i) \in Rows /\ Set(i).rel = rows[i].rel
              /\ Set(i).files = rows[i].files \/ (rows[i].rel = w.rel /\ Set(i).files = w.files)
        BY <1>1, <1>4 DEF Rows, Work
      <3> HIDE DEF Set
      <3>2. rows' \in [1..Len(rows) -> Rows] /\ \A i \in 1..Len(rows) : rows'[i] = Set(i)
        <4>1. rows' = [i \in 1..Len(rows) |-> Set(i)]
          BY <1>4, <2>2
        <4> QED BY <3>1, <4>1
      <3>3. rows' \in Seq(Rows)
        BY <1>4, <3>2, SeqDef
      <3>4. Len(rows') = Len(rows)
        BY <1>4, <3>2, <3>3, LenProperties
      <3>5. ASSUME NEW i \in 1..Len(rows)
            PROVE  /\ rows'[i].rel = rows[i].rel
                   /\ rows'[i].files = rows[i].files \/ (rows[i].rel = w.rel /\ rows'[i].files = w.files)
        <4>1. rows'[i] = Set(i)
          BY <3>2
        <4>2. /\ Set(i).rel = rows[i].rel
              /\ Set(i).files = rows[i].files \/ (rows[i].rel = w.rel /\ Set(i).files = w.files)
          BY <3>1
        <4> QED BY <4>1, <4>2
      <3>6. Len(rows') # Len(rows) + 1
        <4>1. Len(rows) \in Nat
          BY <1>4
        <4> QED BY <3>4, <4>1
      <3> QED BY <3>3, <3>4, <3>5, <3>6 DEF RowsKept
    <2> QED BY <1>2, <2>1, <2>2
  <1>6. Continues(Go("finish"))
    BY <1>1 DEF Continues, Go, Work, PCs
  <1>7. TypeOK' /\ Frame /\ hist'.astray = hist.astray
    BY <1>1, <1>2, <1>3, <1>5, <1>6, RowFault
  <1> QED BY <1>1, <1>3, <1>5, <1>7 DEF Go, Work

----------------------------------------------------------------------------
(* The newest other row                                                    *)

LEMMA Least == ASSUME NEW S \in SUBSET Nat, S # {} PROVE \E m \in S : \A x \in S : m <= x
  <1>1. PICK m \in S : \A y \in S : ~(<<y, m>> \in OpToRel(<, Nat))
    BY WFMin, NatLessThanWellFounded, Zenon
  <1>2. \A y \in S : ~(y < m)
    BY <1>1 DEF OpToRel
  <1> QED BY <1>2

LEMMA Greatest ==
  ASSUME NEW n \in Nat, NEW S \in SUBSET (1..n), S # {}
  PROVE  Max(S) \in S /\ \A x \in S : x <= Max(S)
  <1> DEFINE T == {n - x : x \in S}
  <1>1. T \in SUBSET Nat /\ T # {}
    OBVIOUS
  <1>2. PICK m \in T : \A y \in T : m <= y
    <2> HIDE DEF T
    <2> QED BY <1>1, Least
  <1>3. PICK x \in S : m = n - x
    OBVIOUS
  <1>4. \A y \in S : x >= y
    <2> TAKE y \in S
    <2>1. n - x <= n - y
      BY <1>2, <1>3
    <2> QED BY <2>1
  <1>5. \E z \in S : \A y \in S : z >= y
    BY <1>4
  <1> HIDE DEF T
  <1>6. Max(S) \in S /\ \A y \in S : Max(S) >= y
    BY <1>5 DEF Max
  <1> QED BY <1>6

LEMMA Newest ==
  ASSUME TypeOK, NEW r, OtherRows(r) # {}
  PROVE  \E i \in DOMAIN rows :
            rows[i].rel # r /\ LatestOther(r) = rows[i] /\ LatestOther(r) \in Rows
  <1>1. rows \in Seq(Rows) /\ Len(rows) \in Nat /\ DOMAIN rows = 1..Len(rows)
        /\ \A i \in 1..Len(rows) : rows[i] \in Rows
    BY LenProperties, ElementOfSeq DEF TypeOK
  <1>2. OtherRows(r) \in SUBSET (1..Len(rows))
    BY <1>1 DEF OtherRows
  <1>3. Max(OtherRows(r)) \in OtherRows(r)
    BY <1>1, <1>2, Greatest
  <1> QED BY <1>1, <1>3 DEF LatestOther, OtherRows

\* A step that leaves the rows of other deliveries alone leaves the newest.
LEMMA SameNewest ==
  ASSUME TypeOK, TypeOK', RowsKept, NEW r, r = w.rel
  PROVE  /\ OtherRows(r)' = OtherRows(r)
         /\ OtherRows(r) # {} => LatestOther(r)'.rel = LatestOther(r).rel
  <1>1. /\ rows \in Seq(Rows) /\ Len(rows) \in Nat /\ DOMAIN rows = 1..Len(rows)
        /\ rows' \in Seq(Rows) /\ DOMAIN rows' = 1..Len(rows')
    BY LenProperties DEF TypeOK
  <1>2. OtherRows(r)' = OtherRows(r)
    <2>1. OtherRows(r)' = {i \in 1..Len(rows') : rows'[i].rel # r}
          /\ OtherRows(r) = {i \in 1..Len(rows) : rows[i].rel # r}
      BY <1>1 DEF OtherRows
    <2>2. \A i \in 1..Len(rows) : rows'[i].rel = rows[i].rel
      BY DEF RowsKept
    <2>3. CASE Len(rows') = Len(rows)
      BY <2>1, <2>2, <2>3
    <2>4. CASE Len(rows') = Len(rows) + 1
      <3>1. rows'[Len(rows) + 1].rel = r
        BY <2>4 DEF RowsKept
      <3>2. 1..Len(rows') = 1..Len(rows) \cup {Len(rows) + 1}
        BY <1>1, <2>4
      <3> QED BY <2>1, <2>2, <3>1, <3>2
    <2> QED BY <2>3, <2>4 DEF RowsKept
  <1>3. ASSUME OtherRows(r) # {} PROVE LatestOther(r)'.rel = LatestOther(r).rel
    <2>1. Max(OtherRows(r)) \in OtherRows(r)
      <3>1. OtherRows(r) \in SUBSET (1..Len(rows))
        BY <1>1 DEF OtherRows
      <3> QED BY <1>1, <1>3, <3>1, Greatest
    <2>2. Max(OtherRows(r)) \in 1..Len(rows)
      BY <1>1, <2>1 DEF OtherRows
    <2>3. LatestOther(r)' = rows'[Max(OtherRows(r))]
      BY <1>2 DEF LatestOther
    <2> QED BY <2>2, <2>3 DEF LatestOther, RowsKept
  <1> QED BY <1>2, <1>3

----------------------------------------------------------------------------
(* The first and the last step of a delivery                               *)

LEMMA ManifestIs == ASSUME TypeOK, NEW r \in Releases
  PROVE  /\ ManifestOf(r) \in {Unknown, Manifest[r]} /\ Manifest[r] \in SUBSET Files
         /\ ManifestOf(r) \in {Unknown} \cup SUBSET Files
  BY DeliveryAssumption DEF ManifestOf

LEMMA planDeliveryIs ==
  ASSUME TypeOK, NEW r \in Releases, NEW base \in {LatestFiles(r), Unknown},
         \A i \in DOMAIN rows : rows[i].files \in {Unknown, Manifest[rows[i].rel]}
  PROVE  LET p == planDelivery(r, base) IN
         /\ p.paused = Applies /\ p.files = ManifestOf(r)
         /\ p.paused \in BOOLEAN /\ p.select \in BOOLEAN /\ p.skip \in SUBSET Files
         /\ p.note \in SUBSET Notes
         /\ p.note \cap Bad = {}
         /\ p.select => Applies /\ opt.onlyNew /\ OtherRows(r) # {} /\ p.skip = HeldBack(r)
  <1> DEFINE can == CanSelect(kind)
             select == IsUpdate /\ can /\ opt.onlyNew /\ ManifestOf(r) # Unknown /\ base # Unknown
             p == planDelivery(r, base)
  <1>1. /\ p.paused = (IsUpdate /\ can) /\ p.select = select /\ p.files = ManifestOf(r)
        /\ p.skip = (IF select THEN SkipSet(base, Manifest[r]) ELSE {})
        /\ p.note = (IF ~IsUpdate THEN {} ELSE IF ~can THEN {"unsupported"}
                     ELSE IF opt.onlyNew /\ ~select THEN {"pick"} ELSE {})
    BY DEF planDelivery
  <1> HIDE DEF p
  <1>2. p.note \in SUBSET Notes /\ p.note \cap Bad = {}
    BY <1>1 DEF Notes, Bad
  <1>3. p.paused = Applies /\ p.paused \in BOOLEAN /\ p.select \in BOOLEAN
    BY <1>1 DEF Applies
  <1>4. ASSUME p.select PROVE Applies /\ opt.onlyNew /\ OtherRows(r) # {} /\ p.skip = HeldBack(r)
    <2>1. select /\ p.skip = base \cap Manifest[r]
      BY <1>1, <1>4 DEF SkipSet
    <2>2. OtherRows(r) # {} /\ base = LatestOther(r).files /\ base # Unknown
      BY <2>1 DEF LatestFiles
    <2>3. base = Manifest[LatestOther(r).rel]
      BY <2>2, Newest
    <2> QED BY <2>1, <2>2, <2>3 DEF HeldBack, Applies
  <1>5. p.skip \in SUBSET Files
    BY <1>1, ManifestIs DEF SkipSet
  <1> QED BY <1>1, <1>2, <1>3, <1>4, <1>5 DEF p

LEMMA FolderIs ==
  ASSUME TypeOK, NEW live \in {LiveFolder(latest), NoRoot}
  PROVE  /\ FolderWanted(live) \in FolderNames \cup {NoRoot}
         /\ planFolderName(latest, FolderWanted(live)) \in {"none", "cannot", "rename"}
         /\ planFolderName(latest, FolderWanted(live)) = "rename"
               => CanSelect(kind) /\ FolderWanted(live) # NoRoot
         /\ Remembered(latest, FolderWanted(live), live) \in FolderNames \cup {NoRoot}
  <1>1. live \in FolderNames \cup {NoRoot}
    <2>1. CASE live = LiveFolder(latest) /\ live # NoRoot
      <3>1. OtherRows(latest) # {} /\ HasFiles(torrents[LatestOther(latest).rel])
            /\ live = torrents[LatestOther(latest).rel].root
        BY <2>1 DEF LiveFolder
      <3>2. LatestOther(latest).rel \in Releases
        BY <3>1, Newest DEF Rows
      <3>3. torrents[LatestOther(latest).rel] \in Torrent
        BY <3>1, <3>2 DEF TypeOK, HasFiles
      <3> QED BY <3>1, <3>3 DEF Torrent
    <2> QED BY <2>1
  <1>2. seen \in FolderNames \cup {NoRoot} /\ CustomName \in FolderNames
    BY DeliveryAssumption DEF TypeOK
  <1>3. FolderWanted(live) \in FolderNames \cup {NoRoot}
    BY <1>1, <1>2 DEF FolderWanted
  <1>4. Remembered(latest, FolderWanted(live), live) \in FolderNames \cup {NoRoot}
    BY <1>2, <1>3 DEF Remembered
  <1>5. /\ planFolderName(latest, FolderWanted(live)) \in {"none", "cannot", "rename"}
        /\ planFolderName(latest, FolderWanted(live)) = "rename"
               => CanSelect(kind) /\ FolderWanted(live) # NoRoot
    BY DEF planFolderName
  <1> QED BY <1>3, <1>4, <1>5

LEMMA PlanIs ==
  ASSUME TypeOK, Plan, \A i \in DOMAIN rows : rows[i].files \in {Unknown, Manifest[rows[i].rel]}
  PROVE  /\ TypeOK' /\ UNCHANGED <<kind, opt, left, latest, form, hash, rows, torrents, told>>
         /\ w.pc = "idle" /\ latest # hash
         /\ w'.pc = "add" /\ w'.rel = latest /\ w'.paused = Applies /\ w'.files = ManifestOf(latest)
         /\ w'.select => Applies /\ opt.onlyNew /\ OtherRows(latest) # {} /\ w'.skip = HeldBack(latest)
         /\ w'.fold = "rename" => CanSelect(kind) /\ w'.want # NoRoot
         /\ w'.prior \in {Prior(latest), "none"}
         /\ w'.ok /\ ~w'.recheck /\ ~w'.started /\ w'.note \cap Bad = {}
         /\ hist'.touched = hist.touched /\ hist'.crashed = hist.crashed /\ hist'.old = hist.old
         /\ \A q \in Releases \ {latest} : hist'.folder[q] = hist.folder[q]
         /\ hist'.folder[latest] = IF w'.fold = "rename" THEN w'.want ELSE hist.folder[latest]
         /\ hist.astray \subseteq hist'.astray
         /\ latest \notin hist'.astray =>
              hist.folder[latest] = NoRoot \/ (w'.fold = "rename" /\ w'.want = hist.folder[latest])
  <1>1. PICK base \in {LatestFiles(latest), Unknown}, live \in {LiveFolder(latest), NoRoot},
             prior \in {Prior(latest), "none"}, kept \in BOOLEAN :
        LET r    == latest
            want == FolderWanted(live)
            p    == planDelivery(r, base)
            fold == planFolderName(r, want)
            cost == Cardinality({i \in 1..4 :
                        <<base # LatestFiles(r), live # LiveFolder(r), prior # Prior(r), ~kept>>[i]})
        IN /\ ~kept => Remembered(r, want, live) # seen
           /\ Pay("read", cost)
           /\ hist' = [hist EXCEPT !.faults = @ + cost,
                  !.folder[r] = IF fold = "rename" THEN want ELSE @,
                  !.astray = IF hist.folder[r] = NoRoot \/ (fold = "rename" /\ want = hist.folder[r])
                             THEN @ ELSE @ \cup {r}]
           /\ seen' = IF kept THEN Remembered(r, want, live) ELSE seen
           /\ w' = [Idle EXCEPT !.pc = "add", !.rel = r, !.paused = p.paused,
                        !.select = p.select, !.skip = p.skip, !.files = p.files,
                        !.fold = fold, !.want = want, !.prior = prior,
                        !.note = p.note \cup IF fold = "cannot" THEN {"cannot"} ELSE {}]
    BY Zenon DEF Plan
  <1> DEFINE want == FolderWanted(live)
             p    == planDelivery(latest, base)
             fold == planFolderName(latest, want)
             cost == Cardinality({i \in 1..4 : <<base # LatestFiles(latest),
                        live # LiveFolder(latest), prior # Prior(latest), ~kept>>[i]})
  <1>2. /\ latest \in Releases /\ hist \in History
        /\ w.pc = "idle" /\ latest # hash
        /\ UNCHANGED <<kind, opt, left, latest, form, hash, rows, torrents, told>>
    BY DEF TypeOK, Plan
  <1>3. cost \in Nat
    <2> DEFINE S == {i \in 1..4 : <<base # LatestFiles(latest), live # LiveFolder(latest),
                                    prior # Prior(latest), ~kept>>[i]}
    <2>1. S \in SUBSET (1..4)
      OBVIOUS
    <2> HIDE DEF S
    <2>2. IsFiniteSet(S)
      <3>1. \A a, b \in Int : IsFiniteSet(a..b)
        BY FS_Interval
      <3>2. IsFiniteSet(1..4)
        <4>1. 1 \in Int /\ 4 \in Int
          OBVIOUS
        <4> QED BY <3>1, <4>1, Zenon
      <3> QED BY <2>1, <3>2, FS_Subset
    <2>3. Cardinality(S) \in Nat
      BY <2>2, FS_CardinalityType
    <2> QED BY <2>3 DEF S
  <1>4. /\ want \in FolderNames \cup {NoRoot} /\ fold \in {"none", "cannot", "rename"}
        /\ fold = "rename" => CanSelect(kind) /\ want # NoRoot
        /\ Remembered(latest, want, live) \in FolderNames \cup {NoRoot}
    BY FolderIs
  <1>5. /\ p.paused = Applies /\ p.files = ManifestOf(latest)
        /\ p.paused \in BOOLEAN /\ p.select \in BOOLEAN /\ p.skip \in SUBSET Files
        /\ p.note \in SUBSET Notes
        /\ p.note \cap Bad = {}
        /\ p.select => Applies /\ opt.onlyNew /\ OtherRows(latest) # {} /\ p.skip = HeldBack(latest)
    BY <1>2, planDeliveryIs
  <1>6. /\ Pay("read", cost)
        /\ hist' = [hist EXCEPT !.faults = @ + cost,
               !.folder[latest] = IF fold = "rename" THEN want ELSE @,
               !.astray = IF hist.folder[latest] = NoRoot \/ (fold = "rename" /\ want = hist.folder[latest])
                          THEN @ ELSE @ \cup {latest}]
        /\ seen' = IF kept THEN Remembered(latest, want, live) ELSE seen
        /\ w' = [Idle EXCEPT !.pc = "add", !.rel = latest, !.paused = p.paused,
                     !.select = p.select, !.skip = p.skip, !.files = p.files,
                     !.fold = fold, !.want = want, !.prior = prior,
                     !.note = p.note \cup IF fold = "cannot" THEN {"cannot"} ELSE {}]
    BY <1>1
  <1> HIDE DEF want, p, fold, cost
  <1>7. seen' \in FolderNames \cup {NoRoot}
    BY <1>4, <1>6 DEF TypeOK
  <1>8. /\ w'.pc = "add" /\ w'.rel = latest /\ w'.paused = p.paused /\ w'.select = p.select
        /\ w'.skip = p.skip
        /\ w'.files = p.files /\ w'.fold = fold /\ w'.want = want /\ w'.ok /\ ~w'.recheck
        /\ w'.prior \in {Prior(latest), "none"}
        /\ ~w'.started
        /\ w'.note = p.note \cup IF fold = "cannot" THEN {"cannot"} ELSE {}
    BY <1>6 DEF Idle
  <1>9. w' \in Work
    <2>1. 0..MaxRelease = Releases \cup {0} /\ latest \in 0..MaxRelease
      BY <1>2, DeliveryAssumption DEF Releases
    <2>2. p.files \in {Unknown} \cup SUBSET Files
      BY <1>2, <1>5, ManifestIs
    <2>3. (p.note \cup IF fold = "cannot" THEN {"cannot"} ELSE {}) \in SUBSET Notes
      BY <1>5 DEF Notes
    <2> DEFINE note == p.note \cup IF fold = "cannot" THEN {"cannot"} ELSE {}
    <2>4. w' = [pc |-> "add", rel |-> latest, paused |-> p.paused, select |-> p.select,
                skip |-> p.skip, files |-> p.files, fold |-> fold, want |-> want,
                ok |-> TRUE, recheck |-> FALSE, started |-> FALSE, prior |-> prior, note |-> note]
      BY <1>6 DEF Idle
    <2> HIDE DEF note
    <2>5. note \in SUBSET Notes
      BY <2>3 DEF note
    <2>6. prior \in {"none", "listed", "removed"}
      BY DEF Prior
    <2> QED BY <1>4, <1>5, <2>1, <2>2, <2>4, <2>5, <2>6 DEF Work, PCs
  <1>10. w'.note \cap Bad = {}
    BY <1>5, <1>8 DEF Bad
  <1>11. hist.faults + cost \in 0..MaxFaults
    BY <1>2, <1>3, <1>6, DeliveryAssumption DEF Pay, History
  <1>12. /\ hist' \in History /\ hist'.touched = hist.touched /\ hist'.crashed = hist.crashed
         /\ hist'.old = hist.old
         /\ hist'.folder = [hist.folder EXCEPT ![latest] = IF fold = "rename" THEN want ELSE @]
         /\ hist'.astray = IF hist.folder[latest] = NoRoot \/ (fold = "rename" /\ want = hist.folder[latest])
                           THEN hist.astray ELSE hist.astray \cup {latest}
    BY <1>2, <1>4, <1>6, <1>11 DEF History
  <1>13. /\ \A q \in Releases \ {latest} : hist'.folder[q] = hist.folder[q]
         /\ hist'.folder[latest] = IF fold = "rename" THEN want ELSE hist.folder[latest]
    BY <1>2, <1>12 DEF History
  <1>14. TypeOK'
    BY <1>2, <1>7, <1>8, <1>9, <1>12 DEF TypeOK
  <1>15. /\ hist.astray \subseteq hist'.astray
         /\ latest \notin hist'.astray =>
              hist.folder[latest] = NoRoot \/ (fold = "rename" /\ want = hist.folder[latest])
    BY <1>12
  <1> QED BY <1>2, <1>4, <1>5, <1>8, <1>10, <1>12, <1>13, <1>14, <1>15

LEMMA HeldBackIs == ASSUME TypeOK, NEW r \in Releases PROVE HeldBack(r) \in SUBSET Files
  <1>1. Manifest[r] \in SUBSET Files
    BY DeliveryAssumption
  <1> QED BY <1>1 DEF HeldBack

LEMMA AddIs ==
  ASSUME TypeOK, Add
  PROVE  /\ TypeOK' /\ UNCHANGED <<kind, opt, left, latest, form, hash, seen, rows, told>>
         /\ w.pc = "add" /\ w.rel \in Releases /\ w' \in {Go("record"), Idle}
         /\ hist'.touched = hist.touched /\ hist'.crashed = hist.crashed
         /\ hist'.folder = hist.folder /\ hist'.astray = hist.astray
         /\ \A q \in Releases \ {w.rel} : torrents'[q] = torrents[q] /\ hist'.old[q] = hist.old[q]
         /\ \/ Now = Tor /\ hist'.old[w.rel] = hist.old[w.rel] /\ (w' = Go("record") => Tor # None)
            \/ /\ Tor = None /\ hist'.old[w.rel] = HeldBack(w.rel)
               /\ \E root \in FolderNames \cup {NoRoot} :
                    Now = Added(kind, addPaused, root) /\ Now \in Torrent
  <1>1. /\ w \in Work /\ w.pc = "add" /\ w.rel \in Releases /\ kind \in Plugins
        /\ torrents \in [Releases -> Torrent \cup {None}] /\ hist \in History
    BY DEF TypeOK, Add
  <1>2. PICK out \in AddOutcomes(kind, Tor # None), root \in {TrackerName[w.rel], NoRoot} :
        /\ ~(out = "error" /\ kind = "deluge" /\ Tor # None) => Pay("call", Cost(out))
        /\ LET new == out # "error" /\ Tor = None IN
           /\ torrents' = IF new THEN [torrents EXCEPT ![w.rel] = Added(kind, addPaused, root)]
                                 ELSE torrents
           /\ hist' = [hist EXCEPT
                !.faults = @ + IF out = "error" /\ Tor # None /\ kind = "deluge" THEN 0 ELSE Cost(out),
                !.old[w.rel] = IF new THEN HeldBack(w.rel) ELSE @]
        /\ w' = IF out = "ok" THEN Go("record") ELSE Idle
    BY DEF Add
  <1> DEFINE new == out # "error" /\ Tor = None
             cost == IF out = "error" /\ Tor # None /\ kind = "deluge" THEN 0 ELSE Cost(out)
  <1>3. /\ torrents' = IF new THEN [torrents EXCEPT ![w.rel] = Added(kind, addPaused, root)]
                           ELSE torrents
        /\ hist' = [hist EXCEPT !.faults = @ + cost, !.old[w.rel] = IF new THEN HeldBack(w.rel) ELSE @]
        /\ w' \in {Go("record"), Idle} /\ (w' = Go("record") => out = "ok" \/ Idle = Go("record"))
    BY <1>2
  <1>4. UNCHANGED <<kind, opt, left, latest, form, hash, seen, rows, told>>
    BY DEF Add
  <1>5. root \in FolderNames \cup {NoRoot}
    BY <1>1, DeliveryAssumption
  <1>6. Added(kind, addPaused, root) \in Torrent
    <2>1. addPaused \in BOOLEAN
      BY <1>1 DEF addPaused, Work
    <2> QED BY <1>1, <1>5, <2>1, NewTorrent
  <1>7. HeldBack(w.rel) \in SUBSET Files
    BY <1>1, HeldBackIs
  <1>8. hist.faults + cost \in 0..MaxFaults
    BY <1>1, <1>2, DeliveryAssumption DEF Pay, History, Cost
  <1> HIDE DEF cost
  <1>9. /\ hist' \in History /\ hist'.touched = hist.touched /\ hist'.crashed = hist.crashed
        /\ hist'.folder = hist.folder /\ hist'.astray = hist.astray
        /\ hist'.old = [hist.old EXCEPT ![w.rel] = IF new THEN HeldBack(w.rel) ELSE @]
    BY <1>1, <1>3, <1>7, <1>8 DEF History
  <1>10. /\ hist'.old[w.rel] = (IF new THEN HeldBack(w.rel) ELSE hist.old[w.rel])
         /\ \A q \in Releases \ {w.rel} : hist'.old[q] = hist.old[q]
    BY <1>1, <1>9 DEF History
  <1>11. /\ torrents' \in [Releases -> Torrent \cup {None}]
         /\ torrents'[w.rel] = (IF new THEN Added(kind, addPaused, root) ELSE Tor)
         /\ \A q \in Releases \ {w.rel} : torrents'[q] = torrents[q]
    BY <1>1, <1>3, <1>6 DEF Tor
  <1>12. /\ Go("record") \in Work /\ Go("record").rel = w.rel /\ Go("record").pc = "record"
         /\ Idle \in Work /\ Idle.pc = "idle"
    <2>1. 0 \in 0..MaxRelease
      BY DeliveryAssumption
    <2> QED BY <1>1, <2>1 DEF Go, Idle, Work, PCs, Notes
  <1>13. TypeOK'
    BY <1>1, <1>3, <1>4, <1>9, <1>11, <1>12 DEF TypeOK
  <1>14. w' = Go("record") => out = "ok"
    BY <1>3, <1>12
  <1> QED BY <1>1, <1>3, <1>4, <1>5, <1>6, <1>9, <1>10, <1>11, <1>13, <1>14 DEF Now

LEMMA ResultIs ==
  ASSUME TypeOK, Result
  PROVE  /\ TypeOK' /\ UNCHANGED <<kind, opt, left, latest, form, seen, rows, torrents, told>>
         /\ w.pc = "result" /\ w' = Idle /\ hash' \in {hash, w.rel}
         /\ hist'.touched = hist.touched /\ hist'.crashed = hist.crashed /\ hist'.old = hist.old
         /\ hist'.folder = hist.folder /\ hist'.astray = hist.astray
  <1>1. w.pc = "result" /\ w.rel \in Releases /\ w' = Idle
        /\ UNCHANGED <<kind, opt, left, latest, form, seen, rows, torrents, told>>
    BY DEF TypeOK, Result
  <1>2. PICK out \in {"ok", "stale"} :
          /\ Pay("discard", Cost(out)) /\ hash' = IF out = "ok" THEN w.rel ELSE hash
          /\ hist' = [hist EXCEPT !.faults = @ + Cost(out)]
    BY DEF Result
  <1>3. /\ hist' \in History /\ hist'.touched = hist.touched /\ hist'.crashed = hist.crashed
        /\ hist'.folder = hist.folder /\ hist'.old = hist.old /\ hist'.astray = hist.astray
    <2>1. Cost(out) \in Nat /\ hist.faults + Cost(out) <= MaxFaults
      BY <1>2 DEF Cost, Pay
    <2> QED BY <1>2, <2>1, OneFault
  <1>4. hash' \in 0..MaxRelease /\ Idle \in Work /\ Idle.pc = "idle"
    BY <1>1, <1>2, DeliveryAssumption DEF Releases, TypeOK, Idle, Work, PCs, Notes
  <1>5. TypeOK'
    BY <1>1, <1>3, <1>4 DEF TypeOK
  <1> QED BY <1>1, <1>2, <1>3, <1>5

\* The check is refused before the delivery, or dies in it.
LEMMA EndsIs ==
  ASSUME TypeOK, Refused \/ Crash
  PROVE  /\ TypeOK' /\ UNCHANGED <<kind, opt, left, latest, form, hash, seen, rows, torrents, told>>
         /\ w.pc # "idle" /\ w' = Idle
         /\ hist'.touched = hist.touched /\ hist'.old = hist.old
         /\ hist'.folder = hist.folder /\ hist'.astray = hist.astray
         /\ hist.crashed \subseteq hist'.crashed
         /\ w.pc = "add" \/ w.rel \in hist'.crashed
  <1>1. /\ w.pc # "idle" /\ w.rel \in Releases /\ w' = Idle /\ hist \in History
        /\ UNCHANGED <<kind, opt, left, latest, form, hash, seen, rows, torrents, told>>
    BY DEF TypeOK, Refused, Crash
  <1>2. hist.faults + 1 \in 0..MaxFaults
    BY <1>1, DeliveryAssumption DEF Refused, Crash, Pay, History
  <1>3. /\ hist' \in History /\ hist'.touched = hist.touched /\ hist'.old = hist.old
        /\ hist'.folder = hist.folder /\ hist'.astray = hist.astray
        /\ \/ w.pc = "add" /\ hist'.crashed = hist.crashed
           \/ hist'.crashed = hist.crashed \cup {w.rel}
    <2>1. CASE Refused
      BY <1>1, <1>2, <2>1 DEF Refused, History
    <2>2. CASE Crash
      BY <1>1, <1>2, <2>2 DEF Crash, History
    <2> QED BY <2>1, <2>2
  <1>4. Idle \in Work /\ Idle.pc = "idle"
    BY DeliveryAssumption DEF Idle, Work, PCs, Notes
  <1>5. TypeOK'
    BY <1>1, <1>3, <1>4 DEF TypeOK
  <1> QED BY <1>1, <1>3, <1>5

LEMMA PublishIs ==
  ASSUME TypeOK, Publish
  PROVE  /\ TypeOK' /\ w.pc = "idle" /\ latest' = latest + 1
         /\ UNCHANGED <<kind, opt, left, form, hash, seen, rows, torrents, w, told, hist>>
  <1>1. w.pc = "idle" /\ latest < Len(form) /\ latest' = latest + 1
        /\ UNCHANGED <<kind, opt, left, form, hash, seen, rows, torrents, w, told, hist>>
    BY DEF Publish
  <1>2. latest \in 1..MaxRelease /\ Len(form) \in 1..MaxRelease /\ MaxRelease \in Nat
    BY DeliveryAssumption DEF TypeOK, Releases
  <1>3. latest' \in Releases
    BY <1>1, <1>2 DEF Releases
  <1>4. TypeOK'
    BY <1>1, <1>3 DEF TypeOK
  <1> QED BY <1>1, <1>4

\* The client goes on by itself.
Evolves(t, s) ==
    /\ s \in Torrent /\ s.run = t.run /\ s.skip = t.skip /\ s.toRoot = t.toRoot /\ s.flag = t.flag
    /\ \/ /\ s.root = t.root /\ s.renamed = t.renamed /\ s.checked = t.checked
          /\ s.data = t.data \/ t.run
          /\ s.busy \in {t.busy, "no"} /\ (t.listed => s.listed)
       \/ /\ t.toRoot # t.root /\ s.root = t.toRoot /\ s.renamed /\ ~s.checked
          /\ s.data = t.data /\ s.busy = t.busy /\ s.listed = t.listed

LEMMA ClientStepIs ==
  ASSUME TypeOK, NEW r \in Releases, ClientStep(r)
  PROVE  /\ TypeOK' /\ UNCHANGED <<kind, opt, left, latest, form, hash, seen, rows, w, told, hist>>
         /\ torrents[r] \in Torrent /\ Evolves(torrents[r], torrents'[r])
         /\ \A q \in Releases \ {r} : torrents'[q] = torrents[q]
  <1> DEFINE t == torrents[r]
  <1>1. torrents \in [Releases -> Torrent \cup {None}] /\ t \in Torrent
        /\ UNCHANGED <<kind, opt, left, latest, form, hash, seen, rows, w, told, hist>>
    BY DEF TypeOK, ClientStep
  <1>2. PICK s : torrents' = [torrents EXCEPT ![r] = s] /\ Evolves(t, s)
    <2> SUFFICES \E s : torrents' = [torrents EXCEPT ![r] = s] /\ Evolves(t, s)
      OBVIOUS
    <2>1. CASE ~t.listed /\ torrents' = [torrents EXCEPT ![r].listed = TRUE]
      <3>1. torrents' = [torrents EXCEPT ![r] = [t EXCEPT !.listed = TRUE]]
        BY <2>1
      <3>2. Evolves(t, [t EXCEPT !.listed = TRUE])
        BY <1>1 DEF Evolves, Torrent
      <3> QED BY <3>1, <3>2
    <2>2. CASE t.listed /\ t.busy # "no" /\ torrents' = [torrents EXCEPT ![r].busy = "no"]
      <3>1. torrents' = [torrents EXCEPT ![r] = [t EXCEPT !.busy = "no"]]
        BY <2>2
      <3>2. Evolves(t, [t EXCEPT !.busy = "no"])
        BY <1>1 DEF Evolves, Torrent
      <3> QED BY <3>1, <3>2
    <2>3. CASE t.toRoot # t.root /\ torrents' = [torrents EXCEPT ![r] = [t EXCEPT !.root = t.toRoot,
                                !.renamed = TRUE, !.checked = FALSE]]
      <3>1. Evolves(t, [t EXCEPT !.root = t.toRoot, !.renamed = TRUE, !.checked = FALSE])
        BY <1>1, <2>3 DEF Evolves, Torrent
      <3> QED BY <2>3, <3>1
    <2>4. CASE t.listed /\ t.run /\ ~t.data /\ torrents' = [torrents EXCEPT ![r].data = TRUE]
      <3>1. torrents' = [torrents EXCEPT ![r] = [t EXCEPT !.data = TRUE]]
        BY <2>4
      <3>2. Evolves(t, [t EXCEPT !.data = TRUE])
        BY <1>1, <2>4 DEF Evolves, Torrent
      <3> QED BY <3>1, <3>2
    <2> QED BY <2>1, <2>2, <2>3, <2>4 DEF ClientStep
  <1>3. s \in Torrent
    BY <1>2 DEF Evolves
  <1>4. /\ torrents' \in [Releases -> Torrent \cup {None}] /\ torrents'[r] = s
        /\ \A q \in Releases \ {r} : torrents'[q] = torrents[q]
    BY <1>1, <1>2, <1>3
  <1>5. TypeOK'
    BY <1>1, <1>4 DEF TypeOK
  <1> QED BY <1>1, <1>2, <1>4, <1>5

LEMMA UserStepIs ==
  ASSUME TypeOK, NEW r \in Releases, UserStep(r)
  PROVE  /\ TypeOK' /\ UNCHANGED <<kind, opt, left, latest, form, hash, seen, rows, w, told>>
         /\ torrents[r] \in Torrent /\ torrents'[r] \in {Stopped(torrents[r]), Started(kind, torrents[r])}
         /\ torrents'[r] \in Torrent
         /\ \A q \in Releases \ {r} : torrents'[q] = torrents[q]
         /\ hist'.crashed = hist.crashed /\ hist'.old = hist.old
         /\ hist'.folder = hist.folder /\ hist'.astray = hist.astray
         /\ hist'.touched = hist.touched \cup {r}
  <1> DEFINE t == torrents[r]
             s == IF t.run THEN Stopped(t) ELSE Started(kind, t)
  <1>1. /\ torrents \in [Releases -> Torrent \cup {None}] /\ t \in Torrent /\ hist \in History
        /\ kind \in Plugins
        /\ UNCHANGED <<kind, opt, left, latest, form, hash, seen, rows, w, told>>
    BY DEF TypeOK, UserStep
  <1>2. /\ torrents' = [torrents EXCEPT ![r] = s] /\ Pay("user", 1)
        /\ hist' = [hist EXCEPT !.faults = @ + 1, !.touched = @ \cup {r}]
    BY DEF UserStep
  <1>3. s \in Torrent /\ s \in {Stopped(t), Started(kind, t)}
    BY <1>1 DEF Stopped, Started, Torrent
  <1> HIDE DEF s
  <1>4. /\ torrents' \in [Releases -> Torrent \cup {None}] /\ torrents'[r] = s
        /\ \A q \in Releases \ {r} : torrents'[q] = torrents[q]
    BY <1>1, <1>2, <1>3
  <1>5. hist.faults + 1 \in 0..MaxFaults
    BY <1>1, <1>2, DeliveryAssumption DEF Pay, History
  <1>6. /\ hist' \in History /\ hist'.crashed = hist.crashed /\ hist'.old = hist.old
        /\ hist'.folder = hist.folder /\ hist'.astray = hist.astray
        /\ hist'.touched = hist.touched \cup {r}
    BY <1>1, <1>2, <1>5 DEF History
  <1>7. TypeOK'
    BY <1>1, <1>4, <1>6 DEF TypeOK
  <1> QED BY <1>1, <1>3, <1>4, <1>6, <1>7

----------------------------------------------------------------------------
(* The invariant of the update policy                                      *)

LEMMA InitInv == ASSUME Init PROVE Inv
  <1>1. Idle \in Work /\ Idle.pc = "idle"
    BY DeliveryAssumption DEF Idle, Work, PCs, Notes
  <1>2. /\ \A r \in Releases : torrents[r] = None /\ left[r] = None
        /\ ValidUpdatePolicy(opt)
    BY DEF Init
  <1>3. hist \in History /\ hist.touched = {}
    <2>1. 0 \in 0..MaxFaults
      BY DeliveryAssumption
    <2>2. hist = [faults |-> 0, touched |-> {}, crashed |-> {}, astray |-> {},
                  folder |-> [r \in Releases |-> NoRoot], old |-> [r \in Releases |-> {}]]
      BY DEF Init
    <2> QED BY <2>1, <2>2 DEF History
  <1>4. kind \in Plugins /\ opt \in Settings /\ form \in Seq(PayloadForms) /\ Len(form) \in Releases
    BY DeliveryAssumption DEF Init
  <1>5. rows = <<>> /\ rows \in Seq(Rows) /\ DOMAIN rows = {}
    BY DEF Init
  <1>6. TypeOK
    <2>1. latest \in Releases /\ hash \in 0..MaxRelease /\ seen \in FolderNames \cup {NoRoot}
      BY DeliveryAssumption DEF Init, Releases
    <2>2. /\ torrents \in [Releases -> Torrent \cup {None}] /\ told \in [Releases -> SUBSET Notes]
          /\ w = Idle /\ left \in [Releases -> Torrent \cup {None}]
      BY DEF Init
    <2> QED BY <1>1, <1>3, <1>4, <1>5, <2>1, <2>2 DEF TypeOK
  <1>7. latest \in Releases /\ w.pc = "idle"
    BY <1>1, <1>6 DEF TypeOK, Init
  <1> QED BY <1>2, <1>3, <1>5, <1>6, <1>7
        DEF Inv, Baselines, Replaced, Planned, Held, SkipsBelow, Empty, Present, Kept, Copy

\* In a delivery the torrent is there, and is the newest release's.
LEMMA Delivering ==
  ASSUME Inv, w.pc # "idle", w.pc # "add"
  PROVE  w.rel \in Releases /\ w.rel = latest /\ Present(w.rel) /\ Tor \in Torrent /\ Tor # None
  BY NoneAssumption DEF Inv, TypeOK, Planned, Present, Tor

\* The policy's plan stands while the rows of other deliveries do.
LEMMA SamePolicy ==
  ASSUME TypeOK, TypeOK', RowsKept, UNCHANGED <<kind, opt, left, hash>>, NEW r, r = w.rel
  PROVE  /\ Applies' = Applies /\ OtherRows(r)' = OtherRows(r) /\ HeldBack(r)' = HeldBack(r)
         /\ addPaused = addPaused
  <1>1. OtherRows(r)' = OtherRows(r) /\ (OtherRows(r) # {} => LatestOther(r)'.rel = LatestOther(r).rel)
    BY SameNewest
  <1> QED BY <1>1 DEF Applies, IsUpdate, HeldBack

LEMMA SameRows == ASSUME TypeOK, UNCHANGED rows PROVE RowsKept
  BY LenProperties DEF TypeOK, RowsKept

\* A file an older version wants is wanted below, whoever skips it meanwhile.
LEMMA StillWanted ==
  ASSUME Inv, NEW r \in Releases, r <= latest, NEW f, WantedBelow(f, r),
         \A q \in Releases : q < latest /\ Kept(q) => Kept(q)' /\ Copy(q)'.skip = Copy(q).skip
  PROVE  WantedBelow(f, r)'
  <1>1. PICK p \in Releases : p < r /\ Kept(p) /\ f \in Manifest[p] \ Copy(p).skip
    BY DEF WantedBelow
  <1>2. p < latest
    BY <1>1 DEF Inv, TypeOK, Releases
  <1> QED BY <1>1, <1>2 DEF WantedBelow

\* What is kept is no newer than the tracker's release.
LEMMA KeptIsOld == ASSUME Inv, NEW r \in Releases, Kept(r) PROVE r <= latest
  <1>1. Present(r) \/ left[r] # None
    BY DEF Kept, Copy, Present
  <1> QED BY <1>1, DeliveryAssumption DEF Inv, TypeOK, Baselines, Replaced, Releases

LEMMA FrameKeepsInv ==
  ASSUME Inv, TypeOK', Frame, RowsKept, w.pc # "add",
         Now \in Torrent, Tor.skip \subseteq Now.skip, Now.skip # Tor.skip => w.select,
         \A f \in Now.skip \ Tor.skip : WantedBelow(f, w.rel),
         w'.pc # "add", w'.pc \in Selecting => w.select,
         w.pc \in {"notify", "result"} => w'.pc \in {"notify", "result"},
         w'.pc = "start" => w.skip \subseteq Now.skip,
         w'.pc = "startRenamed" => ~w.paused,
         w'.pc \in {"rename", "confirm"} /\ w.rel \notin hist.touched =>
            ~Now.run /\ ~Now.data /\ Now.busy = "no"
  PROVE  Inv'
  <1>1. w.pc # "idle" /\ w'.pc # "idle" /\ TypeOK /\ w'.rel = w.rel
    BY DEF Inv, Frame
  <1>2. w.rel \in Releases /\ w.rel = latest /\ Present(w.rel) /\ Tor \in Torrent
    BY <1>1, Delivering
  <1>3. /\ \A q \in Releases \ {w.rel} : torrents'[q] = torrents[q]
        /\ torrents'[w.rel] = Now /\ torrents'[w.rel] # None
        /\ Tor' = Now
    BY <1>1, NoneAssumption DEF Frame, Now, Tor
  <1>4. \A q \in Releases : Present(q)' <=> Present(q)
    BY <1>2, <1>3 DEF Present
  <1>c. /\ \A q \in Releases : Kept(q)' <=> Kept(q)
        /\ \A q \in Releases \ {w.rel} : Copy(q)' = Copy(q)
        /\ \A q \in Releases : q = w.rel => Copy(q) = Tor /\ Copy(q)' = Now /\ Kept(q) /\ Kept(q)'
    <2>1. \A q \in Releases : (Present(q)' <=> Present(q)) /\ left'[q] = left[q]
      BY <1>4 DEF Frame
    <2>2. \A q \in Releases \ {w.rel} : Copy(q)' = Copy(q)
      BY <1>3, <2>1 DEF Copy, Present
    <2>3. \A q \in Releases : q = w.rel => Copy(q) = Tor /\ Copy(q)' = Now /\ Kept(q) /\ Kept(q)'
      <3>1. ASSUME NEW q \in Releases, q = w.rel PROVE torrents[q] = Tor /\ Tor # None
        BY <1>2, <3>1 DEF Present, Tor
      <3>2. ASSUME NEW q \in Releases, q = w.rel PROVE torrents'[q] = Now /\ Now # None
        BY <1>3, <3>2
      <3> QED BY <3>1, <3>2 DEF Copy, Kept
    <2> QED BY <2>2, <2>3 DEF Kept
  <1>5. /\ UNCHANGED <<kind, opt, left, latest, form, hash, seen>>
        /\ w'.paused = w.paused /\ w'.select = w.select /\ w'.skip = w.skip
        /\ w'.files = w.files /\ w'.fold = w.fold /\ w'.want = w.want
        /\ hist'.touched = hist.touched /\ hist'.old = hist.old
    BY DEF Frame
  <1>6. Applies' = Applies /\ \A r : r = w.rel => OtherRows(r)' = OtherRows(r) /\ HeldBack(r)' = HeldBack(r)
    BY <1>1, <1>5, SamePolicy
  <1>7. Baselines'
    <2>1. /\ \A r \in Releases : torrents'[r] # None => r <= latest'
          /\ \A r \in hist'.touched : r \in Releases /\ torrents'[r] # None
      BY <1>4, <1>5 DEF Inv, Baselines, Present
    <2>2. ASSUME NEW i \in DOMAIN rows'
          PROVE  /\ rows'[i].files \in {Unknown, Manifest[rows'[i].rel]}
                 /\ \A r \in Releases : r = rows'[i].rel =>
                       r <= latest' /\ (Kept(r)' \/ opt'.replace = "delete")
      <3>1. /\ Len(rows) \in Nat /\ DOMAIN rows = 1..Len(rows) /\ DOMAIN rows' = 1..Len(rows')
            /\ \A j \in DOMAIN rows : rows[j] \in Rows
        BY <1>1, LenProperties, ElementOfSeq DEF TypeOK
      <3>2. w.files \in {Unknown, Manifest[w.rel]}
        BY <1>1, <1>2, ManifestIs DEF Inv, Planned
      <3>3. CASE i \in 1..Len(rows)
        <4>1. rows'[i].rel = rows[i].rel /\ rows[i].rel \in Releases
          BY <3>1, <3>3 DEF RowsKept, Rows
        <4>2. rows'[i].files = rows[i].files \/ (rows[i].rel = w.rel /\ rows'[i].files = w.files)
          BY <3>3 DEF RowsKept
        <4>3. /\ rows[i].files \in {Unknown, Manifest[rows[i].rel]}
              /\ \A r \in Releases : r = rows[i].rel =>
                    r <= latest /\ (Kept(r) \/ opt.replace = "delete")
          BY <3>1, <3>3 DEF Inv, Baselines
        <4>4. \A r \in Releases : r = rows'[i].rel =>
                    r <= latest' /\ (Kept(r)' \/ opt'.replace = "delete")
          BY <1>c, <1>5, <4>1, <4>3
        <4> QED BY <3>2, <4>1, <4>2, <4>3, <4>4
      <3>4. CASE i \notin 1..Len(rows)
        <4>1. i = Len(rows) + 1 /\ Len(rows') = Len(rows) + 1
          <5>1. Len(rows') = Len(rows) \/ Len(rows') = Len(rows) + 1
            BY DEF RowsKept
          <5>2. i \in 1..Len(rows') /\ Len(rows) \in Nat
            BY <3>1
          <5> QED BY <3>4, <5>1, <5>2
        <4>2. rows'[i].rel = w.rel /\ rows'[i].files \in {Unknown, w.files}
          BY <4>1 DEF RowsKept
        <4>3. \A r \in Releases : r = w.rel => Kept(r)' /\ r <= latest'
          BY <1>2, <1>c, <1>5, DeliveryAssumption DEF Releases
        <4> QED BY <3>2, <4>2, <4>3
      <3> QED BY <3>3, <3>4
    <2> QED BY <2>1, <2>2 DEF Baselines, Present
  <1>r. Replaced'
    <2>1. ValidUpdatePolicy(opt)' /\ (\A r \in Releases : left'[r] # None => r < latest' /\ ~Present(r)')
      BY <1>4, <1>5 DEF Inv, Replaced, ValidUpdatePolicy
    <2>2. ASSUME opt.replace = "delete", NEW r \in Releases, Kept(r)'
          PROVE  Copy(r)'.skip = {}
      <3>1. \A q \in Releases : Kept(q) => Copy(q).skip = {}
        BY <2>2 DEF Inv, Replaced
      <3>2. CASE r # w.rel
        BY <1>c, <2>2, <3>1, <3>2
      <3>3. CASE r = w.rel
        <4>1. Tor.skip = {}
          BY <1>2, <1>c, <2>2, <3>1, <3>3
        <4>2. ~w.select
          BY <1>1, <2>2 DEF Inv, Replaced, ValidUpdatePolicy, Planned
        <4> QED BY <1>c, <3>3, <4>1, <4>2
      <3> QED BY <3>2, <3>3
    <2> QED BY <1>5, <2>1, <2>2 DEF Replaced
  <1>8. Planned'
    <2>1. ManifestOf(w.rel)' = ManifestOf(w.rel)
      BY <1>1, <1>5 DEF ManifestOf
    <2>2. CanSelect(kind)' = CanSelect(kind)
      BY <1>5 DEF CanSelect
    <2>3. /\ w.paused = Applies /\ w.files = ManifestOf(w.rel)
          /\ w.select => Applies /\ opt.onlyNew
          /\ w.select /\ w.pc \notin {"notify", "result"} =>
               OtherRows(w.rel) # {} /\ w.skip = HeldBack(w.rel)
          /\ w.fold = "rename" => CanSelect(kind) /\ w.want # NoRoot
          /\ w'.prior = w.prior /\ (w.prior # "none" => opt.replace # "no")
      BY <1>1 DEF Inv, Planned, Frame
    <2>4. ASSUME NEW r, r = w.rel
          PROVE /\ w.select => Applies' /\ opt'.onlyNew
                /\ w.select /\ w.pc \notin {"notify", "result"} =>
                     OtherRows(r)' # {} /\ w.skip = HeldBack(r)'
      BY <1>5, <1>6, <2>3, <2>4
    <2>5. /\ w'.select => Applies' /\ opt'.onlyNew
          /\ w'.select /\ w'.pc \notin {"notify", "result"} =>
               OtherRows(w.rel)' # {} /\ w'.skip = HeldBack(w.rel)'
      BY <1>1, <1>5, <2>4
    <2>6. w'.files = ManifestOf(w.rel)'
      BY <1>1, <1>5, <2>1, <2>3
    <2> QED BY <1>1, <1>2, <1>3, <1>4, <1>5, <1>6, <2>2, <2>3, <2>5, <2>6 DEF Planned
  <1>9. Held'
    <2>1. /\ OtherRows(latest) # {} => hist.old[latest] \subseteq HeldBack(latest)
          /\ hist.old[latest] # {} => Applies
      BY <1>2 DEF Inv, Held
    <2>2. OtherRows(latest)' = OtherRows(latest) /\ HeldBack(latest)' = HeldBack(latest)
      BY <1>2, <1>5, <1>6
    <2> QED BY <1>5, <1>6, <2>1, <2>2 DEF Held
  <1>10. SkipsBelow'
    <2> SUFFICES ASSUME NEW r \in Releases, Kept(r)', NEW f \in Copy(r)'.skip
                 PROVE  WantedBelow(f, r)'
      BY DEF SkipsBelow
    <2>1. r <= latest /\ Kept(r)
      BY <1>c, KeptIsOld DEF Inv
    <2>2. WantedBelow(f, r)
      <3>1. CASE f \in Copy(r).skip
        BY <2>1, <3>1 DEF Inv, SkipsBelow
      <3>2. CASE f \notin Copy(r).skip
        <4>1. r = w.rel /\ f \in Now.skip \ Tor.skip
          BY <1>c, <3>2
        <4> QED BY <4>1
      <3> QED BY <3>1, <3>2
    <2>3. \A q \in Releases : q < latest /\ Kept(q)
                             => Kept(q)' /\ Copy(q)'.skip = Copy(q).skip
      BY <1>2, <1>c DEF Releases
    <2> QED BY <2>1, <2>2, <2>3, StillWanted
  <1>11. Empty'
    BY <1>1, <1>3, <1>5 DEF Empty
  <1> QED BY <1>7, <1>r, <1>8, <1>9, <1>10, <1>11 DEF Inv

LEMMA SkipsAreWanted ==
  ASSUME Inv, w.pc \in {"skip", "start"}, NEW f \in w.skip
  PROVE  WantedBelow(f, w.rel)
  <1>1. /\ w.rel \in Releases /\ w.rel = latest /\ TypeOK
        /\ OtherRows(w.rel) # {} /\ w.skip = HeldBack(w.rel)
        /\ opt.replace # "delete"
    BY Delivering DEF Inv, Planned, Selecting, Replaced, ValidUpdatePolicy
  <1>2. PICK i \in DOMAIN rows : rows[i].rel # w.rel /\ LatestOther(w.rel) = rows[i] /\ rows[i] \in Rows
    BY <1>1, Newest
  <1> DEFINE p == rows[i].rel
  <1>3. p \in Releases /\ p # w.rel /\ Kept(p) /\ f \in Manifest[p]
    BY <1>1, <1>2 DEF Inv, Baselines, HeldBack, Rows
  <1>4. p <= latest
    BY <1>2, <1>3 DEF Inv, Baselines
  <1> HIDE DEF p
  <1>5. p < w.rel /\ w.rel \in Nat /\ p \in Nat
    <2>1. w.rel \in Nat /\ p \in Nat
      BY <1>1, <1>3, DeliveryAssumption DEF Releases
    <2>2. p # w.rel /\ p <= w.rel
      BY <1>1, <1>3, <1>4
    <2> QED BY <2>1, <2>2
  <1>6. CASE f \notin Copy(p).skip
    BY <1>3, <1>5, <1>6 DEF WantedBelow
  <1>7. CASE f \in Copy(p).skip
    <2>1. PICK q \in Releases : q < p /\ Kept(q) /\ f \in Manifest[q] \ Copy(q).skip
      BY <1>3, <1>7 DEF Inv, SkipsBelow, WantedBelow
    <2>2. q < w.rel
      <3>1. q \in Nat
        BY DeliveryAssumption DEF Releases
      <3> QED BY <1>5, <2>1, <3>1
    <2> QED BY <2>1, <2>2 DEF WantedBelow
  <1> QED BY <1>6, <1>7

\* The steps between Add and the result: recorded, planned and held back as
\* before, and the torrent's skips grow by the plan only.
Between == \/ recordDelivery \/ ListFiles \/ applyFolderName \/ waitForStopped \/ RenameRoot
           \/ waitForRoot \/ waitForFiles \/ SkipFiles \/ StartSelected \/ storeSelectedFiles
           \/ PolicyNote \/ finishDelivery \/ startRenamed \/ waitForRunning \/ recheckRenamed
           \/ stopUnchecked \/ notifyUpdated

\* What such a step must show for the invariant.
Keeps ==
    /\ TypeOK' /\ Frame /\ RowsKept /\ w.pc # "add" /\ w'.pc # "add"
    /\ Now \in Torrent /\ Tor \in Torrent
    /\ Now.skip = Tor.skip \/ (w.pc = "skip" /\ Now.skip = Tor.skip \cup w.skip)
    /\ w'.pc \in Selecting => w.select
    /\ w.pc \in {"notify", "result"} => w'.pc \in {"notify", "result"}
    /\ w'.pc = "start" => w.skip \subseteq Now.skip
    /\ w'.pc = "startRenamed" => ~w.paused
    /\ w'.pc \in {"rename", "confirm"} /\ w.rel \notin hist.touched =>
          ~Now.run /\ ~Now.data /\ Now.busy = "no"

LEMMA KeepsInv == ASSUME Inv, Keeps PROVE Inv'
  <1>1. Tor.skip \subseteq Now.skip /\ \A f \in Now.skip \ Tor.skip : WantedBelow(f, w.rel)
    BY SkipsAreWanted DEF Keeps
  <1>2. Now.skip # Tor.skip => w.select
    BY DEF Inv, Planned, Selecting, Keeps
  <1> QED BY <1>1, <1>2, FrameKeepsInv DEF Keeps

LEMMA TorrentStays ==
  ASSUME Inv, w.pc # "idle", w.pc # "add", UNCHANGED torrents, w'.rel = w.rel
  PROVE  Now = Tor /\ Now \in Torrent /\ Tor \in Torrent
  BY Delivering DEF Now, Tor

LEMMA BetweenKeeps == ASSUME Inv, Between PROVE Keeps
  <1>1. TypeOK /\ kind \in Plugins /\ w \in Work
    BY DEF Inv, TypeOK
  <1>2. CASE recordDelivery
    <2>1. w.pc = "record"
      BY <1>2 DEF recordDelivery
    <2>2. Now = Tor /\ Now \in Torrent /\ Tor \in Torrent
      BY <1>1, <1>2, <2>1, recordDeliveryIs, TorrentStays DEF Frame
    <2> QED BY <1>1, <1>2, <2>1, <2>2, recordDeliveryIs DEF Keeps, Selecting
  <1>3. CASE ListFiles
    <2>1. w.pc = "list"
      BY <1>3 DEF ListFiles
    <2>2. Now = Tor /\ Now \in Torrent /\ Tor \in Torrent
      BY <1>1, <1>3, <2>1, ListFilesIs, TorrentStays DEF Frame
    <2> QED BY <1>1, <1>3, <2>1, <2>2, ListFilesIs, SameRows DEF Keeps, Selecting
  <1>4. CASE applyFolderName
    <2>1. w.pc = "root"
      BY <1>4 DEF applyFolderName
    <2>2. Now \in Torrent /\ Tor \in Torrent /\ Now.skip = Tor.skip
      BY <1>1, <1>4, applyFolderNameIs, ReadIs
    <2> QED BY <1>1, <1>4, <2>1, <2>2, applyFolderNameIs, SameRows DEF Keeps, Selecting, Leaves
  <1>5. CASE waitForStopped
    <2>1. w.pc = "stopped"
      BY <1>5 DEF waitForStopped
    <2>2. Now \in Torrent /\ Tor \in Torrent /\ Now.skip = Tor.skip
      BY <1>1, <1>5, waitForStoppedIs, ReadIs
    <2>3. w'.pc = "rename" => ~Now.run /\ ~Now.data /\ Now.busy = "no"
      BY <1>1, <1>5, <2>2, waitForStoppedIs, ReadIs DEF ReportsStopped, Leaves
    <2> QED BY <1>1, <1>5, <2>1, <2>2, <2>3, waitForStoppedIs, SameRows DEF Keeps, Selecting, Leaves
  <1>6. CASE RenameRoot
    <2>1. w.pc = "rename"
      BY <1>6 DEF RenameRoot
    <2>2. /\ Now \in Torrent /\ Tor \in Torrent /\ Now.skip = Tor.skip
          /\ Now.run = Tor.run /\ Now.data = Tor.data /\ Now.busy = Tor.busy
      BY <1>1, <1>6, RenameRootIs, RenamingIs DEF Work
    <2>3. w.rel \notin hist.touched => ~Now.run /\ ~Now.data /\ Now.busy = "no"
      BY <2>1, <2>2 DEF Inv, Empty
    <2> QED BY <1>1, <1>6, <2>1, <2>2, <2>3, RenameRootIs, SameRows DEF Keeps, Selecting, Leaves
  <1>7. CASE waitForRoot
    <2>1. w.pc = "confirm"
      BY <1>7 DEF waitForRoot
    <2>2. Now = Tor /\ Now \in Torrent /\ Tor \in Torrent
      BY <1>1, <1>7, <2>1, waitForRootIs, TorrentStays DEF Frame
    <2> QED BY <1>1, <1>7, <2>1, <2>2, waitForRootIs, SameRows DEF Keeps, Selecting, Leaves
  <1>8. CASE waitForFiles
    <2>1. w.pc = "wait" /\ w.select
      BY <1>8 DEF waitForFiles, Inv, Planned, Selecting
    <2>2. Now = Tor /\ Now \in Torrent /\ Tor \in Torrent
      BY <1>1, <1>8, <2>1, waitForFilesIs, TorrentStays DEF Frame
    <2> QED BY <1>1, <1>8, <2>1, <2>2, waitForFilesIs, SameRows DEF Keeps, Selecting
  <1>9. CASE SkipFiles
    <2>1. w.pc = "skip" /\ w.select
      BY <1>9 DEF SkipFiles, Inv, Planned, Selecting
    <2>2. /\ Now \in Torrent /\ Tor \in Torrent
          /\ Now.skip = Tor.skip \/ Now.skip = Tor.skip \cup w.skip
          /\ w'.pc = "start" => Now.skip = Tor.skip \cup w.skip
      BY <1>1, <1>9, SkipFilesIs, SkippedIs DEF Work
    <2>3. w'.pc = "start" => w.skip \subseteq Now.skip
      BY <2>2
    <2> QED BY <1>1, <1>9, <2>1, <2>2, <2>3, SkipFilesIs, SameRows DEF Keeps, Selecting
  <1>10. CASE StartSelected
    <2>1. w.pc = "start"
      BY <1>10 DEF StartSelected
    <2>2. Now \in Torrent /\ Tor \in Torrent /\ Now.skip = Tor.skip
      BY <1>1, <1>10, StartSelectedIs, StartedIs
    <2> QED BY <1>1, <1>10, <2>1, <2>2, StartSelectedIs, SameRows DEF Keeps, Selecting
  <1>11. CASE storeSelectedFiles
    <2>1. w.pc = "store"
      BY <1>11 DEF storeSelectedFiles
    <2>2. Now = Tor /\ Now \in Torrent /\ Tor \in Torrent
      BY <1>1, <1>11, <2>1, storeSelectedFilesIs, TorrentStays DEF Frame
    <2> QED BY <1>1, <1>11, <2>1, <2>2, storeSelectedFilesIs DEF Keeps, Selecting
  <1>12. CASE PolicyNote
    <2>1. w.pc = "policy"
      BY <1>12 DEF PolicyNote
    <2>2. Now = Tor /\ Now \in Torrent /\ Tor \in Torrent
      BY <1>1, <1>12, <2>1, PolicyNoteIs, TorrentStays DEF Frame
    <2> QED BY <1>1, <1>12, <2>1, <2>2, PolicyNoteIs, SameRows DEF Keeps, Selecting
  <1>13. CASE finishDelivery
    <2>1. w.pc = "finish"
      BY <1>13 DEF finishDelivery
    <2>2. Now = Tor /\ Now \in Torrent /\ Tor \in Torrent
      BY <1>1, <1>13, <2>1, finishDeliveryIs, TorrentStays DEF Frame
    <2> QED BY <1>1, <1>13, <2>1, <2>2, finishDeliveryIs, SameRows DEF Keeps, Selecting
  <1>14. CASE startRenamed
    <2>1. w.pc = "startRenamed"
      BY <1>14 DEF startRenamed
    <2>2. Now \in Torrent /\ Tor \in Torrent /\ Now.skip = Tor.skip
      BY <1>1, <1>14, startRenamedIs, StartedIs
    <2> QED BY <1>1, <1>14, <2>1, <2>2, startRenamedIs, SameRows DEF Keeps, Selecting
  <1>15. CASE waitForRunning
    <2>1. w.pc = "running"
      BY <1>15 DEF waitForRunning
    <2>2. Now \in Torrent /\ Tor \in Torrent /\ Now.skip = Tor.skip
      BY <1>1, <1>15, waitForRunningIs, ReadIs
    <2> QED BY <1>1, <1>15, <2>1, <2>2, waitForRunningIs, SameRows DEF Keeps, Selecting
  <1>16. CASE recheckRenamed
    <2>1. w.pc = "recheck"
      BY <1>16 DEF recheckRenamed
    <2>2. Now \in Torrent /\ Tor \in Torrent /\ Now.skip = Tor.skip
      BY <1>1, <1>16, recheckRenamedIs, RecheckedIs
    <2> QED BY <1>1, <1>16, <2>1, <2>2, recheckRenamedIs, SameRows DEF Keeps, Selecting
  <1>17. CASE stopUnchecked
    <2>1. w.pc = "stop"
      BY <1>17 DEF stopUnchecked
    <2>2. Now \in Torrent /\ Tor \in Torrent /\ Now.skip = Tor.skip
      BY <1>1, <1>17, stopUncheckedIs, StoppedIs
    <2> QED BY <1>1, <1>17, <2>1, <2>2, stopUncheckedIs, SameRows DEF Keeps, Selecting
  <1>18. CASE notifyUpdated
    <2>1. w.pc = "notify"
      BY <1>18 DEF notifyUpdated
    <2>2. Now = Tor /\ Now \in Torrent /\ Tor \in Torrent
      BY <1>1, <1>18, <2>1, notifyUpdatedIs, TorrentStays DEF Frame
    <2> QED BY <1>1, <1>18, <2>1, <2>2, notifyUpdatedIs, SameRows DEF Keeps, Selecting
  <1> QED BY <1>2, <1>3, <1>4, <1>5, <1>6, <1>7, <1>8, <1>9, <1>10, <1>11, <1>12, <1>13,
             <1>14, <1>15, <1>16, <1>17, <1>18 DEF Between

\* The steps that leave every torrent, row and old file alone.
LEMMA PlanKeepsInv == ASSUME Inv, Plan PROVE Inv'
  <1>1. TypeOK /\ \A i \in DOMAIN rows : rows[i].files \in {Unknown, Manifest[rows[i].rel]}
    BY DEF Inv, Baselines
  <1>2. /\ TypeOK' /\ UNCHANGED <<kind, opt, left, latest, form, hash, rows, torrents, told>>
        /\ w'.pc = "add" /\ w'.rel = latest /\ w'.paused = Applies /\ w'.files = ManifestOf(latest)
        /\ w'.select => Applies /\ opt.onlyNew /\ OtherRows(latest) # {} /\ w'.skip = HeldBack(latest)
        /\ w'.fold = "rename" => CanSelect(kind) /\ w'.want # NoRoot
        /\ w'.prior \in {Prior(latest), "none"}
        /\ hist'.touched = hist.touched /\ hist'.old = hist.old
    BY <1>1, PlanIs
  <1>3. Baselines' /\ Replaced' /\ Held' /\ SkipsBelow'
    <2>1. /\ HeldBack(latest)' = HeldBack(latest) /\ OtherRows(latest)' = OtherRows(latest)
          /\ Applies' = Applies
      BY <1>2 DEF HeldBack, IsUpdate, OtherRows, LatestOther, Applies
    <2>2. \A q \in Releases : Copy(q)' = Copy(q)
      BY <1>2 DEF Copy
    <2>3. Baselines' /\ Replaced' /\ SkipsBelow'
      BY <1>2, <2>2 DEF Inv, Baselines, Replaced, ValidUpdatePolicy, SkipsBelow, WantedBelow,
                        Present, Kept
    <2>4. Held'
      BY <1>2, <2>1 DEF Inv, Held, Present
    <2> QED BY <2>3, <2>4
  <1>4. Planned'
    <2>1. /\ Applies' = Applies /\ ManifestOf(latest)' = ManifestOf(latest)
          /\ OtherRows(latest)' = OtherRows(latest) /\ HeldBack(latest)' = HeldBack(latest)
          /\ CanSelect(kind)' = CanSelect(kind)
      BY <1>2 DEF Applies, IsUpdate, ManifestOf, OtherRows, LatestOther, HeldBack
    <2>2. ASSUME NEW r, r = w'.rel, r = latest
          PROVE  /\ w'.files = ManifestOf(r)'
                 /\ w'.select => OtherRows(r)' # {} /\ w'.skip = HeldBack(r)'
      BY <1>2, <2>1, <2>2
    <2>3. /\ w'.files = ManifestOf(w.rel)'
          /\ w'.select => OtherRows(w.rel)' # {} /\ w'.skip = HeldBack(w.rel)'
      BY <1>2, <2>2
    <2>4. w'.prior # "none" => opt'.replace # "no"
      BY <1>2 DEF Prior
    <2> QED BY <1>2, <2>1, <2>3, <2>4 DEF Planned, Selecting
  <1>5. Empty'
    BY <1>2 DEF Empty
  <1> QED BY <1>2, <1>3, <1>4, <1>5 DEF Inv

LEMMA IdleKeepsInv ==
  ASSUME Inv, TypeOK', UNCHANGED <<kind, opt, left, form, rows, torrents>>, w'.pc = "idle",
         hist'.touched = hist.touched, hist'.old = hist.old,
         \/ latest' = latest /\ hash' = hash
         \/ latest' = latest /\ hash' = w.rel /\ w.pc # "idle"
         \/ latest' = latest + 1 /\ hash' = hash
  PROVE  Inv'
  <1>1. Baselines' /\ Replaced' /\ SkipsBelow'
    <2>1. ASSUME NEW r \in Releases
          PROVE  (r <= latest => r <= latest') /\ (r < latest => r < latest')
      <3>1. r \in Nat /\ latest \in Nat
        BY DeliveryAssumption DEF Releases, Inv, TypeOK
      <3> QED BY <2>1, <3>1
    <2>2. \A q \in Releases : Copy(q)' = Copy(q)
      BY DEF Copy
    <2> QED BY <2>1, <2>2 DEF Inv, Baselines, Replaced, ValidUpdatePolicy, SkipsBelow, WantedBelow,
                              Present, Kept
  <1>2. Held'
    <2>1. CASE latest' = latest
      <3>1. \/ hash' = hash
            \/ w.pc # "idle" /\ hash' = w.rel
        BY <2>1
      <3>2. w.pc # "idle" => w.rel \in 1..MaxRelease
        BY DEF Inv, TypeOK, Releases
      <3>3. IsUpdate => IsUpdate'
        BY <3>1, <3>2 DEF IsUpdate
      <3>4. /\ HeldBack(latest) \subseteq HeldBack(latest)'
            /\ OtherRows(latest)' = OtherRows(latest) /\ (Applies => Applies')
        BY <2>1, <3>3 DEF HeldBack, OtherRows, LatestOther, Applies
      <3>5. Present(latest)' => Present(latest)
        BY <2>1 DEF Present
      <3>6. latest \in Releases
        BY DEF Inv, TypeOK
      <3>7. \A r : r = latest => /\ OtherRows(r)' = OtherRows(r) /\ HeldBack(r) \subseteq HeldBack(r)'
                                 /\ hist'.old[r] = hist.old[r]
        BY <2>1, <3>3 DEF HeldBack, OtherRows, LatestOther
      <3> QED BY <2>1, <3>4, <3>5, <3>7 DEF Inv, Held
    <2>2. CASE latest' = latest + 1
      <3>1. latest' \in Releases /\ latest \in Nat
        BY DeliveryAssumption DEF Releases, Inv, TypeOK
      <3>2. ~Present(latest')
        BY <2>2, <3>1 DEF Inv, Baselines
      <3> QED BY <3>2 DEF Held, Present
    <2> QED BY <2>1, <2>2
  <1> QED BY <1>1, <1>2 DEF Inv, Planned, Empty

LEMMA RowsAre == ASSUME TypeOK PROVE \A i \in DOMAIN rows : rows[i] \in Rows /\ rows[i].rel \in Releases
  <1>1. rows \in Seq(Rows)
    BY DEF TypeOK
  <1>2. \A i \in DOMAIN rows : rows[i] \in Rows
    BY <1>1, LenProperties, ElementOfSeq
  <1> QED BY <1>2 DEF Rows

LEMMA AddKeepsInv == ASSUME Inv, Add PROVE Inv'
  <1>1. TypeOK /\ w.pc = "add" /\ w.rel \in Releases /\ w.rel = latest /\ w \in Work
    BY DEF Inv, TypeOK, Add, Planned
  <1>2. /\ TypeOK' /\ UNCHANGED <<kind, opt, left, latest, form, hash, seen, rows, told>>
        /\ w' \in {Go("record"), Idle}
        /\ hist'.touched = hist.touched
        /\ \A q \in Releases \ {w.rel} : torrents'[q] = torrents[q] /\ hist'.old[q] = hist.old[q]
        /\ \/ Now = Tor /\ hist'.old[w.rel] = hist.old[w.rel] /\ (w' = Go("record") => Tor # None)
           \/ /\ Tor = None /\ hist'.old[w.rel] = HeldBack(w.rel)
              /\ \E root \in FolderNames \cup {NoRoot} :
                   Now = Added(kind, addPaused, root) /\ Now \in Torrent
    BY <1>1, AddIs
  <1>3. \/ Now = Tor /\ hist'.old[w.rel] = hist.old[w.rel] /\ (w' = Go("record") => Tor # None)
        \/ Tor = None /\ hist'.old[w.rel] = HeldBack(w.rel) /\ Now \in Torrent /\ Now.skip = {}
    BY <1>2 DEF Added
  <1>4. /\ \A q \in Releases : Present(q)
                             => torrents'[q] # None /\ torrents'[q].skip = torrents[q].skip
        /\ \A q \in Releases : torrents'[q] # None => \/ Present(q) /\ torrents'[q] = torrents[q]
                                                      \/ q = latest /\ torrents'[q].skip = {}
    BY <1>1, <1>2, <1>3 DEF Present, Now, Tor
  <1>c. /\ \A q \in Releases : Kept(q) => Kept(q)' /\ Copy(q)'.skip = Copy(q).skip
        /\ \A q \in Releases : Kept(q)' => \/ Kept(q) /\ Copy(q)' = Copy(q)
                                           \/ q = latest /\ Copy(q)'.skip = {}
    <2>1. ASSUME NEW q \in Releases
          PROVE  left'[q] = left[q] /\ (left[q] # None => torrents[q] = None /\ q # latest)
      BY <1>2, DeliveryAssumption DEF Inv, Replaced, Releases, TypeOK, Present
    <2>2. ASSUME NEW q \in Releases, torrents[q] # None PROVE torrents'[q] = torrents[q]
      BY <1>1, <1>2, <1>3, <2>2, NoneAssumption DEF Now, Tor, Present
    <2>3. ASSUME NEW q \in Releases, torrents[q] = None, torrents'[q] # None
          PROVE  q = latest /\ torrents'[q].skip = {}
      BY <1>4, <2>3 DEF Present
    <2>4. ASSUME NEW q \in Releases, Kept(q) PROVE Kept(q)' /\ Copy(q)'.skip = Copy(q).skip
      <3>1. CASE torrents[q] # None
        <4>1. torrents'[q] = torrents[q]
          BY <2>2, <3>1
        <4> QED BY <3>1, <4>1 DEF Kept, Copy
      <3>2. CASE torrents[q] = None
        <4>1. left'[q] = left[q] /\ left[q] # None /\ q # latest
          BY <2>1, <2>4, <3>2 DEF Kept, Copy
        <4>2. torrents'[q] = None
          BY <2>3, <3>2, <4>1
        <4> QED BY <3>2, <4>1, <4>2 DEF Kept, Copy
      <3> QED BY <3>1, <3>2
    <2>5. ASSUME NEW q \in Releases, Kept(q)'
          PROVE  (Kept(q) /\ Copy(q)' = Copy(q)) \/ (q = latest /\ Copy(q)'.skip = {})
      <3>1. CASE torrents[q] # None
        <4>1. torrents'[q] = torrents[q]
          BY <2>2, <3>1
        <4> QED BY <3>1, <4>1 DEF Kept, Copy
      <3>2. CASE torrents[q] = None /\ torrents'[q] # None
        BY <2>3, <3>2 DEF Copy
      <3>3. CASE torrents[q] = None /\ torrents'[q] = None
        <4>1. left'[q] = left[q]
          BY <2>1
        <4> QED BY <2>5, <3>3, <4>1 DEF Kept, Copy
      <3> QED BY <3>1, <3>2, <3>3
    <2> QED BY <2>4, <2>5
  <1>5. Baselines'
    <2>1. latest <= latest
      BY <1>1, DeliveryAssumption DEF Releases
    <2>2. \A q \in Releases : torrents'[q] # None => q <= latest
      BY <1>1, <1>4, <2>1 DEF Inv, Baselines
    <2>3. \A q \in hist.touched : q \in Releases /\ torrents'[q] # None
      BY <1>4 DEF Inv, Baselines
    <2>4. /\ \A i \in DOMAIN rows : rows[i].files \in {Unknown, Manifest[rows[i].rel]}
          /\ \A i \in DOMAIN rows, r \in Releases : r = rows[i].rel =>
                r <= latest /\ (Kept(r)' \/ opt.replace = "delete")
      BY <1>c DEF Inv, Baselines
    <2> QED BY <1>2, <2>2, <2>3, <2>4 DEF Baselines, Present
  <1>r. Replaced'
    <2>1. ValidUpdatePolicy(opt)' /\ \A r \in Releases : left'[r] # None => r < latest' /\ ~Present(r)'
      <3>1. \A r \in Releases : r < latest => r # latest
        BY <1>1, DeliveryAssumption DEF Releases
      <3>2. ASSUME NEW r \in Releases, left[r] # None PROVE r < latest /\ torrents'[r] = None
        BY <1>4, <3>1, <3>2 DEF Inv, Replaced, Present
      <3> QED BY <1>2, <3>2 DEF Inv, Replaced, ValidUpdatePolicy, Present
    <2>2. opt'.replace = "delete" => \A r \in Releases : Kept(r)' => Copy(r)'.skip = {}
      BY <1>2, <1>c DEF Inv, Replaced
    <2> QED BY <2>1, <2>2 DEF Replaced
  <1>6. /\ HeldBack(latest)' = HeldBack(latest) /\ Applies' = Applies
        /\ ManifestOf(latest)' = ManifestOf(latest)
        /\ OtherRows(latest)' = OtherRows(latest) /\ CanSelect(kind)' = CanSelect(kind)
    BY <1>2 DEF HeldBack, IsUpdate, OtherRows, LatestOther, Applies, ManifestOf
  <1>7. Held'
    <2>1. Present(latest)' => /\ OtherRows(latest) # {} => hist'.old[latest] \subseteq HeldBack(latest)
                              /\ hist'.old[latest] # {} => Applies
      <3>1. CASE Now = Tor /\ hist'.old[w.rel] = hist.old[w.rel]
        BY <1>1, <1>2, <3>1 DEF Inv, Held, Present, Now, Tor
      <3>2. CASE hist'.old[w.rel] = HeldBack(w.rel)
        BY <1>1, <3>2 DEF HeldBack, Applies
      <3> QED BY <1>3, <3>1, <3>2
    <2> QED BY <1>2, <1>6, <2>1 DEF Held
  <1>8. SkipsBelow'
    <2> SUFFICES ASSUME NEW r \in Releases, Kept(r)', NEW f \in Copy(r)'.skip
                 PROVE  WantedBelow(f, r)'
      BY DEF SkipsBelow
    <2>1. Kept(r) /\ f \in Copy(r).skip
      BY <1>c
    <2>2. WantedBelow(f, r) /\ r <= latest
      BY <2>1, KeptIsOld DEF Inv, SkipsBelow
    <2> QED BY <1>c, <2>2, StillWanted
  <1>9. CASE w' = Idle
    <2>1. w'.pc = "idle"
      BY <1>9 DEF Idle
    <2> QED BY <1>2, <1>5, <1>r, <1>7, <1>8, <2>1 DEF Inv, Planned, Empty
  <1>10. CASE w' = Go("record")
    <2>1. /\ w'.pc = "record" /\ w'.rel = w.rel /\ w'.paused = w.paused /\ w'.select = w.select
          /\ w'.skip = w.skip /\ w'.files = w.files /\ w'.fold = w.fold /\ w'.want = w.want
          /\ w'.prior = w.prior
      BY <1>1, <1>10 DEF Go, Work
    <2>2. torrents'[w.rel] # None
      BY <1>3, <1>10, NoneAssumption DEF Now
    <2>3. /\ w.paused = Applies /\ w.files = ManifestOf(latest)
          /\ w.select => Applies /\ opt.onlyNew /\ OtherRows(latest) # {} /\ w.skip = HeldBack(latest)
          /\ w.fold = "rename" => CanSelect(kind) /\ w.want # NoRoot
          /\ w.prior # "none" => opt.replace # "no"
      BY <1>1 DEF Inv, Planned
    <2>4. /\ w'.files = ManifestOf(w.rel)'
          /\ w'.select => OtherRows(w.rel)' # {} /\ w'.skip = HeldBack(w.rel)'
      <3>1. ASSUME NEW r, r = w'.rel, r = latest
            PROVE  /\ w'.files = ManifestOf(r)'
                   /\ w'.select => OtherRows(r)' # {} /\ w'.skip = HeldBack(r)'
        <4>1. latest' = latest
          BY <1>2
        <4> QED BY <1>6, <2>1, <2>3, <3>1, <4>1
      <3> QED BY <1>1, <2>1, <3>1
    <2>5. Planned'
      BY <1>1, <1>2, <1>6, <2>1, <2>2, <2>3, <2>4 DEF Planned, Present, Selecting
    <2> QED BY <1>2, <1>5, <1>r, <1>7, <1>8, <2>1, <2>5 DEF Inv, Empty
  <1> QED BY <1>2, <1>9, <1>10

\* The client and the user change a torrent, but not its skips.
LEMMA WorldKeepsInv ==
  ASSUME Inv, TypeOK', UNCHANGED <<kind, opt, left, latest, form, hash, seen, rows, w>>, NEW r \in Releases,
         Present(r), torrents'[r] \in Torrent, torrents'[r].skip = torrents[r].skip,
         \A q \in Releases \ {r} : torrents'[q] = torrents[q],
         hist'.old = hist.old, hist'.touched \in {hist.touched, hist.touched \cup {r}},
         \/ r \in hist'.touched
         \/ /\ torrents'[r].run = torrents[r].run
            /\ torrents'[r].data = torrents[r].data \/ torrents[r].run
            /\ torrents'[r].busy \in {torrents[r].busy, "no"}
  PROVE  Inv'
  <1>1. TypeOK
    BY DEF Inv
  <1>2. \A q \in Releases : (torrents'[q] # None) = Present(q)
                            /\ (Present(q) => torrents'[q].skip = torrents[q].skip)
    BY NoneAssumption DEF Present
  <1>c. \A q \in Releases : (Kept(q)' = Kept(q)) /\ (Kept(q) => Copy(q)'.skip = Copy(q).skip)
    <2>1. ASSUME NEW q \in Releases, torrents[q] # None
          PROVE  torrents'[q] # None /\ torrents'[q].skip = torrents[q].skip
      BY <1>2, <2>1 DEF Present
    <2>2. ASSUME NEW q \in Releases, torrents[q] = None PROVE torrents'[q] = None /\ left'[q] = left[q]
      BY <1>2, <2>2 DEF Present
    <2> QED BY <2>1, <2>2 DEF Kept, Copy
  <1>3. /\ HeldBack(latest)' = HeldBack(latest) /\ Applies' = Applies
        /\ ManifestOf(w.rel)' = ManifestOf(w.rel)
        /\ OtherRows(latest)' = OtherRows(latest)
        /\ OtherRows(w.rel)' = OtherRows(w.rel) /\ CanSelect(kind)' = CanSelect(kind)
        /\ HeldBack(w.rel)' = HeldBack(w.rel)
    BY DEF HeldBack, IsUpdate, OtherRows, LatestOther, Applies, ManifestOf
  <1>4. Baselines'
    <2>2. /\ \A i \in DOMAIN rows : rows[i].files \in {Unknown, Manifest[rows[i].rel]}
          /\ \A i \in DOMAIN rows, q \in Releases : q = rows[i].rel =>
                q <= latest /\ (Kept(q)' \/ opt.replace = "delete")
      BY <1>c DEF Inv, Baselines
    <2>3. \A q \in hist'.touched : q \in Releases /\ torrents'[q] # None
      <3>1. \A q \in hist.touched : q \in Releases /\ Present(q)
        BY DEF Inv, Baselines
      <3> QED BY <1>2, <3>1
    <2>4. \A q \in Releases : torrents'[q] # None => q <= latest
      BY <1>2 DEF Inv, Baselines
    <2> QED BY <2>2, <2>3, <2>4 DEF Baselines, Present
  <1>r. Replaced'
    BY <1>2, <1>c DEF Inv, Replaced, ValidUpdatePolicy, Present
  <1>5. Held'
    BY <1>1, <1>2, <1>3 DEF Inv, Held, Present, TypeOK
  <1>6. SkipsBelow'
    <2> SUFFICES ASSUME NEW q \in Releases, Kept(q)', NEW f \in Copy(q)'.skip
                 PROVE  WantedBelow(f, q)'
      BY DEF SkipsBelow
    <2>1. WantedBelow(f, q) /\ q <= latest
      BY <1>c, KeptIsOld DEF Inv, SkipsBelow
    <2>2. \A p \in Releases : p < latest /\ Kept(p) => Kept(p)' /\ Copy(p)'.skip = Copy(p).skip
      BY <1>c
    <2> QED BY <2>1, <2>2, StillWanted
  <1>7. Planned'
    <2>1. w.pc # "idle" => w.rel \in Releases
      BY <1>1 DEF TypeOK
    <2>2. w.pc # "idle" /\ w.pc # "add" => torrents'[w.rel] # None /\ torrents'[w.rel].skip = Tor.skip
      BY <1>2, <2>1 DEF Inv, Planned, Tor, Present
    <2> QED BY <1>3, <2>1, <2>2 DEF Inv, Planned, Present, Tor, Selecting
  <1>8. Empty'
    <2> SUFFICES ASSUME w.pc \in {"rename", "confirm"}, w.rel \notin hist'.touched
                 PROVE  ~Tor'.run /\ ~Tor'.data /\ Tor'.busy = "no"
      BY DEF Empty
    <2>1. w.rel \in Releases /\ w.rel \notin hist.touched
      BY <1>1 DEF TypeOK
    <2>2. ~Tor.run /\ ~Tor.data /\ Tor.busy = "no"
      BY <2>1 DEF Inv, Empty
    <2>3. CASE r = w.rel
      BY <2>2, <2>3 DEF Tor
    <2>4. CASE r # w.rel
      BY <2>1, <2>2, <2>4 DEF Tor
    <2> QED BY <2>3, <2>4
  <1> QED BY <1>4, <1>r, <1>5, <1>6, <1>7, <1>8 DEF Inv

\* The previous version leaves the client, for the disk or for good: only this
\* delivery's torrent is left alone, and nothing else changes but what the
\* worker has still to do.
LEMMA removePreviousIs ==
  ASSUME TypeOK, removePrevious
  PROVE  /\ TypeOK' /\ UNCHANGED <<kind, opt, latest, form, hash, seen, rows, told>>
         /\ w.pc = "notify" /\ w.prior = "listed"
         /\ \E p \in {"removed", "none"} : w' = [w EXCEPT !.prior = p]
         /\ hist'.old = hist.old /\ hist'.crashed = hist.crashed
         /\ hist'.folder = hist.folder /\ hist'.astray = hist.astray
         /\ \E gone \in SUBSET Removable :
              /\ hist'.touched = hist.touched \ gone
              /\ torrents' = [r \in Releases |-> IF r \in gone THEN None ELSE torrents[r]]
              /\ left' = [r \in Releases |-> IF r \in gone /\ opt.replace = "keep"
                                            THEN torrents[r] ELSE left[r]]
  <1>1. PICK out \in {"ok", "error"}, gone \in SUBSET Removable :
          /\ Pay("call", IF CanRemove(kind) THEN Cost(out) ELSE 0)
          /\ torrents' = [r \in Releases |-> IF r \in gone THEN None ELSE torrents[r]]
          /\ left' = [r \in Releases |-> IF r \in gone /\ opt.replace = "keep"
                                        THEN torrents[r] ELSE left[r]]
          /\ w' = [w EXCEPT !.prior = IF out = "ok" THEN "removed" ELSE "none"]
          /\ hist' = [hist EXCEPT !.faults = @ + IF CanRemove(kind) THEN Cost(out) ELSE 0,
                                 !.touched = @ \ gone]
    BY Zenon DEF removePrevious
  <1> DEFINE n == IF CanRemove(kind) THEN Cost(out) ELSE 0
             p == IF out = "ok" THEN "removed" ELSE "none"
  <1>2. /\ w \in Work /\ w.pc = "notify" /\ w.prior = "listed" /\ hist \in History
        /\ UNCHANGED <<kind, opt, latest, form, hash, seen, rows, told>>
    BY DEF TypeOK, removePrevious
  <1>3. n \in Nat /\ hist.faults + n <= MaxFaults
    BY <1>1 DEF Cost, Pay
  <1>4. hist' = [hist EXCEPT !.faults = @ + n, !.touched = @ \ gone]
    BY <1>1
  <1>5. w' = [w EXCEPT !.prior = p] /\ p \in {"removed", "none"}
    BY <1>1
  <1> HIDE DEF n, p
  <1>6. hist.faults + n \in 0..MaxFaults
    BY <1>2, <1>3, DeliveryAssumption DEF History
  <1>7. /\ hist' \in History /\ hist'.touched = hist.touched \ gone /\ hist'.crashed = hist.crashed
        /\ hist'.folder = hist.folder /\ hist'.old = hist.old /\ hist'.astray = hist.astray
    BY <1>2, <1>4, <1>6 DEF History
  <1>8. w' \in Work /\ w'.pc = w.pc /\ w'.rel = w.rel
    BY <1>2, <1>5 DEF Work
  <1>9. /\ torrents' \in [Releases -> Torrent \cup {None}]
        /\ left' \in [Releases -> Torrent \cup {None}]
    BY <1>1 DEF TypeOK
  <1>10. TypeOK'
    BY <1>2, <1>7, <1>8, <1>9 DEF TypeOK
  <1> QED BY <1>1, <1>2, <1>5, <1>7, <1>10

\* What is replaced is in the table, and older than what was delivered.
LEMMA RemovableIs ==
  ASSUME Inv, w.pc = "notify", NEW r \in Removable
  PROVE  r \in Releases /\ Present(r) /\ r # w.rel /\ r < latest /\ left[r] = None
  <1>1. PICK i \in DOMAIN rows : rows[i].rel # w.rel /\ r = rows[i].rel
    BY DEF Removable, Previous, OtherRows
  <1>2. r \in Releases /\ TypeOK /\ w.rel = latest
    BY <1>1, RowsAre DEF Inv, Planned
  <1>3. r <= latest /\ r # latest /\ Present(r)
    BY <1>1, <1>2 DEF Inv, Baselines, Removable, Present
  <1>4. r < latest
    BY <1>2, <1>3, DeliveryAssumption DEF TypeOK, Releases
  <1> QED BY <1>1, <1>2, <1>3, <1>4 DEF Inv, Replaced

LEMMA RemoveKeepsInv == ASSUME Inv, removePrevious PROVE Inv'
  <1>1. TypeOK
    BY DEF Inv
  <1>2. PICK gone \in SUBSET Removable :
          /\ hist'.touched = hist.touched \ gone
          /\ torrents' = [r \in Releases |-> IF r \in gone THEN None ELSE torrents[r]]
          /\ left' = [r \in Releases |-> IF r \in gone /\ opt.replace = "keep"
                                        THEN torrents[r] ELSE left[r]]
    BY <1>1, removePreviousIs
  <1>3. /\ TypeOK' /\ UNCHANGED <<kind, opt, latest, form, hash, seen, rows, told>>
        /\ w.pc = "notify" /\ w.prior = "listed" /\ hist'.old = hist.old
    BY <1>1, removePreviousIs
  <1>4. /\ w'.pc = w.pc /\ w'.rel = w.rel /\ w'.paused = w.paused /\ w'.select = w.select
        /\ w'.skip = w.skip /\ w'.files = w.files /\ w'.fold = w.fold /\ w'.want = w.want
    BY <1>1, removePreviousIs DEF TypeOK, Work
  <1>5. \A r \in gone : r \in Releases /\ Present(r) /\ r # w.rel /\ r < latest /\ left[r] = None
    BY <1>3, RemovableIs
  <1>6. w.rel = latest /\ latest \in Releases /\ opt.replace # "no" /\ opt \in Settings
    BY <1>3 DEF Inv, Planned, TypeOK
  <1>7. \A r \in Releases :
          /\ torrents'[r] = IF r \in gone THEN None ELSE torrents[r]
          /\ left'[r] = IF r \in gone /\ opt.replace = "keep" THEN torrents[r] ELSE left[r]
    BY <1>2
  <1>8. opt.replace = "keep" => \A r \in Releases : Copy(r)' = Copy(r)
    BY <1>5, <1>7 DEF Copy, Present
  <1>9. opt.replace # "keep" =>
          /\ opt.replace = "delete"
          /\ \A r \in Releases : Kept(r)' => Kept(r) /\ Copy(r)' = Copy(r)
    BY <1>5, <1>6, <1>7 DEF Copy, Kept, Present, Settings
  <1>10. Baselines'
    <2>1. \A r \in Releases : Present(r)' => Present(r)
      BY <1>7 DEF Present
    <2>2. \A r \in hist'.touched : r \in Releases /\ Present(r)'
      BY <1>2, <1>7 DEF Inv, Baselines, Present
    <2>3. \A i \in DOMAIN rows, r \in Releases : r = rows[i].rel =>
             r <= latest /\ (Kept(r)' \/ opt.replace = "delete")
      BY <1>8, <1>9 DEF Inv, Baselines, Kept
    <2> QED BY <1>3, <2>1, <2>2, <2>3 DEF Inv, Baselines
  <1>11. Replaced'
    <2>1. ASSUME NEW r \in Releases, left'[r] # None PROVE r < latest /\ torrents'[r] = None
      <3>1. CASE r \in gone
        BY <1>5, <1>7, <3>1
      <3>2. CASE r \notin gone
        BY <1>7, <2>1, <3>2 DEF Inv, Replaced, Present
      <3> QED BY <3>1, <3>2
    <2>2. opt.replace = "delete" => \A r \in Releases : Kept(r)' => Copy(r)'.skip = {}
      BY <1>9 DEF Inv, Replaced
    <2> QED BY <1>3, <2>1, <2>2 DEF Inv, Replaced, ValidUpdatePolicy, Present
  <1>12. Planned'
    <2>1. Present(latest) /\ torrents'[latest] = torrents[latest]
      BY <1>3, <1>5, <1>6, <1>7 DEF Inv, Planned
    <2>2. Applies' = Applies /\ CanSelect(kind)' = CanSelect(kind)
          /\ \A r : r = latest => ManifestOf(r)' = ManifestOf(r)
      BY <1>3 DEF Applies, IsUpdate, CanSelect, ManifestOf
    <2>3. /\ w.paused = Applies /\ w.files = ManifestOf(latest)
          /\ w.select => Applies /\ opt.onlyNew
          /\ w.fold = "rename" => CanSelect(kind) /\ w.want # NoRoot
      BY <1>3, <1>6 DEF Inv, Planned
    <2>4. w'.files = ManifestOf(w.rel)' /\ Present(w.rel)'
      <3>1. ASSUME NEW r, r = w'.rel, r = latest PROVE w'.files = ManifestOf(r)' /\ Present(r)'
        BY <1>4, <2>1, <2>2, <2>3, <3>1 DEF Present
      <3> QED BY <1>4, <1>6, <3>1
    <2> QED BY <1>3, <1>4, <1>6, <2>2, <2>3, <2>4 DEF Planned, Selecting
  <1>13. Held'
    <2>1. /\ OtherRows(latest)' = OtherRows(latest) /\ HeldBack(latest)' = HeldBack(latest)
          /\ Applies' = Applies
      BY <1>3 DEF HeldBack, IsUpdate, OtherRows, LatestOther, Applies
    <2>2. Present(latest)' => Present(latest)
      BY <1>3, <1>6, <1>7 DEF Present
    <2> QED BY <1>3, <2>1, <2>2 DEF Inv, Held
  <1>14. SkipsBelow'
    <2> SUFFICES ASSUME NEW r \in Releases, Kept(r)', NEW f \in Copy(r)'.skip
                 PROVE  WantedBelow(f, r)'
      BY DEF SkipsBelow
    <2>1. CASE opt.replace = "keep"
      <3>1. \A q \in Releases : Kept(q)' = Kept(q)
        BY <1>8, <2>1 DEF Kept
      <3>2. WantedBelow(f, r) /\ r <= latest
        BY <1>8, <2>1, <3>1, KeptIsOld DEF Inv, SkipsBelow
      <3> QED BY <1>8, <2>1, <3>1, <3>2, StillWanted
    <2>2. CASE opt.replace # "keep"
      BY <1>9, <2>2 DEF Inv, Replaced
    <2> QED BY <2>1, <2>2
  <1>15. Empty'
    BY <1>3, <1>4 DEF Empty
  <1> QED BY <1>3, <1>10, <1>11, <1>12, <1>13, <1>14, <1>15 DEF Inv

\* The rows that stay are this delivery's.
LEMMA OwnRowsAre ==
  ASSUME TypeOK
  PROVE  /\ OwnRows \in Seq(Rows)
         /\ \A i \in DOMAIN OwnRows : OwnRows[i].rel = w.rel /\ \E j \in DOMAIN rows : OwnRows[i] = rows[j]
  <1> DEFINE own == DOMAIN rows \ OtherRows(w.rel)
  <1>1. /\ rows \in Seq(Rows) /\ Len(rows) \in Nat /\ DOMAIN rows = 1..Len(rows)
        /\ \A i \in 1..Len(rows) : rows[i] \in Rows
    BY LenProperties, ElementOfSeq DEF TypeOK
  <1>2. own \in SUBSET (1..Len(rows)) /\ \A j \in own : rows[j].rel = w.rel
    BY <1>1 DEF OtherRows
  <1>3. OwnRows = IF own = {} THEN <<>> ELSE <<rows[Max(own)]>>
    BY DEF OwnRows
  <1> HIDE DEF own
  <1>4. CASE own = {}
    <2>1. OwnRows = <<>> /\ <<>> \in Seq(Rows) /\ DOMAIN OwnRows = {}
      BY <1>3, <1>4
    <2> QED BY <2>1
  <1>5. CASE own # {}
    <2>1. Max(own) \in own
      BY <1>1, <1>2, <1>5, Greatest
    <2> DEFINE j == Max(own)
    <2>2. j \in 1..Len(rows) /\ rows[j] \in Rows /\ rows[j].rel = w.rel /\ j \in DOMAIN rows
      BY <1>1, <1>2, <2>1
    <2>3. OwnRows = <<rows[j]>>
      BY <1>3, <1>5
    <2> HIDE DEF j
    <2>4. OwnRows \in Seq(Rows) /\ DOMAIN OwnRows = {1} /\ OwnRows[1] = rows[j]
      BY <2>2, <2>3
    <2> QED BY <2>2, <2>4
  <1> QED BY <1>4, <1>5

LEMMA pruneRowsIs ==
  ASSUME TypeOK, pruneRows
  PROVE  /\ TypeOK' /\ UNCHANGED <<kind, opt, left, latest, form, hash, seen, torrents, told>>
         /\ w.pc = "notify" /\ w' = [w EXCEPT !.prior = "none"]
         /\ hist'.touched = hist.touched /\ hist'.old = hist.old /\ hist'.crashed = hist.crashed
         /\ hist'.folder = hist.folder /\ hist'.astray = hist.astray
         /\ rows' \in {rows, OwnRows}
  <1>1. PICK out \in {"ok", "error"} :
          /\ Pay("record", Cost(out))
          /\ rows' = IF out = "ok" THEN OwnRows ELSE rows
          /\ hist' = [hist EXCEPT !.faults = @ + Cost(out)]
    BY DEF pruneRows
  <1>2. /\ w \in Work /\ w.pc = "notify" /\ w' = [w EXCEPT !.prior = "none"]
        /\ UNCHANGED <<kind, opt, left, latest, form, hash, seen, torrents, told>>
    BY DEF TypeOK, pruneRows
  <1>3. /\ hist' \in History /\ hist'.touched = hist.touched /\ hist'.crashed = hist.crashed
        /\ hist'.folder = hist.folder /\ hist'.old = hist.old /\ hist'.astray = hist.astray
    <2>1. Cost(out) \in Nat /\ hist.faults + Cost(out) <= MaxFaults
      BY <1>1 DEF Cost, Pay
    <2> QED BY <1>1, <2>1, OneFault
  <1>4. w' \in Work /\ w'.pc = w.pc /\ w'.rel = w.rel
    BY <1>2 DEF Work
  <1>5. rows' \in Seq(Rows)
    BY <1>1, OwnRowsAre DEF TypeOK
  <1>6. TypeOK'
    BY <1>2, <1>3, <1>4, <1>5 DEF TypeOK
  <1> QED BY <1>1, <1>2, <1>3, <1>6

LEMMA PruneKeepsInv == ASSUME Inv, pruneRows PROVE Inv'
  <1>1. TypeOK
    BY DEF Inv
  <1>2. /\ TypeOK' /\ UNCHANGED <<kind, opt, left, latest, form, hash, seen, torrents, told>>
        /\ w.pc = "notify" /\ hist'.touched = hist.touched /\ hist'.old = hist.old
        /\ rows' \in {rows, OwnRows}
    BY <1>1, pruneRowsIs
  <1>3. /\ w'.pc = w.pc /\ w'.rel = w.rel /\ w'.paused = w.paused /\ w'.select = w.select
        /\ w'.skip = w.skip /\ w'.files = w.files /\ w'.fold = w.fold /\ w'.want = w.want
        /\ w'.prior = "none"
    BY <1>1, pruneRowsIs DEF TypeOK, Work
  <1>4. w.rel = latest /\ Applies' = Applies
    BY <1>2 DEF Inv, Planned, Applies, IsUpdate
  <1>5. \A r \in Releases : Copy(r)' = Copy(r) /\ Kept(r)' = Kept(r) /\ Present(r)' = Present(r)
    BY <1>2 DEF Copy, Kept, Present
  <1>6. \A i \in DOMAIN rows' : \E j \in DOMAIN rows : rows'[i] = rows[j]
    BY <1>1, <1>2, OwnRowsAre
  <1>7. Baselines'
    <2>1. \A i \in DOMAIN rows' : rows'[i].files \in {Unknown, Manifest[rows'[i].rel]}
      BY <1>6 DEF Inv, Baselines
    <2>2. \A i \in DOMAIN rows', r \in Releases : r = rows'[i].rel =>
             r <= latest /\ (Kept(r) \/ opt.replace = "delete")
      BY <1>6 DEF Inv, Baselines
    <2> QED BY <1>2, <1>5, <2>1, <2>2 DEF Inv, Baselines
  <1>8. Replaced' /\ SkipsBelow'
    BY <1>2, <1>5 DEF Inv, Replaced, ValidUpdatePolicy, SkipsBelow, WantedBelow
  <1>9. Planned'
    <2>1. ManifestOf(w.rel)' = w.files /\ CanSelect(kind)' = CanSelect(kind) /\ Present(w.rel)'
      <3>1. ASSUME NEW r, r = w'.rel, r = latest PROVE ManifestOf(r)' = w.files /\ Present(r)'
        BY <1>2, <1>3, <1>4, <3>1 DEF Inv, Planned, ManifestOf, Present
      <3> QED BY <1>2, <1>3, <1>4, <3>1 DEF CanSelect
    <2> QED BY <1>2, <1>3, <1>4, <2>1 DEF Inv, Planned, Selecting
  <1>10. Held'
    <2>1. CASE rows' = rows
      BY <1>2, <1>4, <2>1 DEF Inv, Held, Present, OtherRows, HeldBack, LatestOther, IsUpdate
    <2>2. CASE rows' = OwnRows
      <3>1. OtherRows(latest)' = {}
        BY <1>1, <1>2, <1>4, <2>2, OwnRowsAre DEF OtherRows
      <3> QED BY <1>2, <1>4, <3>1 DEF Inv, Held, Present
    <2> QED BY <1>2, <2>1, <2>2
  <1>11. Empty'
    BY <1>2, <1>3 DEF Empty
  <1> QED BY <1>2, <1>7, <1>8, <1>9, <1>10, <1>11 DEF Inv

\* Inv holds in every reachable state: one step.
LEMMA NextKeepsInv == ASSUME Inv, [Next]_vars PROVE Inv'
  <1>1. TypeOK
    BY DEF Inv
  <1>2. CASE Plan
    BY <1>2, PlanKeepsInv
  <1>3. CASE Add
    BY <1>3, AddKeepsInv
  <1>4. CASE Between
    BY <1>4, BetweenKeeps, KeepsInv
  <1>5. CASE Result
    <2>1. /\ TypeOK' /\ UNCHANGED <<kind, opt, left, latest, form, seen, rows, torrents, told>>
          /\ w.pc # "idle" /\ w' = Idle /\ hash' \in {hash, w.rel}
          /\ hist'.touched = hist.touched /\ hist'.old = hist.old
      BY <1>1, <1>5, ResultIs
    <2>2. w'.pc = "idle"
      BY <2>1 DEF Idle
    <2> QED BY <2>1, <2>2, IdleKeepsInv
  <1>6. CASE Refused \/ Crash
    <2>1. /\ TypeOK' /\ UNCHANGED <<kind, opt, left, latest, form, hash, seen, rows, torrents, told>>
          /\ w' = Idle /\ hist'.touched = hist.touched /\ hist'.old = hist.old
      BY <1>1, <1>6, EndsIs
    <2>2. w'.pc = "idle"
      BY <2>1 DEF Idle
    <2> QED BY <2>1, <2>2, IdleKeepsInv
  <1>7. CASE Publish
    <2>1. /\ TypeOK' /\ w.pc = "idle" /\ latest' = latest + 1
          /\ UNCHANGED <<kind, opt, left, form, hash, seen, rows, torrents, w, told, hist>>
      BY <1>1, <1>7, PublishIs
    <2> QED BY <2>1, IdleKeepsInv
  <1>8. ASSUME NEW r \in Releases, ClientStep(r) PROVE Inv'
    <2>1. /\ TypeOK' /\ UNCHANGED <<kind, opt, left, latest, form, hash, seen, rows, w, told, hist>>
          /\ torrents[r] \in Torrent /\ Evolves(torrents[r], torrents'[r])
          /\ \A q \in Releases \ {r} : torrents'[q] = torrents[q]
      BY <1>1, <1>8, ClientStepIs
    <2>2. Present(r)
      BY <2>1, NoneAssumption DEF Present
    <2>3. /\ torrents'[r] \in Torrent /\ torrents'[r].skip = torrents[r].skip
          /\ torrents'[r].run = torrents[r].run
          /\ torrents'[r].data = torrents[r].data \/ torrents[r].run
          /\ torrents'[r].busy \in {torrents[r].busy, "no"}
      BY <2>1 DEF Evolves
    <2> QED BY <2>1, <2>2, <2>3, WorldKeepsInv
  <1>9. ASSUME NEW r \in Releases, UserStep(r) PROVE Inv'
    <2>1. /\ TypeOK' /\ UNCHANGED <<kind, opt, left, latest, form, hash, seen, rows, w, told>>
          /\ torrents[r] \in Torrent /\ torrents'[r] \in {Stopped(torrents[r]), Started(kind, torrents[r])}
          /\ torrents'[r] \in Torrent
          /\ \A q \in Releases \ {r} : torrents'[q] = torrents[q]
          /\ hist'.old = hist.old /\ hist'.touched = hist.touched \cup {r}
      BY <1>1, <1>9, UserStepIs
    <2>2. Present(r) /\ kind \in Plugins
      BY <1>1, <2>1, NoneAssumption DEF Present, TypeOK
    <2>3. torrents'[r].skip = torrents[r].skip
      BY <2>1, <2>2, StoppedIs, StartedIs
    <2> QED BY <2>1, <2>2, <2>3, WorldKeepsInv
  <1>10. CASE UNCHANGED vars
    <2>1. TypeOK'
      BY <1>1, <1>10 DEF TypeOK, vars
    <2>2. Baselines' /\ Replaced' /\ Held' /\ SkipsBelow' /\ Empty'
      BY <1>10 DEF vars, Inv, Baselines, Replaced, ValidUpdatePolicy, Held, SkipsBelow, Empty,
                   WantedBelow, Present, Kept, Copy, HeldBack, IsUpdate, OtherRows, LatestOther, Tor, Applies
    <2>3. Planned'
      BY <1>10 DEF vars, Inv, Planned, Present, HeldBack, IsUpdate, OtherRows, LatestOther, Tor,
                   Applies, ManifestOf, Selecting
    <2> QED BY <2>1, <2>2, <2>3 DEF Inv
  <1>11. CASE removePrevious \/ pruneRows
    BY <1>11, RemoveKeepsInv, PruneKeepsInv
  <1> QED BY <1>2, <1>3, <1>4, <1>5, <1>6, <1>7, <1>8, <1>9, <1>10, <1>11 DEF Next, Worker, Between

\* Every variable of the delivery always has its type, histories included.
THEOREM TypeCorrect == Spec => []TypeOK
  <1>1. Inv => TypeOK
    BY DEF Inv
  <1> QED BY InitInv, NextKeepsInv, <1>1, PTL DEF Spec

----------------------------------------------------------------------------
(* Every step is one the promise allows                                    *)

\* Only a start runs the torrent, and only the rename renames it.
Gently ==
    /\ Now.toRoot = Tor.toRoot \/ w.pc = "rename"
    /\ Now.run = Tor.run \/ (~Now.run /\ w.pc # "skip") \/ w.pc \in {"start", "startRenamed"}

LEMMA BetweenIsGentle == ASSUME Inv, Between PROVE Gently
  <1>1. TypeOK /\ kind \in Plugins /\ w \in Work
    BY DEF Inv, TypeOK
  <1>2. CASE UNCHANGED torrents /\ w'.rel = w.rel
    <2>1. Now = Tor
      BY <1>2 DEF Now, Tor
    <2> QED BY <2>1 DEF Gently
  <1>3. CASE recordDelivery \/ ListFiles \/ waitForRoot \/ waitForFiles \/ storeSelectedFiles
             \/ PolicyNote \/ finishDelivery \/ notifyUpdated
    <2>1. recordDelivery \/ ListFiles \/ waitForRoot \/ waitForFiles => UNCHANGED torrents /\ Frame
      BY <1>1, recordDeliveryIs, ListFilesIs, waitForRootIs, waitForFilesIs
    <2>2. storeSelectedFiles \/ PolicyNote \/ finishDelivery \/ notifyUpdated
             => UNCHANGED torrents /\ Frame
      BY <1>1, storeSelectedFilesIs, PolicyNoteIs, finishDeliveryIs, notifyUpdatedIs
    <2> QED BY <1>2, <1>3, <2>1, <2>2 DEF Frame
  <1>4. CASE applyFolderName
    <2>1. Tor \in Torrent /\ (Now = Tor \/ Now = Read(Tor))
      BY <1>1, <1>4, applyFolderNameIs
    <2> QED BY <2>1, ReadIs DEF Gently
  <1>5. CASE waitForStopped
    <2>1. Tor \in Torrent /\ (Now = Tor \/ Now = Read(Tor))
      BY <1>1, <1>5, waitForStoppedIs
    <2> QED BY <2>1, ReadIs DEF Gently
  <1>6. CASE RenameRoot
    <2>1. Now.run = Tor.run
      BY <1>1, <1>6, RenameRootIs, RenamingIs DEF Work
    <2> QED BY <1>6, <2>1 DEF Gently, RenameRoot
  <1>7. CASE SkipFiles
    BY <1>1, <1>7, SkipFilesIs, SkippedIs DEF Gently, Work
  <1>8. CASE StartSelected
    <2>1. Now.toRoot = Tor.toRoot
      BY <1>1, <1>8, StartSelectedIs, StartedIs
    <2> QED BY <1>8, <2>1 DEF Gently, StartSelected
  <1>9. CASE startRenamed
    <2>1. Now.toRoot = Tor.toRoot
      BY <1>1, <1>9, startRenamedIs, StartedIs
    <2> QED BY <1>9, <2>1 DEF Gently, startRenamed
  <1>10. CASE waitForRunning
    BY <1>1, <1>10, waitForRunningIs, ReadIs DEF Gently
  <1>11. CASE recheckRenamed
    <2>1. Now.toRoot = Tor.toRoot /\ (Now.run => Tor.run) /\ Now.run \in BOOLEAN /\ Tor.run \in BOOLEAN
      BY <1>1, <1>11, recheckRenamedIs, RecheckedIs DEF Torrent
    <2> QED BY <1>11, <2>1 DEF Gently, recheckRenamed
  <1>12. CASE stopUnchecked
    <2>1. Now.toRoot = Tor.toRoot /\ (Now.run = Tor.run \/ ~Now.run)
      BY <1>1, <1>12, stopUncheckedIs, StoppedIs
    <2> QED BY <1>12, <2>1 DEF Gently, stopUnchecked
  <1> QED BY <1>3, <1>4, <1>5, <1>6, <1>7, <1>8, <1>9, <1>10, <1>11, <1>12 DEF Between

\* What a removed torrent l of release r left.
LeftBy(l, r) == IF l = None THEN {} ELSE Manifest[r] \ l.skip

\* A box of the promise.
LEMMA BoxIs ==
  ASSUME NEW r \in Releases
  PROVE  /\ torrents[r] = None =>
              InClient[r] = [here |-> FALSE, run |-> FALSE, skip |-> {}, old |-> {},
                             user |-> FALSE, left |-> LeftBy(left[r], r)]
         /\ torrents[r] # None =>
              InClient[r] = [here |-> TRUE, run |-> torrents[r].run, skip |-> torrents[r].skip,
                             old |-> hist.old[r], user |-> r \in hist.touched,
                             left |-> LeftBy(left[r], r)]
  BY DEF InClient, LeftOf, LeftBy

LEMMA NextBoxIs ==
  ASSUME NEW r \in Releases
  PROVE  /\ torrents'[r] = None =>
              InClient'[r] = [here |-> FALSE, run |-> FALSE, skip |-> {}, old |-> {},
                              user |-> FALSE, left |-> LeftBy(left'[r], r)]
         /\ torrents'[r] # None =>
              InClient'[r] = [here |-> TRUE, run |-> torrents'[r].run, skip |-> torrents'[r].skip,
                              old |-> hist'.old[r], user |-> r \in hist'.touched,
                              left |-> LeftBy(left'[r], r)]
  BY DEF InClient, LeftOf, LeftBy

LEMMA BoxFields ==
  ASSUME NEW r \in Releases
  PROVE  /\ InClient[r].left = LeftBy(left[r], r)
         /\ torrents[r] = None => ~InClient[r].here /\ InClient[r].skip = {}
         /\ torrents[r] # None => InClient[r].here /\ InClient[r].skip = torrents[r].skip
  <1>1. CASE torrents[r] = None
    <2>1. InClient[r] = [here |-> FALSE, run |-> FALSE, skip |-> {}, old |-> {},
                         user |-> FALSE, left |-> LeftBy(left[r], r)]
      BY <1>1, BoxIs
    <2> QED BY <1>1, <2>1
  <1>2. CASE torrents[r] # None
    <2>1. InClient[r] = [here |-> TRUE, run |-> torrents[r].run, skip |-> torrents[r].skip,
                         old |-> hist.old[r], user |-> r \in hist.touched,
                         left |-> LeftBy(left[r], r)]
      BY <1>2, BoxIs
    <2> QED BY <1>2, <2>1
  <1> QED BY <1>1, <1>2

LEMMA SameBox ==
  ASSUME NEW r \in Releases, torrents'[r] = torrents[r], hist'.old[r] = hist.old[r],
         (r \in hist'.touched) = (r \in hist.touched), left'[r] = left[r]
  PROVE  InClient'[r] = InClient[r]
  BY BoxIs, NextBoxIs

LEMMA BoxesAre ==
  /\ InClient = [r \in Releases |-> InClient[r]]
  /\ InClient' = [r \in Releases |-> InClient'[r]]
  BY DEF InClient

\* Nothing changes in the boxes.
LEMMA Stutters ==
  ASSUME \A r \in Releases : InClient'[r] = InClient[r]
  PROVE  InClient' = InClient
  BY BoxesAre

\* Boxes are equal when their fields are.
LEMMA BoxSkips ==
  ASSUME NEW b \in Promise!Box, NEW c \in Promise!Box, NEW new,
         c.here = b.here, c.run = b.run, c.skip = b.skip \cup new, c.old = b.old, c.user = b.user,
         c.left = b.left
  PROVE  [b EXCEPT !.skip = @ \cup new] = c
  BY DEF Promise!Box

LEMMA BoxRuns ==
  ASSUME NEW b \in Promise!Box, NEW c \in Promise!Box, NEW run \in BOOLEAN,
         c.here = b.here, c.run = run, c.skip = b.skip, c.old = b.old, c.user = b.user,
         c.left = b.left
  PROVE  [b EXCEPT !.run = run] = c
  BY DEF Promise!Box

LEMMA BoxTaken ==
  ASSUME NEW b \in Promise!Box, NEW c \in Promise!Box, NEW run \in BOOLEAN,
         c.here = b.here, c.run = run, c.skip = b.skip, c.old = b.old, c.user = TRUE,
         c.left = b.left
  PROVE  [[b EXCEPT !.run = run] EXCEPT !.user = TRUE] = c
  BY DEF Promise!Box

LEMMA LeftType ==
  ASSUME NEW r \in Releases, NEW l PROVE LeftBy(l, r) \in SUBSET Files
  BY DeliveryAssumption DEF LeftBy

LEMMA BoxType ==
  ASSUME TypeOK, NEW r \in Releases PROVE InClient[r] \in Promise!Box
  <1> DEFINE user == r \in hist.touched
             data == LeftBy(left[r], r)
  <1>1. hist.old[r] \in SUBSET Files /\ user \in BOOLEAN /\ data \in SUBSET Files
    BY LeftType DEF TypeOK, History
  <1>2. CASE torrents[r] = None
    <2>1. InClient[r] = [here |-> FALSE, run |-> FALSE, skip |-> {}, old |-> {},
                         user |-> FALSE, left |-> data]
      BY <1>2, BoxIs
    <2> HIDE DEF data
    <2> QED BY <1>1, <2>1 DEF Promise!Box
  <1>3. CASE torrents[r] # None
    <2>1. torrents[r].run \in BOOLEAN /\ torrents[r].skip \in SUBSET Files
      BY <1>3 DEF TypeOK, Torrent
    <2>2. InClient[r] = [here |-> TRUE, run |-> torrents[r].run, skip |-> torrents[r].skip,
                         old |-> hist.old[r], user |-> user, left |-> data]
      BY <1>3, BoxIs
    <2> HIDE DEF user, data
    <2> QED BY <1>1, <2>1, <2>2 DEF Promise!Box
  <1> QED BY <1>2, <1>3

LEMMA NextBoxType ==
  ASSUME TypeOK', NEW r \in Releases PROVE InClient'[r] \in Promise!Box
  <1> DEFINE user == r \in hist'.touched
             data == LeftBy(left'[r], r)
  <1>1. hist'.old[r] \in SUBSET Files /\ user \in BOOLEAN /\ data \in SUBSET Files
    BY LeftType DEF TypeOK, History
  <1>2. CASE torrents'[r] = None
    <2>1. InClient'[r] = [here |-> FALSE, run |-> FALSE, skip |-> {}, old |-> {},
                          user |-> FALSE, left |-> data]
      BY <1>2, NextBoxIs
    <2> HIDE DEF data
    <2> QED BY <1>1, <2>1 DEF Promise!Box
  <1>3. CASE torrents'[r] # None
    <2>1. torrents'[r].run \in BOOLEAN /\ torrents'[r].skip \in SUBSET Files
      BY <1>3 DEF TypeOK, Torrent
    <2>2. InClient'[r] = [here |-> TRUE, run |-> torrents'[r].run, skip |-> torrents'[r].skip,
                          old |-> hist'.old[r], user |-> user, left |-> data]
      BY <1>3, NextBoxIs
    <2> HIDE DEF user, data
    <2> QED BY <1>1, <2>1, <2>2 DEF Promise!Box
  <1> QED BY <1>2, <1>3

LEMMA InitImplements == ASSUME Init PROVE Promise!Init
  <1>1. \A r \in Releases : torrents[r] = None /\ LeftBy(left[r], r) = {}
    BY DEF Init, LeftBy
  <1>2. \A r \in Releases : InClient[r] = Promise!Absent
    BY <1>1, BoxIs DEF Promise!Absent, Promise!Removed
  <1> QED BY <1>2, BoxesAre DEF Promise!Init

LEMMA AddImplements == ASSUME Inv, Add PROVE Promise!Next \/ UNCHANGED InClient
  <1>1. /\ TypeOK /\ w.pc = "add" /\ w.rel \in Releases /\ w.rel = latest /\ w \in Work
        /\ w.paused = Applies
    BY DEF Inv, TypeOK, Add, Planned
  <1>2. /\ hist'.touched = hist.touched /\ left' = left
        /\ \A q \in Releases \ {w.rel} : torrents'[q] = torrents[q] /\ hist'.old[q] = hist.old[q]
        /\ \/ Now = Tor /\ hist'.old[w.rel] = hist.old[w.rel]
           \/ /\ Tor = None /\ hist'.old[w.rel] = HeldBack(w.rel)
              /\ \E root \in FolderNames \cup {NoRoot} :
                   Now = Added(kind, addPaused, root) /\ Now \in Torrent
    BY <1>1, AddIs
  <1>3. \A q \in Releases \ {w.rel} : InClient'[q] = InClient[q]
    BY <1>2, SameBox
  <1>4. CASE Now = Tor /\ hist'.old[w.rel] = hist.old[w.rel]
    <2>1. InClient'[w.rel] = InClient[w.rel]
      BY <1>1, <1>2, <1>4, SameBox DEF Now, Tor
    <2> QED BY <1>3, <2>1, Stutters
  <1>5. CASE /\ Tor = None /\ hist'.old[w.rel] = HeldBack(w.rel)
             /\ \E root \in FolderNames \cup {NoRoot} :
                  Now = Added(kind, addPaused, root) /\ Now \in Torrent
    <2>1. /\ Now \in Torrent /\ Now.skip = {}
          /\ Now.run = ~(addPaused /\ CanSelect(kind))
      BY <1>5 DEF Added
    <2>2. Now.run => HeldBack(w.rel) = {}
      BY <1>1, <2>1 DEF addPaused, HeldBack, Applies
    <2>3. w.rel \notin hist.touched
      BY <1>5 DEF Inv, Baselines, Present, Tor
    <2>l. LeftBy(left[w.rel], w.rel) = {}
      <3>1. ~(latest < latest)
        BY <1>1, DeliveryAssumption DEF Releases
      <3> QED BY <1>1, <3>1 DEF Inv, Replaced, LeftBy
    <2>4. InClient[w.rel] = Promise!Absent
      BY <1>1, <1>5, <2>l, BoxIs DEF Tor, Promise!Absent, Promise!Removed
    <2>5. InClient'[w.rel] = [here |-> TRUE, run |-> Now.run, skip |-> {},
                              old |-> HeldBack(w.rel), user |-> FALSE, left |-> {}]
      <3>1. torrents'[w.rel] = Now /\ Now # None
        BY <2>1, NoneAssumption DEF Now
      <3>2. (w.rel \in hist'.touched) = FALSE
        BY <1>2, <2>3
      <3> QED BY <1>1, <1>2, <1>5, <2>1, <2>l, <3>1, <3>2, NextBoxIs
    <2> DEFINE old == HeldBack(w.rel)
               run == Now.run
    <2>6. old \in SUBSET Files /\ run \in BOOLEAN /\ (run => old = {})
      BY <1>1, <2>1, <2>2, HeldBackIs DEF Torrent
    <2>7. InClient' = [InClient EXCEPT ![w.rel] = [here |-> TRUE, run |-> run, skip |-> {},
                                                   old |-> old, user |-> FALSE, left |-> {}]]
      BY <1>1, <1>3, <2>5, BoxesAre
    <2> HIDE DEF old, run
    <2>9. Promise!Hand(w.rel)
      BY <2>4, <2>6, <2>7 DEF Promise!Hand
    <2> QED BY <1>1, <2>9 DEF Promise!Next
  <1> QED BY <1>2, <1>4, <1>5

LEMMA BetweenImplements == ASSUME Inv, Between PROVE Promise!Next \/ UNCHANGED InClient
  <1>1. /\ Keeps /\ Gently /\ TypeOK /\ w.pc # "idle" /\ w.pc # "add" /\ w'.rel = w.rel
        /\ Now \in Torrent /\ Tor \in Torrent
    BY BetweenKeeps, BetweenIsGentle DEF Inv, Keeps, Frame
  <1>2. w.rel \in Releases /\ w.rel = latest
    BY <1>1, Delivering
  <1>3. /\ hist'.touched = hist.touched /\ hist'.old = hist.old /\ left' = left
        /\ \A q \in Releases \ {w.rel} : torrents'[q] = torrents[q]
    BY <1>1 DEF Keeps, Frame
  <1>4. \A q \in Releases \ {w.rel} : InClient'[q] = InClient[q]
    BY <1>3, SameBox
  <1> DEFINE old == hist.old[w.rel]
             data == LeftBy(left[w.rel], w.rel)
  <1>5. \E user \in BOOLEAN :
          /\ InClient[w.rel] = [here |-> TRUE, run |-> Tor.run, skip |-> Tor.skip, old |-> old, user |-> user,
                                left |-> data]
          /\ InClient'[w.rel] = [here |-> TRUE, run |-> Now.run, skip |-> Now.skip,
                                 old |-> old, user |-> user, left |-> data]
    <2> DEFINE user == w.rel \in hist.touched
               Box(t) == [here |-> TRUE, run |-> t.run, skip |-> t.skip, old |-> old, user |-> user,
                          left |-> data]
    <2>1. InClient[w.rel] = Box(Tor) /\ InClient'[w.rel] = Box(Now)
      <3>1. torrents[w.rel] = Tor /\ Tor # None /\ torrents'[w.rel] = Now /\ Now # None
        BY <1>1, NoneAssumption DEF Tor, Now
      <3> QED BY <1>2, <1>3, <3>1, BoxIs, NextBoxIs
    <2>2. user \in BOOLEAN
      OBVIOUS
    <2> HIDE DEF user
    <2> QED BY <2>1, <2>2
  <1>6. PICK user \in BOOLEAN :
          /\ InClient[w.rel] = [here |-> TRUE, run |-> Tor.run, skip |-> Tor.skip, old |-> old, user |-> user,
                                left |-> data]
          /\ InClient'[w.rel] = [here |-> TRUE, run |-> Now.run, skip |-> Now.skip,
                                 old |-> old, user |-> user, left |-> data]
    BY <1>5
  <1>7. /\ InClient[w.rel].here = TRUE /\ InClient[w.rel].run = Tor.run
         /\ InClient[w.rel].skip = Tor.skip /\ InClient[w.rel].old = old
         /\ InClient[w.rel].user = user /\ InClient[w.rel].left = data
         /\ InClient'[w.rel].here = TRUE /\ InClient'[w.rel].run = Now.run
         /\ InClient'[w.rel].skip = Now.skip /\ InClient'[w.rel].old = old
         /\ InClient'[w.rel].user = user /\ InClient'[w.rel].left = data
    BY <1>6
  <1>8. InClient' = [InClient EXCEPT ![w.rel] = InClient'[w.rel]]
    BY <1>2, <1>4, BoxesAre
  <1> HIDE DEF old, data
  <1>9. InClient[w.rel] \in Promise!Box /\ InClient'[w.rel] \in Promise!Box
    BY <1>1, <1>2, BoxType, NextBoxType DEF Keeps
  <1>10. Tor.run \in BOOLEAN /\ Now.run \in BOOLEAN
    BY <1>1 DEF Torrent
  <1>11. CASE Now.run = Tor.run /\ Now.skip = Tor.skip
    <2>1. InClient'[w.rel] = InClient[w.rel]
      BY <1>7, <1>9, <1>11 DEF Promise!Box
    <2> QED BY <1>4, <2>1, Stutters
  <1>12. CASE w.pc = "skip" /\ Now.run = Tor.run /\ Now.skip = Tor.skip \cup w.skip
    <2>1. ASSUME NEW f \in w.skip PROVE Promise!WantedElsewhere(f, w.rel)
      <3>1. WantedBelow(f, w.rel)
        BY <1>12, SkipsAreWanted
      <3>2. PICK p \in Releases : p < w.rel /\ Kept(p) /\ f \in Manifest[p] \ Copy(p).skip
        BY <3>1 DEF WantedBelow
      <3>3. p # w.rel
        BY <1>2, <3>2, DeliveryAssumption DEF Releases
      <3>4. CASE torrents[p] # None
        <4>1. InClient[p].here /\ InClient[p].skip = torrents[p].skip
          BY <3>4, BoxFields
        <4>2. f \in Manifest[p] \ torrents[p].skip
          BY <3>2, <3>4 DEF Copy
        <4> QED BY <3>3, <4>1, <4>2 DEF Promise!WantedElsewhere
      <3>5. CASE torrents[p] = None
        <4>1. InClient[p].left = LeftBy(left[p], p)
          BY BoxFields
        <4>2. f \in LeftBy(left[p], p)
          BY <3>2, <3>5 DEF Copy, Kept, LeftBy
        <4> QED BY <3>3, <4>1, <4>2 DEF Promise!WantedElsewhere
      <3> QED BY <3>4, <3>5
    <2>2. w.skip \in SUBSET Files
      BY <1>1 DEF TypeOK, Work
    <2>3. InClient' = [InClient EXCEPT ![w.rel].skip = @ \cup w.skip]
      <3> DEFINE b == [InClient[w.rel] EXCEPT !.skip = @ \cup w.skip]
      <3>1. b = InClient'[w.rel]
        <4>1. /\ InClient'[w.rel].here = InClient[w.rel].here
              /\ InClient'[w.rel].run = InClient[w.rel].run
              /\ InClient'[w.rel].skip = InClient[w.rel].skip \cup w.skip
              /\ InClient'[w.rel].old = InClient[w.rel].old
              /\ InClient'[w.rel].user = InClient[w.rel].user
              /\ InClient'[w.rel].left = InClient[w.rel].left
          BY <1>12, <1>7
        <4> QED BY <1>9, <4>1, BoxSkips
      <3>2. InClient' = [InClient EXCEPT ![w.rel] = b]
        BY <1>8, <3>1
      <3> QED BY <3>2
    <2>4. InClient[w.rel].here
      BY <1>7
    <2>5. Promise!Skip(w.rel)
      BY <2>1, <2>2, <2>3, <2>4 DEF Promise!Skip
    <2> QED BY <1>2, <2>5 DEF Promise!Next
  <1>13. CASE w.pc \in {"start", "startRenamed"} /\ Now.run /\ Now.skip = Tor.skip
    <2>1. old \subseteq Tor.skip
      <3>1. /\ OtherRows(w.rel) # {} => old \subseteq HeldBack(w.rel)
            /\ old # {} => Applies
        BY <1>1, <1>2, Delivering DEF Inv, Held, old
      <3>2. CASE w.pc = "start"
        BY <3>1, <3>2 DEF Inv, Planned, Selecting
      <3>3. CASE w.pc = "startRenamed"
        BY <3>1, <3>3 DEF Inv, Planned
      <3> QED BY <1>13, <3>2, <3>3
    <2>2. InClient[w.rel].here /\ InClient[w.rel].old \subseteq InClient[w.rel].skip
      BY <1>7, <2>1
    <2>3. InClient' = [InClient EXCEPT ![w.rel].run = TRUE]
      <3>1. Now.run = TRUE
        BY <1>10, <1>13
      <3> DEFINE b == [InClient[w.rel] EXCEPT !.run = TRUE]
      <3>2. b = InClient'[w.rel]
        <4>1. /\ InClient'[w.rel].here = InClient[w.rel].here /\ InClient'[w.rel].run = TRUE
              /\ InClient'[w.rel].skip = InClient[w.rel].skip
              /\ InClient'[w.rel].old = InClient[w.rel].old
              /\ InClient'[w.rel].user = InClient[w.rel].user
              /\ InClient'[w.rel].left = InClient[w.rel].left
          BY <1>13, <1>7, <3>1
        <4> QED BY <1>9, <4>1, BoxRuns
      <3>3. InClient' = [InClient EXCEPT ![w.rel] = b]
        BY <1>8, <3>2
      <3> QED BY <3>3
    <2>4. Promise!Start(w.rel)
      BY <2>2, <2>3 DEF Promise!Start
    <2> QED BY <1>2, <2>4 DEF Promise!Next
  <1>14. CASE ~Now.run /\ Now.skip = Tor.skip
    <2>1. Now.run = FALSE
      BY <1>10, <1>14
    <2>2. InClient' = [InClient EXCEPT ![w.rel].run = FALSE]
      <3> DEFINE b == [InClient[w.rel] EXCEPT !.run = FALSE]
      <3>1. b = InClient'[w.rel]
        <4>1. /\ InClient'[w.rel].here = InClient[w.rel].here /\ InClient'[w.rel].run = FALSE
              /\ InClient'[w.rel].skip = InClient[w.rel].skip
              /\ InClient'[w.rel].old = InClient[w.rel].old
              /\ InClient'[w.rel].user = InClient[w.rel].user
              /\ InClient'[w.rel].left = InClient[w.rel].left
          BY <1>7, <1>14, <2>1
        <4> QED BY <1>9, <4>1, BoxRuns
      <3>2. InClient' = [InClient EXCEPT ![w.rel] = b]
        BY <1>8, <3>1
      <3> QED BY <3>2
    <2>3. Promise!Stop(w.rel)
      BY <1>7, <2>2 DEF Promise!Stop
    <2> QED BY <1>2, <2>3 DEF Promise!Next
  <1> QED BY <1>1, <1>10, <1>11, <1>12, <1>13, <1>14 DEF Keeps, Gently

LEMMA UserImplements == ASSUME Inv, NEW r \in Releases, UserStep(r) PROVE Promise!Next
  <1>1. TypeOK /\ kind \in Plugins
    BY DEF Inv, TypeOK
  <1>2. /\ torrents[r] \in Torrent /\ torrents'[r] \in {Stopped(torrents[r]), Started(kind, torrents[r])}
        /\ torrents'[r] \in Torrent
        /\ \A q \in Releases \ {r} : torrents'[q] = torrents[q]
        /\ hist'.old = hist.old /\ hist'.touched = hist.touched \cup {r} /\ left' = left
    BY <1>1, UserStepIs
  <1> DEFINE data == LeftBy(left[r], r)
  <1>3. torrents'[r].skip = torrents[r].skip /\ torrents'[r].run \in BOOLEAN
    BY <1>1, <1>2, StoppedIs, StartedIs DEF Torrent
  <1>4. \A q \in Releases \ {r} : InClient'[q] = InClient[q]
    BY <1>2, SameBox
  <1>5. InClient[r] = [here |-> TRUE, run |-> torrents[r].run, skip |-> torrents[r].skip,
                       old |-> hist.old[r], user |-> r \in hist.touched, left |-> data]
    BY <1>2, NoneAssumption, BoxIs
  <1>6. InClient'[r] = [here |-> TRUE, run |-> torrents'[r].run, skip |-> torrents[r].skip,
                        old |-> hist.old[r], user |-> TRUE, left |-> data]
    <2>1. torrents'[r] # None /\ (r \in hist'.touched) = TRUE
      BY <1>2, NoneAssumption
    <2> QED BY <1>2, <1>3, <2>1, NextBoxIs
  <1> DEFINE run == torrents'[r].run
  <1>7. run \in BOOLEAN /\ InClient[r].here
    BY <1>3, <1>5
  <1>8. InClient' = [InClient EXCEPT ![r].run = run, ![r].user = TRUE]
    <2>1. InClient' = [InClient EXCEPT ![r] = [here |-> TRUE, run |-> run, skip |-> torrents[r].skip,
                                               old |-> hist.old[r], user |-> TRUE, left |-> data]]
      BY <1>4, <1>6, BoxesAre
    <2> HIDE DEF run, data
    <2> DEFINE b == [InClient[r] EXCEPT !.run = run]
               c == [b EXCEPT !.user = TRUE]
               f == [InClient EXCEPT ![r] = b]
    <2>2. c = [here |-> TRUE, run |-> run, skip |-> torrents[r].skip, old |-> hist.old[r], user |-> TRUE,
                 left |-> data]
      <3>1. InClient[r] \in Promise!Box /\ InClient'[r] \in Promise!Box
        BY <1>1, UserStepIs, BoxType, NextBoxType
      <3>2. /\ InClient'[r].here = InClient[r].here /\ InClient'[r].old = InClient[r].old
            /\ InClient'[r].skip = InClient[r].skip /\ InClient'[r].run = run
            /\ InClient'[r].user = TRUE /\ InClient'[r].left = InClient[r].left
        BY <1>5, <1>6 DEF run
      <3>3. c = InClient'[r]
        BY <1>7, <3>1, <3>2, BoxTaken
      <3> QED BY <1>6, <3>3 DEF run
    <2>3. r \in DOMAIN InClient
      BY DEF InClient
    <2>4. f[r] = b
      <3> HIDE DEF b
      <3> QED BY <2>3
    <2>5. InClient' = [InClient EXCEPT ![r] = c]
      BY <2>1, <2>2
    <2>6. [f EXCEPT ![r] = c] = [InClient EXCEPT ![r] = c]
      <3> HIDE DEF b, c
      <3> QED BY <2>3
    <2>7. InClient' = [f EXCEPT ![r] = [f[r] EXCEPT !.user = TRUE]]
      <3> HIDE DEF f, b
      <3> QED BY <2>4, <2>5, <2>6
    <2> QED BY <2>7
  <1> HIDE DEF run
  <1>9. Promise!User(r)
    BY <1>7, <1>8 DEF Promise!User
  <1> QED BY <1>9 DEF Promise!Next

\* The versions before are replaced: with their data kept, what they wanted is
\* on the disk; without, no version holds anything back.
LEMMA RemoveImplements == ASSUME Inv, removePrevious PROVE Promise!Next
  <1>1. TypeOK
    BY DEF Inv
  <1>2. PICK gone \in SUBSET Removable :
          /\ hist'.touched = hist.touched \ gone
          /\ torrents' = [r \in Releases |-> IF r \in gone THEN None ELSE torrents[r]]
          /\ left' = [r \in Releases |-> IF r \in gone /\ opt.replace = "keep"
                                        THEN torrents[r] ELSE left[r]]
    BY <1>1, removePreviousIs
  <1>3. w.pc = "notify" /\ w.prior = "listed" /\ hist'.old = hist.old
    BY <1>1, removePreviousIs
  <1>4. \A r \in gone : r \in Releases /\ Present(r) /\ left[r] = None
    BY <1>3, RemovableIs
  <1>5. opt.replace \in {"keep", "delete"}
    BY <1>3 DEF Inv, Planned, TypeOK, Settings
  <1> DEFINE keep == opt.replace = "keep"
  <1>6. keep \/ \A q \in Releases : InClient[q].skip = {}
    <2> SUFFICES ASSUME ~keep, NEW q \in Releases PROVE InClient[q].skip = {}
      OBVIOUS
    <2>1. CASE torrents[q] = None
      BY <2>1, BoxFields
    <2>2. CASE torrents[q] # None
      <3>1. torrents[q].skip = {}
        BY <1>5, <2>2 DEF Inv, Replaced, Kept, Copy
      <3> QED BY <2>2, <3>1, BoxFields
    <2> QED BY <2>1, <2>2
  <1>7. \A r \in gone : InClient[r].here
    BY <1>4, BoxFields DEF Present
  <1>8. ASSUME NEW r \in Releases, r \notin gone PROVE InClient'[r] = InClient[r]
    <2>1. torrents'[r] = torrents[r] /\ left'[r] = left[r]
      BY <1>2, <1>8
    <2> QED BY <1>2, <1>3, <1>8, <2>1, SameBox
  <1>9. ASSUME NEW r \in gone
        PROVE  InClient'[r] =
                   Promise!Removed(IF keep THEN Manifest[r] \ InClient[r].skip ELSE {})
    <2>1. /\ r \in Releases /\ torrents[r] # None /\ torrents'[r] = None
          /\ left'[r] = IF keep THEN torrents[r] ELSE None
      BY <1>2, <1>4, <1>9 DEF Present
    <2>2. InClient[r].skip = torrents[r].skip
      BY <1>4, <2>1, BoxFields
    <2>3. LeftBy(left'[r], r) = IF keep THEN Manifest[r] \ torrents[r].skip ELSE {}
      BY <2>1 DEF LeftBy
    <2>4. InClient'[r] = [here |-> FALSE, run |-> FALSE, skip |-> {}, old |-> {},
                          user |-> FALSE, left |-> LeftBy(left'[r], r)]
      BY <2>1, NextBoxIs
    <2> DEFINE data == IF keep THEN Manifest[r] \ InClient[r].skip ELSE {}
    <2>5. LeftBy(left'[r], r) = data
      BY <2>2, <2>3
    <2> HIDE DEF data
    <2>6. InClient'[r] = Promise!Removed(data)
      BY <2>4, <2>5 DEF Promise!Removed
    <2> QED BY <2>6 DEF data
  <1>10. InClient' = [r \in Releases |->
             IF r \notin gone THEN InClient[r]
             ELSE Promise!Removed(IF keep THEN Manifest[r] \ InClient[r].skip ELSE {})]
    <2>1. InClient' = [r \in Releases |-> InClient'[r]]
      BY BoxesAre
    <2> QED BY <1>8, <1>9, <2>1
  <1>11. gone \in SUBSET Releases /\ keep \in BOOLEAN
    BY <1>4
  <1> HIDE DEF keep
  <1>12. Promise!Remove(gone)
    BY <1>6, <1>7, <1>10, <1>11 DEF Promise!Remove
  <1> QED BY <1>11, <1>12 DEF Promise!Next

LEMMA NextImplements == ASSUME Inv, [Next]_vars PROVE Promise!Next \/ UNCHANGED InClient
  <1>1. TypeOK
    BY DEF Inv
  <1>2. ASSUME UNCHANGED <<torrents, left>>, hist'.old = hist.old, hist'.touched = hist.touched
        PROVE  UNCHANGED InClient
    BY <1>2, SameBox, Stutters
  <1>3. CASE Plan
    <2>1. UNCHANGED <<torrents, left>> /\ hist'.old = hist.old /\ hist'.touched = hist.touched
      BY <1>1, <1>3, PlanIs DEF Inv, Baselines
    <2> QED BY <1>2, <2>1
  <1>4. CASE Result \/ Refused \/ Crash \/ Publish \/ pruneRows
    <2>1. UNCHANGED <<torrents, left>> /\ hist'.old = hist.old /\ hist'.touched = hist.touched
      BY <1>1, <1>4, ResultIs, EndsIs, PublishIs, pruneRowsIs
    <2> QED BY <1>2, <2>1
  <1>5. ASSUME NEW r \in Releases, ClientStep(r) PROVE UNCHANGED InClient
    <2>1. /\ torrents[r] \in Torrent /\ Evolves(torrents[r], torrents'[r]) /\ hist' = hist /\ left' = left
          /\ \A q \in Releases \ {r} : torrents'[q] = torrents[q]
      BY <1>1, <1>5, ClientStepIs
    <2>2. torrents[r] # None /\ torrents'[r] # None /\ torrents'[r].run = torrents[r].run
          /\ torrents'[r].skip = torrents[r].skip
      BY <2>1, NoneAssumption DEF Evolves
    <2>3. InClient'[r] = InClient[r]
      BY <2>1, <2>2, BoxIs, NextBoxIs
    <2>4. \A q \in Releases \ {r} : InClient'[q] = InClient[q]
      BY <2>1, SameBox
    <2> QED BY <2>3, <2>4, Stutters
  <1>6. CASE UNCHANGED vars
    <2>1. UNCHANGED <<torrents, left>> /\ UNCHANGED hist
      BY <1>6 DEF vars
    <2> QED BY <1>2, <2>1
  <1> QED BY <1>3, <1>4, <1>5, <1>6, AddImplements, BetweenImplements, UserImplements, RemoveImplements
          DEF Next, Worker, Between

\* Whatever fails on the way, a delivery only does to the client what the
\* abstract promise allows: it starts an update only with its old files
\* skipped, skips a file only where an older version wants it, and replaces a
\* version only with its data kept, or where no version holds a file back.
THEOREM DeliveryImplements == Spec => Implements
  <1>1. Inv /\ [Next]_vars => [Promise!Next]_InClient
    BY NextImplements
  <1> QED BY InitInv, NextKeepsInv, InitImplements, <1>1, PTL DEF Spec, Implements, Promise!Spec

\* A step renames only a torrent that was seen stopped and empty.
LEMMA NextRenames ==
  ASSUME Inv, [Next]_vars, NEW r \in Releases, Mine(r), torrents'[r] # None,
         torrents'[r].toRoot # torrents[r].toRoot
  PROVE  ~torrents[r].data /\ ~torrents[r].run
  <1>1. /\ TypeOK /\ kind \in Plugins /\ torrents[r] # None /\ r \notin hist.touched
        /\ torrents[r] \in Torrent
    BY DEF Inv, TypeOK, Mine
  <1>2. torrents'[r] # torrents[r]
    OBVIOUS
  <1>3. CASE Plan
    BY <1>1, <1>2, <1>3, PlanIs DEF Inv, Baselines
  <1>4. CASE Result \/ Refused \/ Crash \/ Publish \/ UNCHANGED vars
    BY <1>1, <1>2, <1>4, ResultIs, EndsIs, PublishIs DEF vars
  <1>5. CASE Add
    <2>1. \A q \in Releases \ {w.rel} : torrents'[q] = torrents[q]
      BY <1>1, <1>5, AddIs
    <2>2. Now = Tor \/ Tor = None
      BY <1>1, <1>5, AddIs
    <2> QED BY <1>1, <1>2, <2>1, <2>2 DEF Now, Tor
  <1>6. CASE Between
    <2>1. /\ Keeps /\ Gently /\ w.pc # "idle"
      BY <1>6, BetweenKeeps, BetweenIsGentle DEF Keeps, Frame
    <2>2. r = w.rel
      BY <1>2, <2>1 DEF Keeps, Frame
    <2>3. w.pc = "rename"
      BY <2>1, <2>2 DEF Gently, Now, Tor
    <2> QED BY <1>1, <2>2, <2>3 DEF Inv, Empty, Tor
  <1>7. ASSUME NEW q \in Releases, ClientStep(q) PROVE FALSE
    <2>1. q = r
      BY <1>1, <1>2, <1>7, ClientStepIs
    <2> QED BY <1>1, <1>7, <2>1, ClientStepIs DEF Evolves
  <1>8. ASSUME NEW q \in Releases, UserStep(q) PROVE FALSE
    <2>1. q = r
      BY <1>1, <1>2, <1>8, UserStepIs
    <2> QED BY <1>1, <1>8, <2>1, UserStepIs, StoppedIs, StartedIs
  <1>9. CASE removePrevious
    BY <1>1, <1>2, <1>9, removePreviousIs
  <1>10. CASE pruneRows
    BY <1>1, <1>2, <1>10, pruneRowsIs
  <1> QED BY <1>3, <1>4, <1>5, <1>6, <1>7, <1>8, <1>9, <1>10 DEF Next, Worker, Between

\* The folder rename never moves a torrent that has written data, unless the
\* user started it between the look and the call (folder_name.go:22-25).
THEOREM OnlyEmptyIsRenamed == Spec => RenamesOnlyEmpty
  <1> DEFINE Rename(r) == Mine(r) /\ torrents'[r] # None
                 /\ torrents'[r].toRoot # torrents[r].toRoot => ~torrents[r].data /\ ~torrents[r].run
  <1>1. Inv /\ [Next]_vars => [\A r \in Releases : Rename(r)]_vars
    BY NextRenames
  <1> QED BY InitInv, NextKeepsInv, <1>1, PTL DEF Spec, RenamesOnlyEmpty

----------------------------------------------------------------------------
(* What the promise is worth                                               *)

PromiseInv ==
    /\ Promise!TypeOK /\ Promise!OldFilesStay /\ Promise!NoFileLost
    /\ \A r \in Releases : InClient[r].here => InClient[r].left = {}

LEMMA InitPromise == Promise!Init => PromiseInv
  BY DEF Promise!Init, Promise!Absent, Promise!Removed, Promise!Box, PromiseInv, Promise!TypeOK, Promise!OldFilesStay, Promise!NoFileLost

\* A version in the client downloads f, or a replaced one has.
Wants(q, f) == \/ InClient[q].here /\ f \in Manifest[q] \ InClient[q].skip
               \/ f \in InClient[q].left

\* A torrent enters: it skips nothing, and nothing skipped elsewhere was
\* wanted by it alone.
LEMMA HandPromise == ASSUME PromiseInv, NEW r \in Releases, Promise!Hand(r) PROVE PromiseInv'
  <1>1. PICK old \in SUBSET Files, run \in BOOLEAN :
          /\ run => old = {}
          /\ InClient' = [InClient EXCEPT ![r] = [here |-> TRUE, run |-> run, skip |-> {},
                                                  old |-> old, user |-> FALSE,
                                                  left |-> {}]]
    BY DEF Promise!Hand
  <1>t. InClient \in [Releases -> Promise!Box] /\ InClient[r] \in Promise!Box
    BY DEF PromiseInv, Promise!TypeOK
  <1>2. Promise!TypeOK'
    BY <1>1, <1>t DEF Promise!TypeOK, Promise!Box
  <1>3. InClient'[r] = [here |-> TRUE, run |-> run, skip |-> {}, old |-> old, user |-> FALSE,
                        left |-> {}]
        /\ \A q \in Releases \ {r} : InClient'[q] = InClient[q]
    BY <1>1, <1>t
  <1>4. Promise!OldFilesStay'
    BY <1>1, <1>3 DEF PromiseInv, Promise!OldFilesStay
  <1>5. ASSUME NEW p \in Releases, InClient'[p].here, NEW f \in InClient'[p].skip
        PROVE Promise!WantedElsewhere(f, p)'
    <2>1. p # r /\ InClient[p] = InClient'[p]
      BY <1>3, <1>5
    <2>2. PICK q \in Releases \ {p} : Wants(q, f)
      BY <1>5, <2>1 DEF PromiseInv, Promise!NoFileLost, Promise!WantedElsewhere, Wants
    <2>3. CASE q # r
      BY <1>3, <2>2, <2>3 DEF Promise!WantedElsewhere, Wants
    <2>4. CASE q = r
      <3> QED BY <2>2, <2>4 DEF Promise!Hand, Promise!Absent, Promise!Removed, Wants
    <2> QED BY <2>3, <2>4
  <1>6. \A q \in Releases : InClient'[q].here => InClient'[q].left = {}
    BY <1>3 DEF PromiseInv
  <1> QED BY <1>2, <1>4, <1>5, <1>6 DEF PromiseInv, Promise!NoFileLost

\* A file that another version wants becomes skipped.  Whoever skipped it
\* before keeps a version that wants it: not r, which wants it no more, but
\* the one r's own skip relies on.
LEMMA SkipPromise == ASSUME PromiseInv, NEW r \in Releases, Promise!Skip(r) PROVE PromiseInv'
  <1>1. PICK files \in SUBSET Files :
          /\ \A f \in files : Promise!WantedElsewhere(f, r)
          /\ InClient' = [InClient EXCEPT ![r].skip = @ \cup files]
    BY DEF Promise!Skip
  <1>2. InClient[r] \in Promise!Box /\ InClient[r].here
    BY DEF Promise!Skip, PromiseInv, Promise!TypeOK
  <1>3. /\ InClient'[r] = [InClient[r] EXCEPT !.skip = @ \cup files]
        /\ \A q \in Releases \ {r} : InClient'[q] = InClient[q]
    BY <1>1 DEF PromiseInv, Promise!TypeOK
  <1>4. InClient'[r] \in Promise!Box /\ InClient'[r].skip = InClient[r].skip \cup files
        /\ InClient'[r].run = InClient[r].run /\ InClient'[r].old = InClient[r].old
        /\ InClient'[r].here /\ InClient'[r].user = InClient[r].user
        /\ InClient'[r].left = InClient[r].left
    BY <1>2, <1>3 DEF Promise!Box
  <1>5. Promise!TypeOK'
    BY <1>1, <1>3, <1>4 DEF PromiseInv, Promise!TypeOK
  <1>6. Promise!OldFilesStay'
    BY <1>2, <1>3, <1>4 DEF PromiseInv, Promise!OldFilesStay
  <1>7. ASSUME NEW p \in Releases, InClient'[p].here, NEW f \in InClient'[p].skip
        PROVE Promise!WantedElsewhere(f, p)'
    <2>1. CASE f \in files
      <3>1. PICK q \in Releases \ {r} : Wants(q, f)
        BY <1>1, <2>1 DEF Promise!WantedElsewhere, Wants
      <3>2. InClient'[q] = InClient[q]
        BY <1>3, <3>1
      <3>3. CASE p # q
        BY <3>1, <3>2, <3>3 DEF Promise!WantedElsewhere, Wants
      <3>4. CASE p = q
        BY <1>2, <1>3, <1>4, <1>7, <3>1, <3>2, <3>4 DEF PromiseInv, Wants
      <3> QED BY <3>3, <3>4
    <2>2. CASE f \notin files
      <3>1. InClient[p].here /\ f \in InClient[p].skip
        BY <1>2, <1>3, <1>4, <1>7, <2>2
      <3>2. PICK q \in Releases \ {p} : Wants(q, f)
        BY <3>1 DEF PromiseInv, Promise!NoFileLost, Promise!WantedElsewhere, Wants
      <3>3. (InClient'[q].here /\ f \in Manifest[q] \ InClient'[q].skip) \/ f \in InClient'[q].left
        <4>1. CASE q = r
          BY <1>4, <2>2, <3>2, <4>1 DEF Wants
        <4>2. CASE q # r
          BY <1>3, <3>2, <4>2 DEF Wants
        <4> QED BY <4>1, <4>2
      <3> QED BY <3>2, <3>3 DEF Promise!WantedElsewhere
    <2> QED BY <2>1, <2>2
  <1>8. \A q \in Releases : InClient'[q].here => InClient'[q].left = {}
    BY <1>2, <1>3, <1>4 DEF PromiseInv
  <1> QED BY <1>5, <1>6, <1>7, <1>8 DEF PromiseInv, Promise!NoFileLost

\* Starting, stopping and the user touch only run and user.
LEMMA RunPromise ==
  ASSUME PromiseInv, NEW r \in Releases, Promise!Start(r) \/ Promise!Stop(r) \/ Promise!User(r)
  PROVE  PromiseInv'
  <1>1. InClient[r] \in Promise!Box /\ InClient[r].here
    BY DEF Promise!Start, Promise!Stop, Promise!User, PromiseInv, Promise!TypeOK
  <1>2. PICK run \in BOOLEAN, user \in BOOLEAN :
          /\ InClient' = [InClient EXCEPT ![r] = [InClient[r] EXCEPT !.run = run, !.user = user]]
          /\ run /\ ~user => InClient[r].old \subseteq InClient[r].skip
    <2>1. CASE Promise!Start(r)
      BY <1>1, <2>1 DEF Promise!Start, PromiseInv, Promise!TypeOK, Promise!Box
    <2>2. CASE Promise!Stop(r)
      BY <1>1, <2>2 DEF Promise!Stop, PromiseInv, Promise!TypeOK, Promise!Box
    <2>3. CASE Promise!User(r)
      BY <1>1, <2>3 DEF Promise!User, PromiseInv, Promise!TypeOK, Promise!Box
    <2> QED BY <2>1, <2>2, <2>3
  <1>3. /\ InClient'[r] = [InClient[r] EXCEPT !.run = run, !.user = user]
        /\ \A q \in Releases \ {r} : InClient'[q] = InClient[q]
    BY <1>2 DEF PromiseInv, Promise!TypeOK
  <1>4. /\ InClient'[r] \in Promise!Box /\ InClient'[r].skip = InClient[r].skip
        /\ InClient'[r].old = InClient[r].old /\ InClient'[r].here
        /\ InClient'[r].run = run /\ InClient'[r].user = user /\ InClient'[r].left = InClient[r].left
    BY <1>1, <1>3 DEF Promise!Box
  <1>5. Promise!TypeOK'
    BY <1>2, <1>3, <1>4 DEF PromiseInv, Promise!TypeOK
  <1>6. Promise!OldFilesStay'
    BY <1>2, <1>3, <1>4 DEF PromiseInv, Promise!OldFilesStay
  <1>7. \A q \in Releases : (InClient'[q].here) = (InClient[q].here)
        /\ InClient'[q].skip = InClient[q].skip /\ InClient'[q].left = InClient[q].left
    BY <1>1, <1>3, <1>4
  <1>8. Promise!NoFileLost'
    BY <1>7 DEF PromiseInv, Promise!NoFileLost, Promise!WantedElsewhere
  <1>9. \A q \in Releases : InClient'[q].here => InClient'[q].left = {}
    BY <1>7 DEF PromiseInv
  <1> QED BY <1>5, <1>6, <1>8, <1>9 DEF PromiseInv

\* Versions leave: what skipped files rely on them for stays on the disk.
LEMMA RemovePromise == ASSUME PromiseInv, NEW gone \in SUBSET Releases, Promise!Remove(gone) PROVE PromiseInv'
  <1> DEFINE Data(r, keep) == IF keep THEN Manifest[r] \ InClient[r].skip ELSE {}
  <1>1. PICK keep \in BOOLEAN :
          /\ keep \/ \A q \in Releases : InClient[q].skip = {}
          /\ InClient' = [r \in Releases |->
                IF r \notin gone THEN InClient[r]
                ELSE Promise!Removed(Data(r, keep))]
    BY DEF Promise!Remove
  <1>2. \A r \in Releases : Data(r, keep) \in SUBSET Files
    BY DeliveryAssumption DEF PromiseInv, Promise!TypeOK, Promise!Box
  <1>d. \A r \in gone : \A f : f \in InClient[r].left \/ (keep /\ f \in Manifest[r] \ InClient[r].skip)
                            => f \in Data(r, keep)
    BY DEF PromiseInv, Promise!Remove
  <1> HIDE DEF Data
  <1>3. /\ \A r \in Releases \ gone : InClient'[r] = InClient[r]
        /\ \A r \in gone : InClient'[r] = [here |-> FALSE, run |-> FALSE, skip |-> {}, old |-> {},
                                           user |-> FALSE, left |-> Data(r, keep)]
    BY <1>1 DEF Promise!Removed
  <1>4. ASSUME NEW r \in gone
        PROVE  ~InClient'[r].here /\ InClient'[r].left = Data(r, keep) /\ InClient'[r] \in Promise!Box
    <2> DEFINE data == Data(r, keep)
    <2>1. data \in SUBSET Files
      BY <1>2
    <2> HIDE DEF data
    <2>2. InClient'[r] = [here |-> FALSE, run |-> FALSE, skip |-> {}, old |-> {},
                          user |-> FALSE, left |-> data]
      BY <1>3 DEF data
    <2>3. ~InClient'[r].here /\ InClient'[r].left = data /\ InClient'[r] \in Promise!Box
      BY <2>1, <2>2 DEF Promise!Box
    <2> QED BY <2>3 DEF data
  <1>5. Promise!TypeOK'
    <2>1. \A r \in Releases : InClient'[r] \in Promise!Box
      BY <1>3, <1>4 DEF PromiseInv, Promise!TypeOK
    <2> QED BY <2>1, BoxesAre DEF Promise!TypeOK
  <1>6. Promise!OldFilesStay'
    BY <1>3, <1>4 DEF PromiseInv, Promise!OldFilesStay
  <1>7. ASSUME NEW p \in Releases, InClient'[p].here, NEW f \in InClient'[p].skip
        PROVE Promise!WantedElsewhere(f, p)'
    <2>1. InClient'[p] = InClient[p] /\ InClient[p].here /\ f \in InClient[p].skip
      BY <1>3, <1>4, <1>7
    <2>2. keep
      BY <1>1, <2>1
    <2>3. PICK q \in Releases \ {p} : Wants(q, f)
      BY <2>1 DEF PromiseInv, Promise!NoFileLost, Promise!WantedElsewhere, Wants
    <2>4. (InClient'[q].here /\ f \in Manifest[q] \ InClient'[q].skip) \/ f \in InClient'[q].left
      <3>1. CASE q \in gone
        BY <1>4, <1>d, <2>2, <2>3, <3>1 DEF Wants
      <3>2. CASE q \notin gone
        BY <1>3, <2>3, <3>2 DEF Wants
      <3> QED BY <3>1, <3>2
    <2> QED BY <2>4 DEF Promise!WantedElsewhere
  <1>8. \A q \in Releases : InClient'[q].here => InClient'[q].left = {}
    BY <1>3, <1>4 DEF PromiseInv
  <1> QED BY <1>5, <1>6, <1>7, <1>8 DEF PromiseInv, Promise!NoFileLost

LEMMA NextPromise == PromiseInv /\ [Promise!Next]_InClient => PromiseInv'
  <1> SUFFICES ASSUME PromiseInv, [Promise!Next]_InClient PROVE PromiseInv'
    OBVIOUS
  <1>1. CASE UNCHANGED InClient
    BY <1>1 DEF PromiseInv, Promise!TypeOK, Promise!OldFilesStay, Promise!NoFileLost, Promise!WantedElsewhere
  <1>2. CASE Promise!Next
    <2>1. \/ \E r \in Releases : \/ Promise!Hand(r) \/ Promise!Skip(r) \/ Promise!Start(r)
                                  \/ Promise!Stop(r) \/ Promise!User(r)
          \/ \E gone \in SUBSET Releases : Promise!Remove(gone)
      BY <1>2 DEF Promise!Next
    <2> QED BY <2>1, HandPromise, SkipPromise, RunPromise, RemovePromise
  <1> QED BY <1>1, <1>2

LEMMA PromiseHolds == Promise!Spec => []PromiseInv
  <1> QED BY InitPromise, NextPromise, PTL DEF Promise!Spec

\* However many releases, files, failures and user interventions: what the
\* program started never downloads a file it was to hold back.
THEOREM OldFilesNeverDownload == Promise!Spec => []Promise!OldFilesStay
  <1>1. PromiseInv => Promise!OldFilesStay
    BY DEF PromiseInv
  <1> QED BY <1>1, PromiseHolds, PTL

\* ... and no file ends up skipped in every version of the topic.
THEOREM EveryFileWantedSomewhere == Promise!Spec => []Promise!NoFileLost
  <1>1. PromiseInv => Promise!NoFileLost
    BY DEF PromiseInv
  <1> QED BY <1>1, PromiseHolds, PTL

\* The same of the deliveries themselves: through failed calls, crashes and
\* retries, an update that runs by the program's doing downloads no file the
\* policy holds back (update_policy.go:18-22), ...
THEOREM UpdatesHoldOldFiles == Spec => []OldFilesStay
  <1>1. PromiseInv => OldFilesStay
    <2> SUFFICES ASSUME PromiseInv, NEW r \in Releases, Mine(r), torrents[r].run
                 PROVE  hist.old[r] \subseteq torrents[r].skip
      BY DEF OldFilesStay
    <2>1. InClient[r] = [here |-> TRUE, run |-> torrents[r].run, skip |-> torrents[r].skip,
                         old |-> hist.old[r], user |-> r \in hist.touched,
                         left |-> LeftBy(left[r], r)]
      BY BoxIs DEF Mine
    <2>2. /\ InClient[r].here /\ InClient[r].run = torrents[r].run
          /\ InClient[r].skip = torrents[r].skip
          /\ InClient[r].old = hist.old[r] /\ InClient[r].user = (r \in hist.touched)
      BY <2>1
    <2>3. InClient[r].run /\ ~InClient[r].user
      BY <2>2 DEF Mine
    <2> QED BY <2>2, <2>3 DEF PromiseInv, Promise!OldFilesStay
  <1> QED BY DeliveryImplements, PromiseHolds, <1>1, PTL DEF Implements

\* ... and none is skipped in every version (deliveries.go:58-72).
THEOREM NoDeliveryLosesFiles == Spec => []Promise!NoFileLost
  <1>1. PromiseInv => Promise!NoFileLost
    BY DEF PromiseInv
  <1> QED BY DeliveryImplements, PromiseHolds, <1>1, PTL DEF Implements

----------------------------------------------------------------------------
(* The two promises about a renamed or a stopped torrent                   *)

LEMMA InitCourses == ASSUME Init PROVE Courses
  <1>1. \A r \in Releases : ~Steady(r)
    BY DEF Init, Steady, Mine
  <1>2. w = Idle
    BY DEF Init
  <1>3. Shape /\ Aim
    BY <1>2 DEF Shape, Aim, Idle, Bad
  <1> QED BY <1>1, <1>3 DEF Courses, Sound

\* Notes are never taken back.
LEMMA NotesGrow ==
  ASSUME NEW S, NEW T, S \subseteq T
  PROVE  (Warned(S) => Warned(T)) /\ (PauseTold(S) => PauseTold(T))
  BY DEF Warned, PauseTold

LEMMA NoteTells ==
  ASSUME NEW S, NEW T
  PROVE  /\ \A n \in PausedNotes : n \in S => PauseTold(S)
         /\ \A n \in Bad : n \in S => Warned(S) /\ PauseTold(S)
         /\ PauseTold(T) => PauseTold(T \cup S)
         /\ Warned(T) => Warned(T \cup S)
  BY DEF Warned, PauseTold, Bad, PausedNotes

\* The delivery under way, before and after a step that leaves the policy alone.
OnCourse ==
    /\ Course(Tor, hist.folder[w.rel], told[w.rel] \cup w.note, w)
    /\ Awake(Tor, hist.folder[w.rel], told[w.rel] \cup w.note, w, Applies)

StaysOnCourse ==
    /\ Course(Now, hist.folder[w.rel], told'[w.rel] \cup w'.note, w')
    /\ Awake(Now, hist.folder[w.rel], told'[w.rel] \cup w'.note, w', Applies)

----------------------------------------------------------------------------
(* The flags: one step of a delivery                                       *)

LEMMA BetweenShape == ASSUME Inv, Shape, Between PROVE Shape'
  <1>1. TypeOK /\ Keeps /\ w.rel \in Releases
    BY BetweenKeeps, Delivering DEF Keeps, Frame, Inv
  <1>2. /\ hash' = hash /\ w.pc # "idle" /\ w'.pc # "idle" /\ w.pc # "add" /\ w'.pc # "add"
        /\ w'.rel = w.rel /\ w'.fold = w.fold /\ w'.want = w.want /\ w'.select = w.select
    BY <1>1 DEF Keeps, Frame
  <1>3. w.rel # hash
    BY <1>2 DEF Shape
  <1>4. CASE recordDelivery
    <2>1. w.pc = "record"
      BY <1>4 DEF recordDelivery
    <2> QED BY <1>1, <1>2, <1>3, <1>4, <2>1, recordDeliveryIs DEF Shape, Onward, Bad
  <1>5. CASE ListFiles
    <2>1. w.pc = "list"
      BY <1>5 DEF ListFiles
    <2> QED BY <1>1, <1>2, <1>3, <1>5, <2>1, ListFilesIs DEF Shape, Onward, Bad
  <1>6. CASE applyFolderName
    <2>1. w.pc = "root"
      BY <1>6 DEF applyFolderName
    <2> QED BY <1>1, <1>2, <1>3, <1>6, <2>1, applyFolderNameIs DEF Shape, Onward, Bad, Leaves
  <1>7. CASE waitForStopped
    <2>1. w.pc = "stopped"
      BY <1>7 DEF waitForStopped
    <2> QED BY <1>1, <1>2, <1>3, <1>7, <2>1, waitForStoppedIs DEF Shape, Onward, Bad, Leaves
  <1>8. CASE RenameRoot
    <2>1. w.pc = "rename"
      BY <1>8 DEF RenameRoot
    <2> QED BY <1>1, <1>2, <1>3, <1>8, <2>1, RenameRootIs DEF Shape, Onward, Bad, Leaves
  <1>9. CASE waitForRoot
    <2>1. w.pc = "confirm"
      BY <1>9 DEF waitForRoot
    <2> QED BY <1>1, <1>2, <1>3, <1>9, <2>1, waitForRootIs DEF Shape, Onward, Bad, Leaves
  <1>10. CASE waitForFiles
    <2>1. w.pc = "wait"
      BY <1>10 DEF waitForFiles
    <2> QED BY <1>1, <1>2, <1>3, <1>10, <2>1, waitForFilesIs DEF Shape, Onward, Bad
  <1>11. CASE SkipFiles
    <2>1. w.pc = "skip"
      BY <1>11 DEF SkipFiles
    <2> QED BY <1>1, <1>2, <1>3, <1>11, <2>1, SkipFilesIs DEF Shape, Onward, Bad
  <1>12. CASE StartSelected
    <2>1. w.pc = "start"
      BY <1>12 DEF StartSelected
    <2> QED BY <1>1, <1>2, <1>3, <1>12, <2>1, StartSelectedIs DEF Shape, Onward, Bad
  <1>13. CASE storeSelectedFiles
    <2>1. w.pc = "store"
      BY <1>13 DEF storeSelectedFiles
    <2> QED BY <1>1, <1>2, <1>3, <1>13, <2>1, storeSelectedFilesIs DEF Shape, Onward, Bad
  <1>14. CASE PolicyNote
    <2>1. w.pc = "policy"
      BY <1>14 DEF PolicyNote
    <2> QED BY <1>1, <1>2, <1>3, <1>14, <2>1, PolicyNoteIs DEF Shape, Onward, Bad
  <1>15. CASE finishDelivery
    <2>1. w.pc = "finish"
      BY <1>15 DEF finishDelivery
    <2> QED BY <1>1, <1>2, <1>3, <1>15, <2>1, finishDeliveryIs DEF Shape, Onward, Bad
  <1>16. CASE startRenamed
    <2>1. w.pc = "startRenamed"
      BY <1>16 DEF startRenamed
    <2> QED BY <1>1, <1>2, <1>3, <1>16, <2>1, startRenamedIs DEF Shape, Onward, Bad
  <1>17. CASE waitForRunning
    <2>1. w.pc = "running"
      BY <1>17 DEF waitForRunning
    <2> QED BY <1>1, <1>2, <1>3, <1>17, <2>1, waitForRunningIs DEF Shape, Onward, Bad
  <1>18. CASE recheckRenamed
    <2>1. w.pc = "recheck"
      BY <1>18 DEF recheckRenamed
    <2> QED BY <1>1, <1>2, <1>3, <1>18, <2>1, recheckRenamedIs DEF Shape, Onward, Bad
  <1>19. CASE stopUnchecked
    <2>1. w.pc = "stop"
      BY <1>19 DEF stopUnchecked
    <2> QED BY <1>1, <1>2, <1>3, <1>19, <2>1, stopUncheckedIs DEF Shape, Onward, Bad
  <1>20. CASE notifyUpdated
    <2>1. w.pc = "notify"
      BY <1>20 DEF notifyUpdated
    <2> QED BY <1>1, <1>2, <1>3, <1>20, <2>1, notifyUpdatedIs DEF Shape, Onward, Bad
  <1> QED BY <1>4, <1>5, <1>6, <1>7, <1>8, <1>9, <1>10, <1>11, <1>12, <1>13, <1>14, <1>15,
             <1>16, <1>17, <1>18, <1>19, <1>20 DEF Between

----------------------------------------------------------------------------
(* The delivered release: one step of its delivery                         *)

LEMMA BetweenCourse ==
  ASSUME Inv, Shape, Aim, OnCourse, Between, w.rel \notin hist.touched, w.rel \notin hist'.astray
  PROVE  StaysOnCourse
  <1> DEFINE S == told[w.rel] \cup w.note
             R == told'[w.rel] \cup w'.note
             F == hist.folder[w.rel]
  <1>1. /\ TypeOK /\ Keeps /\ w.rel \in Releases /\ Tor \in Torrent /\ Now \in Torrent
        /\ kind \in Plugins /\ w \in Work
    BY BetweenKeeps, Delivering DEF Keeps, Frame, Inv, TypeOK
  <1>2. /\ w.pc # "idle" /\ w'.pc # "idle" /\ w.pc # "add" /\ w'.pc # "add"
        /\ w'.rel = w.rel /\ w'.fold = w.fold /\ w'.want = w.want /\ w'.select = w.select
        /\ w'.paused = w.paused /\ w.paused = Applies
    BY <1>1 DEF Keeps, Frame, Inv, Planned
  <1>3. F = IF w.fold = "rename" THEN w.want ELSE NoRoot
    BY <1>1, <1>2 DEF Aim, Keeps, Frame
  <1>4. w.fold = "rename" => w.want # NoRoot
    BY <1>2 DEF Inv, Planned
  <1>5. Course(Tor, F, S, w) /\ Awake(Tor, F, S, w, Applies)
    BY DEF OnCourse
  <1>6. /\ w.recheck \/ w.started \/ ~w.ok => w.pc \in Onward \cup {"notify", "result"}
        /\ w.recheck => w.fold = "rename" /\ w.ok
        /\ w.pc \in {"running", "recheck", "stop"} => w.recheck
        /\ w.pc \in {"start", "startRenamed"} => w.ok
        /\ ~w.ok => "renameFailed" \in w.note
        /\ w.pc \in {"list", "root", "stopped", "rename", "confirm", "policy", "startRenamed"}
              => w.fold = "rename"
        /\ w.pc = "wait" => w.fold # "rename"
        /\ w.note \cap Bad # {} => w.pc \in {"notify", "result"}
    BY DEF Shape
  <1>7. /\ \A n \in PausedNotes : n \in w'.note => PauseTold(R)
        /\ \A n \in Bad : n \in w'.note => Warned(R) /\ PauseTold(R)
        /\ w.note \subseteq w'.note /\ told[w.rel] \subseteq told'[w.rel] =>
              (Warned(S) => Warned(R)) /\ (PauseTold(S) => PauseTold(R))
    BY NoteTells, NotesGrow
  <1>8. SUFFICES Course(Now, F, R, w') /\ Awake(Now, F, R, w', Applies)
    BY DEF StaysOnCourse
  <1> HIDE DEF S, R, F
  <1>9. CASE recordDelivery
    <2>1. w.pc = "record"
      BY <1>9 DEF recordDelivery
    <2>2. (Warned(S) => Warned(R)) /\ (PauseTold(S) => PauseTold(R))
      BY <1>1, <1>7, <1>9, recordDeliveryIs
    <2>3. /\ Now.root = Tor.root /\ Now.toRoot = Tor.toRoot /\ Now.renamed = Tor.renamed
          /\ Now.checked = Tor.checked /\ Now.run = Tor.run /\ Now.data = Tor.data
          /\ Now.busy = Tor.busy /\ Now.listed = Tor.listed /\ Now.flag = Tor.flag
      BY <1>1, <1>2, <1>9, <2>1, recordDeliveryIs, ReadIs DEF Now, Tor
    <2>4. Course(Now, F, R, w')
      BY <1>1, <1>2, <1>3, <1>4, <1>5, <1>6, <1>7, <1>9, <2>1, <2>2, <2>3, recordDeliveryIs
      DEF Course, Onward, PausedNotes, Bad, Pending, Unchecked, Resting, ReportsStopped
    <2>5. Awake(Now, F, R, w', Applies)
      BY <1>1, <1>2, <1>3, <1>4, <1>5, <1>6, <1>7, <1>9, <2>1, <2>2, <2>3, recordDeliveryIs
      DEF Awake, Onward, Waiting, Listed, PausedNotes, Bad, HasFiles, ReportsStopped
    <2> QED BY <2>4, <2>5
  <1>10. CASE ListFiles
    <2>1. w.pc = "list"
      BY <1>10 DEF ListFiles
    <2>2. (Warned(S) => Warned(R)) /\ (PauseTold(S) => PauseTold(R))
      <3>1. CASE w'.note = w.note
        BY <1>1, <1>7, <1>10, <3>1, ListFilesIs
      <3>2. CASE w'.note = {"renameFailed"}
        <4>1. PauseTold(R)
          BY <1>7, <3>2 DEF PausedNotes
        <4>2. told' = told /\ w.note \cap Bad = {}
          BY <1>1, <1>6, <1>10, <2>1, ListFilesIs
        <4> QED BY <4>1, <4>2 DEF Warned, S, R
      <3> QED BY <1>1, <1>10, <3>1, <3>2, ListFilesIs
    <2>3. /\ Now.root = Tor.root /\ Now.toRoot = Tor.toRoot /\ Now.renamed = Tor.renamed
          /\ Now.checked = Tor.checked /\ Now.run = Tor.run /\ Now.data = Tor.data
          /\ Now.busy = Tor.busy /\ Now.listed = Tor.listed /\ Now.flag = Tor.flag
      BY <1>1, <1>2, <1>10, <2>1, ListFilesIs, ReadIs DEF Now, Tor
    <2>4. Course(Now, F, R, w')
      BY <1>1, <1>2, <1>3, <1>4, <1>5, <1>6, <1>7, <1>10, <2>1, <2>2, <2>3, ListFilesIs
      DEF Course, Onward, PausedNotes, Bad, Pending, Unchecked, Resting, ReportsStopped
    <2>5. Awake(Now, F, R, w', Applies)
      BY <1>1, <1>2, <1>3, <1>4, <1>5, <1>6, <1>7, <1>10, <2>1, <2>2, <2>3, ListFilesIs
      DEF Awake, Onward, Waiting, Listed, PausedNotes, Bad, HasFiles, ReportsStopped
    <2> QED BY <2>4, <2>5
  <1>11. CASE applyFolderName
    <2>1. w.pc = "root"
      BY <1>11 DEF applyFolderName
    <2>2. (Warned(S) => Warned(R)) /\ (PauseTold(S) => PauseTold(R))
      BY <1>1, <1>7, <1>11, applyFolderNameIs DEF Leaves
    <2>3. /\ Now.root = Tor.root /\ Now.toRoot = Tor.toRoot /\ Now.renamed = Tor.renamed
          /\ Now.checked = Tor.checked /\ Now.run = Tor.run /\ Now.data = Tor.data
          /\ Now.busy = Tor.busy /\ Now.listed = Tor.listed
      <3>1. Now = Tor \/ Now = Read(Tor)
        BY <1>1, <1>11, applyFolderNameIs
      <3>2. CASE Now = Tor
        BY <3>2
      <3>3. CASE Now = Read(Tor)
        BY <1>1, <3>3, ReadIs
      <3> QED BY <3>1, <3>2, <3>3
    <2>4. Course(Now, F, R, w')
      <3>1. w.fold = "rename" /\ ~w.recheck
        BY <1>6, <2>1 DEF Onward
      <3>2. F = w.want /\ F # NoRoot
        BY <1>3, <1>4, <3>1
      <3>3. CASE Tor.root = NoRoot /\ Leaves("cannot", TRUE) /\ w'.recheck = w.recheck
        BY <1>5, <2>1, <2>2, <2>3, <3>1, <3>2, <3>3
        DEF Course, Onward, Pending, Unchecked, Resting, Leaves
      <3>4. CASE Tor.root # NoRoot /\ w'.pc = "stopped"
        BY <1>5, <2>1, <2>2, <2>3, <3>1, <3>4 DEF Course, Onward, Pending, Unchecked, Resting
      <3>5. CASE /\ Tor.root = w.want /\ Leaves("saved", TRUE)
                 /\ w'.recheck = (ReportsStopped(Tor) /\ ~Tor.data)
        <4>1. Now.root = F /\ Now.toRoot = F
          BY <1>5, <2>3, <3>2, <3>5 DEF Course, Pending
        <4>2. Unchecked(Now) => Resting(Now) \/ Warned(R)
          BY <1>5, <2>1, <2>2, <2>3, <3>1 DEF Course, Onward, Unchecked, Resting
        <4>3. Resting(Now) => w'.recheck
          BY <2>3, <3>5 DEF Resting, ReportsStopped
        <4>4. w'.pc \in {"skip", "policy"}
          BY <3>5 DEF Leaves
        <4> QED BY <3>2, <4>1, <4>2, <4>3, <4>4 DEF Course, Pending, Unchecked
      <3> QED BY <1>1, <1>11, <3>3, <3>4, <3>5, applyFolderNameIs
    <2>5. Awake(Now, F, R, w', Applies)
      BY <1>1, <1>2, <1>3, <1>4, <1>5, <1>6, <1>7, <1>11, <2>1, <2>2, <2>3, applyFolderNameIs
      DEF Awake, Onward, Waiting, Listed, PausedNotes, Bad, Leaves, HasFiles, ReportsStopped
    <2> QED BY <2>4, <2>5
  <1>12. CASE waitForStopped
    <2>1. w.pc = "stopped"
      BY <1>12 DEF waitForStopped
    <2>2. (Warned(S) => Warned(R)) /\ (PauseTold(S) => PauseTold(R))
      BY <1>1, <1>7, <1>12, waitForStoppedIs DEF Leaves
    <2>3. /\ Now.root = Tor.root /\ Now.toRoot = Tor.toRoot /\ Now.renamed = Tor.renamed
          /\ Now.checked = Tor.checked /\ Now.run = Tor.run /\ Now.data = Tor.data
          /\ Now.busy = Tor.busy /\ Now.listed = Tor.listed
      <3>1. Now = Tor \/ Now = Read(Tor)
        BY <1>1, <1>12, waitForStoppedIs
      <3>2. CASE Now = Tor
        BY <3>2
      <3>3. CASE Now = Read(Tor)
        BY <1>1, <3>3, ReadIs
      <3> QED BY <3>1, <3>2, <3>3
    <2>4. Course(Now, F, R, w')
      BY <1>1, <1>2, <1>3, <1>4, <1>5, <1>6, <1>7, <1>12, <2>1, <2>2, <2>3, waitForStoppedIs
      DEF Course, Onward, PausedNotes, Bad, Pending, Unchecked, Resting, Leaves, ReportsStopped
    <2>5. Awake(Now, F, R, w', Applies)
      BY <1>1, <1>2, <1>3, <1>4, <1>5, <1>6, <1>7, <1>12, <2>1, <2>2, <2>3, waitForStoppedIs
      DEF Awake, Onward, Waiting, Listed, PausedNotes, Bad, Leaves, HasFiles, ReportsStopped
    <2> QED BY <2>4, <2>5
  <1>13. CASE RenameRoot
    <2>1. w.pc = "rename"
      BY <1>13 DEF RenameRoot
    <2>2. (Warned(S) => Warned(R)) /\ (PauseTold(S) => PauseTold(R))
      BY <1>1, <1>7, <1>13, RenameRootIs DEF Leaves
    <2>3. /\ Now.run = Tor.run /\ Now.data = Tor.data /\ Now.busy = Tor.busy
          /\ Now.listed = Tor.listed
          /\ ~Tor.run /\ ~Tor.data /\ Tor.busy = "no"
          /\ \/ Now.root = Tor.root /\ Now.toRoot = Tor.toRoot /\ Now.renamed = Tor.renamed /\ Now.checked = Tor.checked
             \/ Now.toRoot = w.want /\ Now.root = Tor.root /\ Now.renamed = Tor.renamed /\ Now.checked = Tor.checked
             \/ Now.toRoot = w.want /\ Now.root = w.want /\ Now.renamed
      BY <1>1, <1>2, <1>13, <2>1, RenameRootIs, RenamingIs DEF Inv, Empty, Work
    <2>4. Course(Now, F, R, w')
      BY <1>1, <1>2, <1>3, <1>4, <1>5, <1>6, <1>7, <1>13, <2>1, <2>2, <2>3, RenameRootIs
      DEF Course, Onward, PausedNotes, Bad, Pending, Unchecked, Resting, Leaves, ReportsStopped
    <2>5. Awake(Now, F, R, w', Applies)
      BY <1>1, <1>2, <1>3, <1>4, <1>5, <1>6, <1>7, <1>13, <2>1, <2>2, <2>3, RenameRootIs
      DEF Awake, Onward, Waiting, Listed, PausedNotes, Bad, Leaves, HasFiles, ReportsStopped
    <2> QED BY <2>4, <2>5
  <1>14. CASE waitForRoot
    <2>1. w.pc = "confirm"
      BY <1>14 DEF waitForRoot
    <2>2. (Warned(S) => Warned(R)) /\ (PauseTold(S) => PauseTold(R))
      BY <1>1, <1>7, <1>14, waitForRootIs DEF Leaves
    <2>3. /\ Now.root = Tor.root /\ Now.toRoot = Tor.toRoot /\ Now.renamed = Tor.renamed
          /\ Now.checked = Tor.checked /\ Now.run = Tor.run /\ Now.data = Tor.data
          /\ Now.busy = Tor.busy /\ Now.listed = Tor.listed /\ Now.flag = Tor.flag
          /\ ~Tor.run /\ ~Tor.data /\ Tor.busy = "no"
      <3>1. Now = Tor
        BY <1>1, <1>2, <1>14, waitForRootIs DEF Now, Tor
      <3> QED BY <2>1, <3>1 DEF Inv, Empty
    <2>4. Course(Now, F, R, w')
      <3>1. CASE Leaves("saved", TRUE) /\ w'.recheck /\ Tor.root = w.want
        BY <1>2, <1>3, <1>4, <1>5, <2>1, <2>2, <2>3, <3>1
        DEF Course, Onward, Pending, Unchecked, Resting, Leaves
      <3>2. CASE Leaves("renameFailed", FALSE) /\ w'.recheck = w.recheck
        BY <1>2, <1>3, <1>4, <1>5, <2>1, <2>2, <2>3, <3>2
        DEF Course, Onward, Pending, Unchecked, Resting, Leaves
      <3> QED BY <1>1, <1>14, <3>1, <3>2, waitForRootIs
    <2>5. Awake(Now, F, R, w', Applies)
      BY <1>1, <1>2, <1>3, <1>4, <1>5, <1>6, <1>7, <1>14, <2>1, <2>2, <2>3, waitForRootIs
      DEF Awake, Onward, Waiting, Listed, PausedNotes, Bad, Leaves, HasFiles, ReportsStopped
    <2> QED BY <2>4, <2>5
  <1>15. CASE waitForFiles
    <2>1. w.pc = "wait"
      BY <1>15 DEF waitForFiles
    <2>2. (Warned(S) => Warned(R)) /\ (PauseTold(S) => PauseTold(R))
      BY <1>1, <1>7, <1>15, waitForFilesIs
    <2>3. /\ Now.root = Tor.root /\ Now.toRoot = Tor.toRoot /\ Now.renamed = Tor.renamed
          /\ Now.checked = Tor.checked /\ Now.run = Tor.run /\ Now.data = Tor.data
          /\ Now.busy = Tor.busy /\ Now.listed = Tor.listed /\ Now.flag = Tor.flag
      BY <1>1, <1>2, <1>15, <2>1, waitForFilesIs, ReadIs DEF Now, Tor
    <2>4. Course(Now, F, R, w')
      BY <1>1, <1>2, <1>3, <1>4, <1>5, <1>6, <1>7, <1>15, <2>1, <2>2, <2>3, waitForFilesIs
      DEF Course, Onward, PausedNotes, Bad, Pending, Unchecked, Resting, ReportsStopped
    <2>5. Awake(Now, F, R, w', Applies)
      BY <1>1, <1>2, <1>3, <1>4, <1>5, <1>6, <1>7, <1>15, <2>1, <2>2, <2>3, waitForFilesIs
      DEF Awake, Onward, Waiting, Listed, PausedNotes, Bad, HasFiles, ReportsStopped
    <2> QED BY <2>4, <2>5
  <1>16. CASE SkipFiles
    <2>1. w.pc = "skip"
      BY <1>16 DEF SkipFiles
    <2>2. (Warned(S) => Warned(R)) /\ (PauseTold(S) => PauseTold(R))
      BY <1>1, <1>7, <1>16, SkipFilesIs
    <2>3. /\ Now.root = Tor.root /\ Now.toRoot = Tor.toRoot /\ Now.renamed = Tor.renamed
          /\ Now.checked = Tor.checked /\ Now.run = Tor.run /\ Now.data = Tor.data
          /\ Now.busy = Tor.busy /\ Now.listed = Tor.listed /\ Now.flag = Tor.flag
      BY <1>1, <1>2, <1>16, <2>1, SkipFilesIs, SkippedIs DEF Work
    <2>4. Course(Now, F, R, w')
      BY <1>1, <1>2, <1>3, <1>4, <1>5, <1>6, <1>7, <1>16, <2>1, <2>2, <2>3, SkipFilesIs
      DEF Course, Onward, PausedNotes, Bad, Pending, Unchecked, Resting, ReportsStopped
    <2>5. Awake(Now, F, R, w', Applies)
      BY <1>1, <1>2, <1>3, <1>4, <1>5, <1>6, <1>7, <1>16, <2>1, <2>2, <2>3, SkipFilesIs
      DEF Awake, Onward, Waiting, Listed, PausedNotes, Bad, HasFiles, ReportsStopped
    <2> QED BY <2>4, <2>5
  <1>17. CASE StartSelected
    <2>1. w.pc = "start"
      BY <1>17 DEF StartSelected
    <2>2. (Warned(S) => Warned(R)) /\ (PauseTold(S) => PauseTold(R))
      BY <1>1, <1>7, <1>17, StartSelectedIs
    <2>3. /\ Now.root = Tor.root /\ Now.toRoot = Tor.toRoot /\ Now.renamed = Tor.renamed
          /\ Now.checked = Tor.checked /\ Now.data = Tor.data /\ Now.busy = Tor.busy
          /\ Now.listed = Tor.listed /\ Now.flag = Tor.flag
          /\ Tor.run => Now.run
          /\ w'.pc = "store" /\ Tor.listed => Now.run \/ (Tor.busy = "recheck")
      <3>1. Now \in {Tor, Started(kind, Tor)} /\ (w'.pc = "store" => Now = Started(kind, Tor))
        BY <1>1, <1>17, StartSelectedIs
      <3>2. CASE Now # Started(kind, Tor)
        BY <3>1, <3>2
      <3>3. CASE Now = Started(kind, Tor)
        <4>1. Now.run = (Tor.run \/ (Tor.listed /\ (kind = "qbittorrent" => Tor.busy # "recheck")))
          BY <1>1, <3>3, StartedIs
        <4> QED BY <1>1, <3>3, <4>1, StartedIs
      <3> QED BY <3>1, <3>2, <3>3
    <2>4. Course(Now, F, R, w')
      BY <1>1, <1>2, <1>3, <1>4, <1>5, <1>6, <1>7, <1>17, <2>1, <2>2, <2>3, StartSelectedIs
      DEF Course, Onward, PausedNotes, Bad, Pending, Unchecked, Resting, ReportsStopped
    <2>5. Awake(Now, F, R, w', Applies)
      BY <1>1, <1>2, <1>3, <1>4, <1>5, <1>6, <1>7, <1>17, <2>1, <2>2, <2>3, StartSelectedIs
      DEF Awake, Onward, Waiting, Listed, PausedNotes, Bad, HasFiles, ReportsStopped
    <2> QED BY <2>4, <2>5
  <1>18. CASE storeSelectedFiles
    <2>1. w.pc = "store"
      BY <1>18 DEF storeSelectedFiles
    <2>2. (Warned(S) => Warned(R)) /\ (PauseTold(S) => PauseTold(R))
      BY <1>1, <1>7, <1>18, storeSelectedFilesIs
    <2>3. /\ Now.root = Tor.root /\ Now.toRoot = Tor.toRoot /\ Now.renamed = Tor.renamed
          /\ Now.checked = Tor.checked /\ Now.run = Tor.run /\ Now.data = Tor.data
          /\ Now.busy = Tor.busy /\ Now.listed = Tor.listed /\ Now.flag = Tor.flag
      BY <1>1, <1>2, <1>18, <2>1, storeSelectedFilesIs, ReadIs DEF Now, Tor
    <2>4. Course(Now, F, R, w')
      BY <1>1, <1>2, <1>3, <1>4, <1>5, <1>6, <1>7, <1>18, <2>1, <2>2, <2>3, storeSelectedFilesIs
      DEF Course, Onward, PausedNotes, Bad, Pending, Unchecked, Resting, ReportsStopped
    <2>5. Awake(Now, F, R, w', Applies)
      BY <1>1, <1>2, <1>3, <1>4, <1>5, <1>6, <1>7, <1>18, <2>1, <2>2, <2>3, storeSelectedFilesIs
      DEF Awake, Onward, Waiting, Listed, PausedNotes, Bad, HasFiles, ReportsStopped
    <2> QED BY <2>4, <2>5
  <1>19. CASE PolicyNote
    <2>1. w.pc = "policy"
      BY <1>19 DEF PolicyNote
    <2>2. (Warned(S) => Warned(R)) /\ (PauseTold(S) => PauseTold(R))
      BY <1>1, <1>7, <1>19, PolicyNoteIs
    <2>3. /\ Now.root = Tor.root /\ Now.toRoot = Tor.toRoot /\ Now.renamed = Tor.renamed
          /\ Now.checked = Tor.checked /\ Now.run = Tor.run /\ Now.data = Tor.data
          /\ Now.busy = Tor.busy /\ Now.listed = Tor.listed /\ Now.flag = Tor.flag
      BY <1>1, <1>2, <1>19, <2>1, PolicyNoteIs, ReadIs DEF Now, Tor
    <2>4. Course(Now, F, R, w')
      BY <1>1, <1>2, <1>3, <1>4, <1>5, <1>6, <1>7, <1>19, <2>1, <2>2, <2>3, PolicyNoteIs
      DEF Course, Onward, PausedNotes, Bad, Pending, Unchecked, Resting, ReportsStopped
    <2>5. Awake(Now, F, R, w', Applies)
      BY <1>1, <1>2, <1>3, <1>4, <1>5, <1>6, <1>7, <1>19, <2>1, <2>2, <2>3, PolicyNoteIs
      DEF Awake, Onward, Waiting, Listed, PausedNotes, Bad, HasFiles, ReportsStopped
    <2> QED BY <2>4, <2>5
  <1>20. CASE finishDelivery
    <2>1. w.pc = "finish"
      BY <1>20 DEF finishDelivery
    <2>2. (Warned(S) => Warned(R)) /\ (PauseTold(S) => PauseTold(R))
      BY <1>1, <1>7, <1>20, finishDeliveryIs
    <2>3. /\ Now.root = Tor.root /\ Now.toRoot = Tor.toRoot /\ Now.renamed = Tor.renamed
          /\ Now.checked = Tor.checked /\ Now.run = Tor.run /\ Now.data = Tor.data
          /\ Now.busy = Tor.busy /\ Now.listed = Tor.listed /\ Now.flag = Tor.flag
      BY <1>1, <1>2, <1>20, <2>1, finishDeliveryIs, ReadIs DEF Now, Tor
    <2>4. Course(Now, F, R, w')
      BY <1>1, <1>2, <1>3, <1>4, <1>5, <1>6, <1>7, <1>20, <2>1, <2>2, <2>3, finishDeliveryIs
      DEF Course, Onward, PausedNotes, Bad, Pending, Unchecked, Resting, ReportsStopped
    <2>5. Awake(Now, F, R, w', Applies)
      BY <1>1, <1>2, <1>3, <1>4, <1>5, <1>6, <1>7, <1>20, <2>1, <2>2, <2>3, finishDeliveryIs
      DEF Awake, Onward, Waiting, Listed, PausedNotes, Bad, HasFiles, ReportsStopped
    <2> QED BY <2>4, <2>5
  <1>21. CASE startRenamed
    <2>1. w.pc = "startRenamed"
      BY <1>21 DEF startRenamed
    <2>2. (Warned(S) => Warned(R)) /\ (PauseTold(S) => PauseTold(R))
      BY <1>1, <1>7, <1>21, startRenamedIs
    <2>3. /\ Now.root = Tor.root /\ Now.toRoot = Tor.toRoot /\ Now.renamed = Tor.renamed
          /\ Now.checked = Tor.checked /\ Now.data = Tor.data /\ Now.busy = Tor.busy
          /\ Now.listed = Tor.listed /\ Now.flag = Tor.flag
          /\ Tor.run => Now.run
          /\ w'.note = w.note /\ Tor.listed => Now.run \/ (Tor.busy = "recheck") \/ "startFailed" \in w.note
      <3>1. /\ Now \in {Tor, Started(kind, Tor)}
              /\ (w'.note = w.note
                 => Now = Started(kind, Tor) \/ "startFailed" \in w.note)
        BY <1>1, <1>21, startRenamedIs
      <3>2. CASE Now # Started(kind, Tor)
        BY <3>1, <3>2
      <3>3. CASE Now = Started(kind, Tor)
        <4>1. Now.run = (Tor.run \/ (Tor.listed /\ (kind = "qbittorrent" => Tor.busy # "recheck")))
          BY <1>1, <3>3, StartedIs
        <4> QED BY <1>1, <3>3, <4>1, StartedIs
      <3> QED BY <3>1, <3>2, <3>3
    <2>4. Course(Now, F, R, w')
      BY <1>1, <1>2, <1>3, <1>4, <1>5, <1>6, <1>7, <1>21, <2>1, <2>2, <2>3, startRenamedIs
      DEF Course, Onward, PausedNotes, Bad, Pending, Unchecked, Resting, ReportsStopped
    <2>5. Awake(Now, F, R, w', Applies)
      BY <1>1, <1>2, <1>3, <1>4, <1>5, <1>6, <1>7, <1>21, <2>1, <2>2, <2>3, startRenamedIs
      DEF Awake, Onward, Waiting, Listed, PausedNotes, Bad, HasFiles, ReportsStopped
    <2> QED BY <2>4, <2>5
  <1>22. CASE waitForRunning
    <2>1. w.pc = "running"
      BY <1>22 DEF waitForRunning
    <2>2. (Warned(S) => Warned(R)) /\ (PauseTold(S) => PauseTold(R))
      BY <1>1, <1>7, <1>22, waitForRunningIs
    <2>3. /\ Now.root = Tor.root /\ Now.toRoot = Tor.toRoot /\ Now.renamed = Tor.renamed
          /\ Now.checked = Tor.checked /\ Now.run = Tor.run /\ Now.data = Tor.data
          /\ Now.busy = Tor.busy /\ Now.listed = Tor.listed
          /\ w'.pc = "recheck" => Now.flag = ~Tor.run
      BY <1>1, <1>2, <1>22, <2>1, waitForRunningIs, ReadIs
    <2>4. Course(Now, F, R, w')
      BY <1>1, <1>2, <1>3, <1>4, <1>5, <1>6, <1>7, <1>22, <2>1, <2>2, <2>3, waitForRunningIs
      DEF Course, Onward, PausedNotes, Bad, Pending, Unchecked, Resting, ReportsStopped
    <2>5. Awake(Now, F, R, w', Applies)
      BY <1>1, <1>2, <1>3, <1>4, <1>5, <1>6, <1>7, <1>22, <2>1, <2>2, <2>3, waitForRunningIs
      DEF Awake, Onward, Waiting, Listed, PausedNotes, Bad, HasFiles, ReportsStopped
    <2> QED BY <2>4, <2>5
  <1>23. CASE recheckRenamed
    <2>1. w.pc = "recheck"
      BY <1>23 DEF recheckRenamed
    <2>2. (Warned(S) => Warned(R)) /\ (PauseTold(S) => PauseTold(R))
      BY <1>1, <1>7, <1>23, recheckRenamedIs
    <2>3. /\ Now.root = Tor.root /\ Now.toRoot = Tor.toRoot /\ Now.renamed = Tor.renamed
          /\ Now.listed = Tor.listed /\ Now.flag = Tor.flag
          /\ Now.run => Tor.run
          /\ Tor.run /\ ~Tor.flag => Now.run
          /\ \/ /\ Now.run = Tor.run /\ Now.busy = Tor.busy /\ Now.checked = Tor.checked
                /\ Now.data = Tor.data /\ w'.pc = "stop"
             \/ Now.checked
      BY <1>1, <1>2, <1>23, <2>1, recheckRenamedIs, RecheckedIs
    <2>4. Course(Now, F, R, w')
      BY <1>1, <1>2, <1>3, <1>4, <1>5, <1>6, <1>7, <1>23, <2>1, <2>2, <2>3, recheckRenamedIs
      DEF Course, Onward, PausedNotes, Bad, Pending, Unchecked, Resting, ReportsStopped
    <2>5. Awake(Now, F, R, w', Applies)
      BY <1>1, <1>2, <1>3, <1>4, <1>5, <1>6, <1>7, <1>23, <2>1, <2>2, <2>3, recheckRenamedIs
      DEF Awake, Onward, Waiting, Listed, PausedNotes, Bad, HasFiles, ReportsStopped
    <2> QED BY <2>4, <2>5
  <1>24. CASE stopUnchecked
    <2>1. w.pc = "stop"
      BY <1>24 DEF stopUnchecked
    <2>2. (Warned(S) => Warned(R)) /\ (PauseTold(S) => PauseTold(R))
      BY <1>1, <1>7, <1>24, stopUncheckedIs
    <2>3. /\ Now.root = Tor.root /\ Now.toRoot = Tor.toRoot /\ Now.renamed = Tor.renamed
          /\ Now.checked = Tor.checked /\ Now.data = Tor.data /\ Now.busy = Tor.busy
          /\ Now.listed = Tor.listed
          /\ Now.run => Tor.run
      BY <1>1, <1>2, <1>24, <2>1, stopUncheckedIs, StoppedIs
    <2>4. Course(Now, F, R, w')
      BY <1>1, <1>2, <1>3, <1>4, <1>5, <1>6, <1>7, <1>24, <2>1, <2>2, <2>3, stopUncheckedIs
      DEF Course, Onward, PausedNotes, Bad, Pending, Unchecked, Resting, ReportsStopped
    <2>5. Awake(Now, F, R, w', Applies)
      BY <1>1, <1>2, <1>3, <1>4, <1>5, <1>6, <1>7, <1>24, <2>1, <2>2, <2>3, stopUncheckedIs
      DEF Awake, Onward, Waiting, Listed, PausedNotes, Bad, HasFiles, ReportsStopped
    <2> QED BY <2>4, <2>5
  <1>25. CASE notifyUpdated
    <2>1. w.pc = "notify"
      BY <1>25 DEF notifyUpdated
    <2>2. (Warned(S) => Warned(R)) /\ (PauseTold(S) => PauseTold(R))
      BY <1>1, <1>7, <1>25, notifyUpdatedIs
    <2>3. /\ Now.root = Tor.root /\ Now.toRoot = Tor.toRoot /\ Now.renamed = Tor.renamed
          /\ Now.checked = Tor.checked /\ Now.run = Tor.run /\ Now.data = Tor.data
          /\ Now.busy = Tor.busy /\ Now.listed = Tor.listed /\ Now.flag = Tor.flag
      BY <1>1, <1>2, <1>25, <2>1, notifyUpdatedIs, ReadIs DEF Now, Tor
    <2>4. Course(Now, F, R, w')
      BY <1>1, <1>2, <1>3, <1>4, <1>5, <1>6, <1>7, <1>25, <2>1, <2>2, <2>3, notifyUpdatedIs
      DEF Course, Onward, PausedNotes, Bad, Pending, Unchecked, Resting, ReportsStopped
    <2>5. Awake(Now, F, R, w', Applies)
      BY <1>1, <1>2, <1>3, <1>4, <1>5, <1>6, <1>7, <1>25, <2>1, <2>2, <2>3, notifyUpdatedIs
      DEF Awake, Onward, Waiting, Listed, PausedNotes, Bad, HasFiles, ReportsStopped
    <2> QED BY <2>4, <2>5
  <1> QED BY <1>9, <1>10, <1>11, <1>12, <1>13, <1>14, <1>15, <1>16, <1>17, <1>18, <1>19, <1>20, <1>21,
             <1>22, <1>23, <1>24, <1>25 DEF Between

----------------------------------------------------------------------------
(* The courses: every step                                                 *)

LEMMA NotesOf ==
  ASSUME NEW r
  PROVE  /\ w.rel # r \/ w.pc \in {"idle", "add"} => Telling(r) = told[r]
         /\ w.rel = r /\ w.pc \notin {"idle", "add"} => Telling(r) = told[r] \cup w.note
         /\ w.rel # r \/ w.pc = "idle" => Doing(r) = Idle
         /\ w.rel = r /\ w.pc # "idle" => Doing(r) = w
         /\ w'.rel # r \/ w'.pc \in {"idle", "add"} => Telling(r)' = told'[r]
         /\ w'.rel = r /\ w'.pc \notin {"idle", "add"} => Telling(r)' = told'[r] \cup w'.note
         /\ w'.rel # r \/ w'.pc = "idle" => Doing(r)' = Idle
         /\ w'.rel = r /\ w'.pc # "idle" => Doing(r)' = w'
  BY DEF Telling, Doing

\* The policy applies to a topic once it has recorded a release.
LEMMA StillApplies ==
  ASSUME UNCHANGED <<kind, opt>>, hash' = hash \/ hash' # 0
  PROVE  Applies => Applies'
  BY DEF Applies, IsUpdate

\* A release whose torrent, notes and history a step leaves alone.
LEMMA OthersStay ==
  ASSUME NEW r \in Releases, Sound(r), torrents'[r] = torrents[r], hist'.folder[r] = hist.folder[r],
         hist.astray \subseteq hist'.astray, hist.touched \subseteq hist'.touched,
         hist.crashed \subseteq hist'.crashed,
         Telling(r)' = Telling(r), Doing(r)' = Doing(r), Applies => Applies', hash' = r => hash = r
  PROVE  Sound(r)'
  BY DEF Sound, Steady, Mine, Awake

LEMMA BetweenCourses == ASSUME Inv, Courses, Between PROVE Courses'
  <1>1. /\ TypeOK /\ Keeps /\ Frame /\ w.rel \in Releases /\ w.pc \notin {"idle", "add"}
        /\ w'.pc \notin {"idle", "add"}
        /\ w'.rel = w.rel /\ hash' = hash /\ Present(w.rel)
    BY BetweenKeeps, Delivering DEF Keeps, Frame, Inv
  <1>2. Shape'
    BY BetweenShape DEF Courses
  <1>3. Aim'
    BY <1>1 DEF Courses, Aim, Frame
  <1>4. Applies' = Applies
    BY <1>1 DEF Frame, Applies, IsUpdate
  <1>5. ASSUME NEW r \in Releases, r # w.rel PROVE Sound(r)'
    <2>1. Sound(r) /\ torrents'[r] = torrents[r] /\ told'[r] = told[r]
      BY <1>1, <1>5 DEF Courses, Frame
    <2>2. Telling(r)' = Telling(r) /\ Doing(r)' = Doing(r)
      BY <1>1, <1>5, <2>1, NotesOf
    <2>3. /\ hist'.folder[r] = hist.folder[r] /\ hist.astray \subseteq hist'.astray
          /\ hist.touched \subseteq hist'.touched /\ hist.crashed \subseteq hist'.crashed
      BY <1>1 DEF Frame
    <2> QED BY <1>1, <1>4, <2>1, <2>2, <2>3, OthersStay
  <1>6. ASSUME NEW r \in Releases, r = w.rel PROVE Sound(r)'
    <2> SUFFICES ASSUME Steady(r)'
                 PROVE  /\ Course(torrents'[r], hist'.folder[r], Telling(r)', Doing(r)')
                        /\ Awake(torrents'[r], hist'.folder[r], Telling(r)', Doing(r)', Applies')
                        /\ hash' = r => torrents'[r].run \/ PauseTold(Telling(r)')
      BY DEF Sound
    <2>1. /\ r \notin hist'.touched /\ r \notin hist'.crashed /\ r \notin hist'.astray
          /\ hist.astray \subseteq hist'.astray /\ hist'.touched = hist.touched
          /\ hist'.crashed = hist.crashed /\ hist'.folder = hist.folder
      BY <1>1 DEF Steady, Mine, Frame
    <2>2. Steady(r)
      BY <1>1, <1>6, <2>1 DEF Steady, Mine, Present
    <2>3. Telling(r) = told[r] \cup w.note /\ Doing(r) = w
      BY <1>1, <1>6, NotesOf
    <2>4. OnCourse
      BY <1>6, <2>2, <2>3 DEF Courses, Sound, OnCourse, Tor
    <2>5. StaysOnCourse
      BY <1>6, <2>1, <2>4, BetweenCourse DEF Courses
    <2>6. Telling(r)' = told'[r] \cup w'.note /\ Doing(r)' = w'
      BY <1>1, <1>6, NotesOf
    <2>7. hash' # r
      BY <1>1, <1>6 DEF Courses, Shape
    <2> QED BY <1>4, <1>6, <2>1, <2>5, <2>6, <2>7 DEF StaysOnCourse, Now
  <1> QED BY <1>2, <1>3, <1>5, <1>6 DEF Courses

LEMMA PlanCourses == ASSUME Inv, Courses, Plan PROVE Courses'
  <1>1. TypeOK /\ \A i \in DOMAIN rows : rows[i].files \in {Unknown, Manifest[rows[i].rel]}
    BY DEF Inv, Baselines
  <1>2. /\ UNCHANGED <<kind, opt, left, latest, form, hash, rows, torrents, told>>
        /\ w.pc = "idle" /\ latest # hash /\ w'.pc = "add" /\ w'.rel = latest
        /\ w'.ok /\ ~w'.recheck /\ ~w'.started /\ w'.note \cap Bad = {}
        /\ hist'.touched = hist.touched /\ hist'.crashed = hist.crashed
        /\ \A q \in Releases \ {latest} : hist'.folder[q] = hist.folder[q]
        /\ hist'.folder[latest] = IF w'.fold = "rename" THEN w'.want ELSE hist.folder[latest]
        /\ hist.astray \subseteq hist'.astray
        /\ latest \notin hist'.astray =>
              hist.folder[latest] = NoRoot \/ (w'.fold = "rename" /\ w'.want = hist.folder[latest])
    BY <1>1, PlanIs
  <1>3. Shape'
    BY <1>2 DEF Shape
  <1>4. Aim'
    BY <1>2 DEF Aim
  <1>5. Applies' = Applies /\ latest \in Releases
    BY <1>1, <1>2 DEF Applies, IsUpdate, TypeOK
  <1>6. ASSUME NEW r \in Releases PROVE Sound(r)'
    <2>1. Sound(r) /\ torrents'[r] = torrents[r] /\ Telling(r)' = Telling(r)
      BY <1>2, NotesOf DEF Courses
    <2>2. CASE r # latest
      <3>1. Doing(r)' = Doing(r)
        BY <1>2, <2>2, NotesOf
      <3> QED BY <1>2, <1>5, <2>1, <2>2, <3>1, OthersStay
    <2>3. CASE r = latest
      <3> SUFFICES ASSUME Steady(r)'
                   PROVE  /\ Course(torrents'[r], hist'.folder[r], Telling(r)', Doing(r)')
                          /\ Awake(torrents'[r], hist'.folder[r], Telling(r)', Doing(r)', Applies')
                          /\ hash' = r => torrents'[r].run \/ PauseTold(Telling(r)')
        BY DEF Sound
      <3>1. Steady(r) /\ r \notin hist'.astray
        BY <1>2, <2>1 DEF Steady, Mine
      <3>2. Doing(r) = Idle /\ Doing(r)' = w'
        BY <1>2, <2>3, NotesOf
      <3>3. /\ Course(torrents[r], hist.folder[r], Telling(r), Idle)
            /\ Awake(torrents[r], hist.folder[r], Telling(r), Idle, Applies)
        BY <2>1, <3>1, <3>2 DEF Sound
      <3>4. hist.folder[r] = NoRoot \/ hist'.folder[r] = hist.folder[r]
        BY <1>2, <2>3, <3>1
      <3>5. Course(torrents[r], hist'.folder[r], Telling(r), w')
        BY <1>2, <3>3, <3>4 DEF Course, Idle, Onward
      <3>6. Awake(torrents[r], hist'.folder[r], Telling(r), w', Applies)
        BY <1>2, <3>3, <3>4 DEF Awake, Idle, Onward, Waiting, Listed
      <3> QED BY <1>2, <1>5, <2>1, <2>3, <3>2, <3>5, <3>6
    <2> QED BY <2>2, <2>3
  <1> QED BY <1>3, <1>4, <1>6 DEF Courses

\* The result of a check, its refusal, and the end of the process.
LEMMA EndCourses ==
  ASSUME Inv, Courses, UNCHANGED <<kind, opt, left, torrents, told>>, w.pc # "idle", w' = Idle,
         hist'.touched = hist.touched, hist'.folder = hist.folder, hist'.astray = hist.astray,
         hist.crashed \subseteq hist'.crashed,
         \/ hash' = hash /\ (w.pc = "add" \/ w.rel \in hist'.crashed)
         \/ hash' \in {hash, w.rel} /\ w.pc = "result"
  PROVE  Courses'
  <1>1. w'.pc = "idle" /\ w.rel \in Releases
    BY DEF Idle, Inv, TypeOK
  <1>2. Shape' /\ Aim'
    BY DEF Shape, Aim, Idle, Bad
  <1>3. hash' = hash \/ hash' # 0
    BY <1>1 DEF Releases
  <1>4. Applies => Applies'
    BY <1>3, StillApplies
  <1>5. ASSUME NEW r \in Releases PROVE Sound(r)'
    <2>1. Sound(r) /\ torrents'[r] = torrents[r] /\ Doing(r)' = Idle /\ Telling(r)' = told[r]
      BY <1>1, NotesOf DEF Courses
    <2>2. CASE r # w.rel
      BY <1>4, <2>1, <2>2, OthersStay, NotesOf
    <2>3. CASE r = w.rel /\ r \in hist'.crashed
      BY <2>3 DEF Sound, Steady
    <2>4. CASE r = w.rel /\ r \notin hist'.crashed
      <3> SUFFICES ASSUME Steady(r)'
                   PROVE  /\ Course(torrents'[r], hist'.folder[r], Telling(r)', Doing(r)')
                          /\ Awake(torrents'[r], hist'.folder[r], Telling(r)', Doing(r)', Applies')
                          /\ hash' = r => torrents'[r].run \/ PauseTold(Telling(r)')
        BY DEF Sound
      <3>1. Steady(r)
        BY <2>1 DEF Steady, Mine
      <3>2. Doing(r) = w /\ w.pc \in {"add", "result"}
        BY <2>4, NotesOf
      <3>3. Telling(r) = told[r]
        <4>1. w.pc = "result" => w.note \subseteq told[w.rel]
          BY DEF Courses, Shape
        <4> QED BY <2>4, <3>2, <4>1, NotesOf
      <3>4. /\ Course(torrents[r], hist.folder[r], told[r], w)
            /\ Awake(torrents[r], hist.folder[r], told[r], w, Applies)
        BY <2>1, <3>1, <3>2, <3>3 DEF Sound
      <3>5. Course(torrents[r], hist.folder[r], told[r], Idle)
        BY <3>2, <3>4 DEF Course, Idle, Onward
      <3>6. Awake(torrents[r], hist.folder[r], told[r], Idle, Applies')
        BY <1>4, <3>2, <3>4 DEF Awake, Idle, Onward, Waiting, Listed
      <3>7. hash' = r => torrents[r].run \/ PauseTold(told[r])
        <4>1. CASE hash' = r /\ hash' = hash
          BY <2>4, <4>1 DEF Courses, Shape
        <4>2. CASE hash' = r /\ w.pc = "result"
          BY <3>4, <4>2 DEF Awake, Waiting
        <4> QED BY <2>4, <4>1, <4>2
      <3> QED BY <2>1, <3>5, <3>6, <3>7
    <2> QED BY <2>2, <2>3, <2>4
  <1> QED BY <1>2, <1>5 DEF Courses

LEMMA PublishCourses == ASSUME Courses, Publish PROVE Courses'
  <1>1. UNCHANGED <<kind, opt, left, hash, torrents, w, told, hist>>
    BY DEF Publish
  <1>2. Shape' /\ Aim'
    BY <1>1 DEF Courses, Shape, Aim
  <1>3. ASSUME NEW r \in Releases PROVE Sound(r)'
    <2>1. Applies => Applies'
      BY <1>1, StillApplies
    <2>2. Telling(r)' = Telling(r) /\ Doing(r)' = Doing(r) /\ Sound(r)
      BY <1>1 DEF Telling, Doing, Courses
    <2> QED BY <1>1, <2>1, <2>2, OthersStay
  <1> QED BY <1>2, <1>3 DEF Courses

LEMMA AddedIs ==
  ASSUME NEW k \in Plugins, NEW paused, NEW root
  PROVE  LET t == Added(k, paused, root) IN
         /\ t.root = root /\ t.toRoot = root /\ ~t.renamed /\ t.busy # "recheck"
         /\ t.run \/ (paused /\ CanSelect(k))
  BY DEF Added

LEMMA AddCourses == ASSUME Inv, Courses, Add PROVE Courses'
  <1>1. TypeOK /\ w.pc = "add" /\ w.rel \in Releases /\ w \in Work /\ kind \in Plugins
    BY DEF Inv, TypeOK, Add
  <1>2. /\ UNCHANGED <<kind, opt, left, hash, told>> /\ w' \in {Go("record"), Idle}
        /\ hist'.touched = hist.touched /\ hist'.crashed = hist.crashed
        /\ hist'.folder = hist.folder /\ hist'.astray = hist.astray
        /\ \A q \in Releases \ {w.rel} : torrents'[q] = torrents[q]
        /\ \/ Now = Tor
           \/ /\ Tor = None
              /\ \E root \in FolderNames \cup {NoRoot} :
                   Now = Added(kind, addPaused, root) /\ Now \in Torrent
    BY <1>1, AddIs
  <1>3. /\ w'.pc = "record" \/ w' = Idle
        /\ w'.pc = "record" => w'.rel = w.rel /\ w'.note = w.note /\ w'.fold = w.fold /\ w'.want = w.want
              /\ w'.ok = w.ok /\ w'.recheck = w.recheck /\ w'.started = w.started
        /\ w' = Idle => w'.pc = "idle"
    BY <1>1, <1>2 DEF Go, Work, Idle
  <1>4. Shape' /\ Aim'
    <2>1. CASE w' = Idle
      BY <1>2, <1>3, <2>1 DEF Shape, Aim, Idle, Bad
    <2>2. CASE w'.pc = "record"
      BY <1>1, <1>2, <1>3, <2>2 DEF Courses, Shape, Aim, Onward
    <2> QED BY <1>3, <2>1, <2>2
  <1>5. Applies' = Applies
    BY <1>2 DEF Applies, IsUpdate
  <1>6. ASSUME NEW r \in Releases, r # w.rel PROVE Sound(r)'
    <2>1. Sound(r) /\ torrents'[r] = torrents[r] /\ Doing(r)' = Idle /\ Telling(r)' = told[r]
      BY <1>2, <1>3, <1>6, NotesOf DEF Courses
    <2> QED BY <1>2, <1>5, <1>6, <2>1, NotesOf, OthersStay
  <1>7. ASSUME NEW r \in Releases, r = w.rel PROVE Sound(r)'
    <2> SUFFICES ASSUME Steady(r)'
                 PROVE  /\ Course(torrents'[r], hist'.folder[r], Telling(r)', Doing(r)')
                        /\ Awake(torrents'[r], hist'.folder[r], Telling(r)', Doing(r)', Applies')
                        /\ hash' = r => torrents'[r].run \/ PauseTold(Telling(r)')
      BY DEF Sound
    <2>1. r \notin hist.touched \cup hist.crashed \cup hist.astray
      BY <1>2 DEF Steady, Mine
    <2>2. /\ told[r] \subseteq Telling(r)'
          /\ Doing(r)'.pc \in {"idle", "record"}
      BY <1>1, <1>2, <1>3, <1>7, NotesOf
    <2>3. hash' # r
      BY <1>1, <1>2, <1>7 DEF Courses, Shape
    <2>4. CASE Now = Tor
      <3>1. Steady(r) /\ torrents'[r] = torrents[r]
        BY <1>7, <2>1, <2>4 DEF Steady, Mine, Now, Tor
      <3>2. /\ Course(torrents[r], hist.folder[r], told[r], w)
            /\ Awake(torrents[r], hist.folder[r], told[r], w, Applies)
        BY <1>1, <1>7, <3>1, NotesOf DEF Courses, Sound
      <3>3. PauseTold(told[r]) => PauseTold(Telling(r)')
        BY <2>2, NotesGrow
      <3>4. Warned(told[r]) => Warned(Telling(r)')
        BY <2>2, NotesGrow
      <3>5. Course(torrents[r], hist.folder[r], Telling(r)', Doing(r)')
        BY <1>1, <2>2, <3>2, <3>4 DEF Course, Onward
      <3>6. Awake(torrents[r], hist.folder[r], Telling(r)', Doing(r)', Applies)
        BY <1>1, <2>2, <3>2, <3>3 DEF Awake, Onward, Waiting, Listed
      <3> QED BY <1>2, <1>5, <2>3, <3>1, <3>5, <3>6
    <2>5. ASSUME NEW root \in FolderNames \cup {NoRoot}, Now = Added(kind, addPaused, root)
          PROVE  /\ Course(Now, hist.folder[r], Telling(r)', Doing(r)')
                 /\ Awake(Now, hist.folder[r], Telling(r)', Doing(r)', Applies)
      <3>1. /\ Now.root = root /\ Now.toRoot = root /\ ~Now.renamed /\ Now.busy # "recheck"
            /\ Now.run \/ (addPaused /\ CanSelect(kind))
        BY <1>1, <2>5, AddedIs
      <3>2. hist.folder[r] = NoRoot => ~addPaused \/ Applies
        <4>1. hist.folder[r] = IF w.fold = "rename" THEN w.want ELSE NoRoot
          BY <1>1, <1>7, <2>1 DEF Courses, Aim
        <4>2. (w.fold = "rename" => w.want # NoRoot) /\ w.paused = Applies
          BY <1>1 DEF Inv, Planned
        <4> QED BY <4>1, <4>2 DEF addPaused
      <3>3. Course(Now, hist.folder[r], Telling(r)', Doing(r)')
        BY <2>2, <3>1 DEF Course, Onward, Pending, Unchecked
      <3>4. Awake(Now, hist.folder[r], Telling(r)', Doing(r)', Applies)
        BY <2>2, <3>1, <3>2 DEF Awake, Onward, Waiting, Listed
      <3> QED BY <3>3, <3>4
    <2> QED BY <1>2, <1>5, <1>7, <2>3, <2>4, <2>5 DEF Now
  <1> QED BY <1>4, <1>6, <1>7 DEF Courses

\* The client goes on by itself: a rename ends, a check ends, data arrives.
LEMMA EvolvesOnCourse ==
  ASSUME NEW t \in Torrent, NEW s, Evolves(t, s), NEW F, NEW said, NEW p, NEW applies
  PROVE  /\ Course(t, F, said, p) => Course(s, F, said, p)
         /\ Course(t, F, said, p) /\ Awake(t, F, said, p, applies) => Awake(s, F, said, p, applies)
  <1>1. /\ s.run = t.run /\ s.toRoot = t.toRoot /\ s.flag = t.flag
        /\ s.busy \in {t.busy, "no"} /\ (t.listed => s.listed)
    BY DEF Evolves
  <1>2. CASE /\ s.root = t.root /\ s.renamed = t.renamed /\ s.checked = t.checked
             /\ s.data = t.data \/ t.run
    <2>1. Course(t, F, said, p) => Course(s, F, said, p)
      BY <1>1, <1>2 DEF Course, Pending, Unchecked, Resting
    <2>2. Awake(t, F, said, p, applies) => Awake(s, F, said, p, applies)
      BY <1>1 DEF Awake
    <2> QED BY <2>1, <2>2
  <1>3. CASE /\ t.toRoot # t.root /\ s.root = t.toRoot /\ s.renamed /\ ~s.checked
             /\ s.data = t.data /\ s.busy = t.busy /\ s.listed = t.listed
    <2>1. Course(t, F, said, p) => Course(s, F, said, p)
      BY <1>1, <1>3 DEF Course, Pending, Unchecked, Resting
    <2>2. Awake(t, F, said, p, applies) => Awake(s, F, said, p, applies)
      BY <1>1 DEF Awake
    <2> QED BY <2>1, <2>2
  <1> QED BY <1>2, <1>3 DEF Evolves

LEMMA ClientCourses == ASSUME Inv, Courses, NEW q \in Releases, ClientStep(q) PROVE Courses'
  <1>1. /\ UNCHANGED <<kind, opt, left, hash, w, told, hist>>
        /\ torrents[q] \in Torrent /\ Evolves(torrents[q], torrents'[q])
        /\ \A r \in Releases \ {q} : torrents'[r] = torrents[r]
    BY ClientStepIs DEF Inv
  <1>2. Shape' /\ Aim'
    BY <1>1 DEF Courses, Shape, Aim
  <1>3. Applies' = Applies
    BY <1>1 DEF Applies, IsUpdate
  <1>4. ASSUME NEW r \in Releases PROVE Sound(r)'
    <2>1. Telling(r)' = Telling(r) /\ Doing(r)' = Doing(r) /\ Sound(r)
      BY <1>1 DEF Telling, Doing, Courses
    <2>2. CASE r # q
      BY <1>1, <1>3, <2>1, <2>2, OthersStay
    <2>3. CASE r = q
      <3>1. Steady(r)' => Steady(r)
        BY <1>1, <2>3, NoneAssumption DEF Steady, Mine
      <3>2. torrents'[r].run = torrents[r].run
        BY <1>1, <2>3 DEF Evolves
      <3> QED BY <1>1, <1>3, <2>1, <2>3, <3>1, <3>2, EvolvesOnCourse DEF Sound
    <2> QED BY <2>2, <2>3
  <1> QED BY <1>2, <1>4 DEF Courses

LEMMA UserCourses == ASSUME Inv, Courses, NEW q \in Releases, UserStep(q) PROVE Courses'
  <1>1. /\ UNCHANGED <<kind, opt, left, hash, w, told>>
        /\ \A r \in Releases \ {q} : torrents'[r] = torrents[r]
        /\ hist'.crashed = hist.crashed /\ hist'.folder = hist.folder /\ hist'.astray = hist.astray
        /\ hist'.touched = hist.touched \cup {q}
    BY UserStepIs DEF Inv
  <1>2. Shape' /\ Aim'
    BY <1>1 DEF Courses, Shape, Aim
  <1>3. Applies' = Applies
    BY <1>1 DEF Applies, IsUpdate
  <1>4. ASSUME NEW r \in Releases PROVE Sound(r)'
    <2>1. Telling(r)' = Telling(r) /\ Doing(r)' = Doing(r) /\ Sound(r)
      BY <1>1 DEF Telling, Doing, Courses
    <2>2. CASE r # q
      BY <1>1, <1>3, <2>1, <2>2, OthersStay
    <2>3. CASE r = q
      BY <1>1, <2>3 DEF Sound, Steady, Mine
    <2> QED BY <2>2, <2>3
  <1> QED BY <1>2, <1>4 DEF Courses

\* The previous version is replaced: what is left in the client is as before.
LEMMA PriorCourses ==
  ASSUME Inv, Courses, w.pc = "notify", UNCHANGED <<kind, opt, hash, told>>,
         NEW p, w' = [w EXCEPT !.prior = p],
         hist'.crashed = hist.crashed, hist'.folder = hist.folder, hist'.astray = hist.astray,
         \A r \in Releases : \/ torrents'[r] = None
                             \/ /\ torrents'[r] = torrents[r]
                                /\ r \in hist.touched => r \in hist'.touched
  PROVE  Courses'
  <1>1. /\ w'.pc = w.pc /\ w'.rel = w.rel /\ w'.note = w.note /\ w'.fold = w.fold /\ w'.want = w.want
        /\ w'.ok = w.ok /\ w'.recheck = w.recheck /\ w'.started = w.started /\ w'.paused = w.paused
    BY DEF Inv, TypeOK, Work
  <1>2. Shape'
    BY <1>1 DEF Courses, Shape
  <1>3. Aim'
    BY <1>1 DEF Courses, Aim
  <1>4. Applies' = Applies
    BY DEF Applies, IsUpdate
  <1>5. ASSUME NEW r \in Releases PROVE Sound(r)'
    <2>1. CASE torrents'[r] = None
      BY <2>1 DEF Sound, Steady, Mine
    <2>2. CASE torrents'[r] # None
      <3> SUFFICES ASSUME Steady(r)'
                   PROVE  /\ Course(torrents'[r], hist'.folder[r], Telling(r)', Doing(r)')
                          /\ Awake(torrents'[r], hist'.folder[r], Telling(r)', Doing(r)', Applies')
                          /\ hash' = r => torrents'[r].run \/ PauseTold(Telling(r)')
        BY DEF Sound
      <3>1. Sound(r) /\ Steady(r) /\ torrents'[r] = torrents[r]
        BY <2>2 DEF Courses, Steady, Mine
      <3>2. /\ Course(torrents[r], hist.folder[r], Telling(r), Doing(r))
            /\ Awake(torrents[r], hist.folder[r], Telling(r), Doing(r), Applies)
            /\ hash = r => torrents[r].run \/ PauseTold(Telling(r))
        BY <3>1 DEF Sound
      <3>3. Telling(r)' = Telling(r)
        BY <1>1 DEF Telling
      <3> DEFINE d == Doing(r)
                 e == Doing(r)'
      <3>4. /\ e.pc = d.pc /\ e.fold = d.fold /\ e.ok = d.ok
            /\ e.recheck = d.recheck /\ e.started = d.started /\ e.paused = d.paused
        BY <1>1 DEF Doing
      <3> HIDE DEF d, e
      <3>7. Course(torrents[r], hist.folder[r], Telling(r), d)
        BY <3>2 DEF d
      <3>8. Awake(torrents[r], hist.folder[r], Telling(r), d, Applies)
        BY <3>2 DEF d
      <3>5. Course(torrents[r], hist.folder[r], Telling(r), e)
        BY <3>4, <3>7 DEF Course
      <3>6. Awake(torrents[r], hist.folder[r], Telling(r), e, Applies)
        BY <3>4, <3>8 DEF Awake, Listed
      <3> QED BY <1>4, <3>1, <3>2, <3>3, <3>5, <3>6 DEF e
    <2> QED BY <2>1, <2>2
  <1> QED BY <1>2, <1>3, <1>5 DEF Courses

LEMMA RemoveCourses == ASSUME Inv, Courses, removePrevious PROVE Courses'
  <1>1. TypeOK
    BY DEF Inv
  <1>2. PICK gone \in SUBSET Removable :
          /\ hist'.touched = hist.touched \ gone
          /\ torrents' = [r \in Releases |-> IF r \in gone THEN None ELSE torrents[r]]
    BY <1>1, removePreviousIs
  <1>3. \A r \in Releases : \/ torrents'[r] = None
                            \/ /\ torrents'[r] = torrents[r]
                               /\ r \in hist.touched => r \in hist'.touched
    BY <1>2
  <1> QED BY <1>1, <1>3, removePreviousIs, PriorCourses

LEMMA PruneCourses == ASSUME Inv, Courses, pruneRows PROVE Courses'
  <1>1. TypeOK
    BY DEF Inv
  <1> QED BY <1>1, pruneRowsIs, PriorCourses

LEMMA NextCourses == ASSUME Inv, Courses, [Next]_vars PROVE Courses'
  <1>1. CASE Plan
    BY <1>1, PlanCourses
  <1>2. CASE Add
    BY <1>2, AddCourses
  <1>3. CASE Between
    BY <1>3, BetweenCourses
  <1>4. CASE Result
    BY <1>4, ResultIs, EndCourses DEF Inv
  <1>5. CASE Refused \/ Crash
    BY <1>5, EndsIs, EndCourses DEF Inv
  <1>6. CASE Publish
    BY <1>6, PublishCourses
  <1>7. CASE \E r \in Releases : ClientStep(r) \/ UserStep(r)
    BY <1>7, ClientCourses, UserCourses
  <1>8. CASE UNCHANGED vars
    BY <1>8 DEF vars, Courses, Shape, Aim, Sound, Steady, Mine, Telling, Doing, Applies, IsUpdate
  <1>9. CASE removePrevious \/ pruneRows
    BY <1>9, RemoveCourses, PruneCourses
  <1> QED BY <1>1, <1>2, <1>3, <1>4, <1>5, <1>6, <1>7, <1>8, <1>9 DEF Next, Worker, Between

LEMMA CoursesHold == Spec => [](Inv /\ Courses)
  <1>1. Init => Inv /\ Courses
    BY InitInv, InitCourses
  <1>2. Inv /\ Courses /\ [Next]_vars => (Inv /\ Courses)'
    BY NextKeepsInv, NextCourses
  <1> QED BY <1>1, <1>2, PTL DEF Spec

\* A renamed torrent that the program leaves running has its data rechecked,
\* or the user knows better: through failed renames, starts and rechecks, and
\* results discarded in between (folder_name.go:290-336).
THEOREM RenamedIsChecked == Spec => []CheckedBeforeLeft
  <1>1. Inv /\ Courses => CheckedBeforeLeft
    <2> SUFFICES ASSUME Inv, Courses, NEW r \in Releases, Steady(r), torrents[r].renamed, torrents[r].run,
                        w.rel = r => w.pc \in {"notify", "result"}, ~torrents[r].checked
                 PROVE  Said(r) \cap {"recheckFailed", "stopFailed"} # {}
      BY DEF CheckedBeforeLeft
    <2>1. Course(torrents[r], hist.folder[r], Telling(r), Doing(r))
      BY DEF Courses, Sound
    <2>2. Doing(r).pc \in {"idle", "notify", "result"}
      BY NotesOf DEF Idle
    <2>3. Warned(Telling(r))
      BY <2>1, <2>2 DEF Course, Unchecked, Resting, Onward
    <2>4. Telling(r) \subseteq Said(r)
      BY DEF Telling, Said
    <2> QED BY <2>3, <2>4 DEF Warned, Bad
  <1> QED BY <1>1, CoursesHold, PTL

\* A release recorded as delivered does not wait stopped in the client
\* without a note that says so (folder_name.go:270-288, update_policy.go:96-140).
THEOREM StoppedIsTold == Spec => []PausedIsTold
  <1>1. Inv /\ Courses => PausedIsTold
    <2> SUFFICES ASSUME Inv, Courses, NEW r \in Releases, Steady(r), hash = r, ~torrents[r].run
                 PROVE  told[r] \cap PausedNotes # {}
      BY DEF PausedIsTold
    <2>1. PauseTold(Telling(r))
      BY DEF Courses, Sound
    <2>2. Telling(r) = told[r]
      BY NotesOf DEF Courses, Shape
    <2> QED BY <2>1, <2>2 DEF PauseTold
  <1> QED BY <1>1, CoursesHold, PTL
=============================================================================
