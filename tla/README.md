# Marauder: formal models

Marauder watches torrent-tracker topics for its users. A scheduler checks every
topic on its interval; when a tracker shows a new release it is handed to the
user's torrent client, recorded, and announced. This directory models the parts
whose correctness depends on the order of things: checks that run for tens of
seconds against rows that users edit meanwhile, failures in the middle of a
delivery, sessions and mirrors that several checks share, queues with limits,
browsers that reconnect, restarts.

Contents: the inventory of the system, the modules and how they correspond to the
code, the properties, the runs with their bounds and fairness, the proofs, what is
left out, and the plan. `PROJECT.json` lists the components, the runs, the hazards
with their lines, a mutant for each property, and for each definition the source
lines it stands for.

## 1. Inventory

One backend process (a single replica) talks to PostgreSQL, to the trackers and to
the users' torrent clients; browsers talk to it over an API and an event stream.
The database survives a restart; everything else the process holds does not.

| component | state | operations | interacts with | modules |
|---|---|---|---|---|
| scheduler: dispatch (`scheduler/scheduler.go`, `spacing.go`) | `inflight` marks, `jobs` channel, one `laneQueue` per spaced tracker, spacing slots | tick: exclusion list, `DueForCheck`, `LoadOrStore`, queue; goroutines; wind-down | topics table | `Dispatch`, `Spacing` |
| scheduler: one check (`runCheck`) | the row read at dispatch, pending episodes, prior deliveries | check, download, submit, mark, replace, record; notify-only | plugins, tables, bus | `TopicCheck`, `TopicLive` |
| delivery policy (`update_policy.go`, `folder_name.go`) | the plan of one delivery | add paused, choose files, rename the folder, start, recheck | clients, deliveries table | `Delivery`, `Handover` |
| topics table (`db/repo/topics.go`) | check state, status, settings, `extra` | one SQL statement per operation, several guarded by the check-state token | scheduler, API, import | `TopicRow`, `Import` |
| deliveries table (`db/repo/deliveries.go`) | torrents per topic, files, completion | record, list, prune, complete | scheduler, reset, watcher | `TopicCheck`, `Delivery`, `Feed` |
| topic API handlers (`api/handlers/topics.go`) | | create, edit, delete, pause, resume, recheck, reset | tables, clients | `TopicCheck`, `Import` |
| torrent clients (`plugins/clients`) | torrents (external) | add, remove, select files, rename, start, recheck | | `TorrentClient` |
| trackers (`plugins/trackers`) | cookie jars | `Login`, `Verify`, `Check`, `Download` | the sites | `TrackerSite` |
| sessions (`trackercreds`, `captchalogin`, credential handlers) | one slot per account: holder, owner, last outcome; pending captchas; the credential row | ensure, establish, warm, begin and complete a login, edit, expire | scheduler, trackers | `Sessions` |
| mirrors (`domains/store.go`) | active and custom domains (cache and table), failure window | resolve, set, report a failure and rotate | trackers, settings API | `Domains` |
| authentication (`auth`, `handlers/auth.go`, the browser's `lib/api.ts`) | refresh-token rows; a tab's pair | sign in, refresh (rotate, detect reuse), sign out | API | `SignIn` |
| Sonarr import (`sonarr`) | cursor per instance | poll, process records, advance the cursor | Sonarr, topics table | `Import` |
| events (`events`, `sse`, the browser's `useEventStream.ts`) | event rows, subscribers' queues, tickets | record, notify, publish, replay | everything | `Feed` |
| progress watcher (`progress`) | last progress seen | poll clients, complete, announce | clients, deliveries, bus | `Feed` |
| retention, audit, metrics, config | append-only rows | prune, append | | (pruning in `Feed`) |

**What is hard here, and what makes each component correct.**

* *Dispatch.* The same topic may be selected again while it waits; selection takes
  a bounded window of the oldest due rows; queues are bounded or deliberately not.
  A topic is to be in one place at a time, none parked or starved, and shutdown
  ends.
* *Check.* A check writes its result into a row that may have been reset,
  rechecked, edited, paused or deleted since it was read. `last_hash` may never run
  ahead of what was delivered or announced, a stale check changes nothing, the user
  always has a copy, no episode is both absent and marked.
* *Delivery policy.* Up to nine calls to a client that is itself asynchronous, any
  of which fails or is cut off by a restart, then a retry over the remains. No file
  of an earlier version may download again, no file be skipped in all versions, also
  where the previous version is replaced, and no torrent be left stopped, or renamed
  and unchecked, behind the user's back.
* *Sessions.* Checks, edits, tests and interactive logins share one cookie jar. A
  check must act as its own account, one login must serve all who wait, and one
  caller's deadline or dead session must not become everybody's.
* *Mirrors.* The cache and the row are written one after the other by two kinds of
  writers; requests sent to the old domain fail after a rotation, and a check may run
  across several.
* *Authentication.* A refresh token buys one successor; presenting a used one signs
  the user out everywhere, so concurrent requests must never do that.
* *Import.* The cursor moves after the batch; crashes repeat it, late records and
  mirrors of one page arrive in between, and the poller writes rows users edit.
* *Events.* Bounded queues that drop, a replay that overlaps the live stream,
  connections that break. A page must get what it may still expect; a completion is
  announced once.

## 2. Modules

| module | what it is |
|---|---|
| `TopicRow` | one row of the topics table and what each SQL statement of `topics.go` makes of it |
| `TopicCheck` | one topic: dispatcher, worker (`runCheck`), API handlers, failures, crashes |
| `TopicLive` | `TopicCheck` under a finite budget of disturbances, with fairness |
| `Dispatch` | all topics: the selection window, the channel, the lanes, the goroutines, shutdown |
| `Spacing` | one lane under a clock: reserving, sleeping, claiming a start |
| `TorrentClient` | what five torrent clients make of the calls of the delivery path |
| `Delivery` | the deliveries of a topic, call by call, over `TorrentClient` |
| `Handover` | the abstract promise of deliveries, which `Delivery` implements |
| `TrackerSite` | what fourteen tracker plugins make of a site's answers |
| `Sessions` | one tracker account: the credential, the shared jar, the slot, the checks that use them, over `TrackerSite` |
| `Domains` | the domains of one tracker: cache, row, rotation |
| `Import` | Sonarr's grabs, the poller, and the topics it shares with their owner |
| `Feed` | emitters, history, hub, stream, page, progress watcher |
| `SignIn` | token pairs on the server and in the tabs of a browser |
| `MC...` | the small instances, one per run's component |
| `...Proofs` | theorems, checked by TLAPS |

Common to all of them: one database statement, client call or tracker call is one
step, because anything may come between two of them, and each has its failing
twin that takes the code's error branch. Data are model values and small numbers: a
release is its number, a session its id, a change token the set of page cells it is
computed from. A variable or field called a ghost or history is read by properties
only.

### TopicRow

A row has `checked` (`last_checked_at`), `next` (`next_check_at`), `hash`
(`last_hash`), `done` (`extra.downloaded_episodes`), `status`, `failing`
(`consecutive_errors > 0`) and `mode` (`replace_on_update`, `notify_only`). The pair
`(checked, next)` is the token every guarded statement compares (`Matches`).
Statements compare stamps for equality only, so stamps are an unordered set and
`now()` yields one that no row or snapshot in use holds. That assumes, as
`topics.go` does, that two writes never share a microsecond. `RecordCheckResult`
writes two different times (now, and now plus the delay): they are one fresh stamp
here, because no other statement can produce either of the pair. Whether
`next_check_at` has passed is the separate variable `due`.

A hash is abstract: what matters is when it changes. For a single-release tracker
it is the number of the newest release; for LostFilm it is the triple
`eps/done/pending` the plugin formats, because marking an episode changes it.

### TopicCheck

| variable | in the code |
|---|---|
| `row`, `rows` | the topic's row; its infohashes in `topic_deliveries` |
| `due` | `next_check_at <= now()` |
| `published` | what the tracker lists |
| `disp` | `dispatchOnce`: exclusion list read, rows returned |
| `inflight`, `job` | the mark in `Scheduler.inflight`; the snapshot in the channel or lane |
| `w` | `runCheck`: program point, snapshot `t`, `check`, `pending_episodes`, `priorDeliveries`, `deliveredHashes` |
| `torrents` | the topic's torrents in the client |
| `client` | whether the client takes a torrent it has once more, or raises as Deluge does (`deluge.go:110-123`) |
| `reset`, `edit` | the `Reset` handler; the row `Update` read |
| `hist` | history (`seen` also remembers what was only announced) |

`w.pc` names the call that comes next:

    turn -> check -> found -> download -> verify -> add -> log -> [mark -> download ...]
                  -> announce -> see                               -> replace -> prune -> record -> done

Three details carry the properties. A refused `VerifyCheckState` and a refused
episode mark end the loop *without* error, so control still reaches
`RecordCheckResult`; its own guard is then what protects the row. `FailCheck`
records the old hash. `Release` (`inflight.Delete`) comes only after `runCheck`
returned. A snapshot carries `overtaken`, a history bit that a completed reset sets,
so the properties can speak of stale checks without looking at the token.

A call that reports an error may have taken effect all the same (a timeout, a
lost reply): a failing `Add`, removal or episode mark changes the client or the row,
or leaves it alone. A client that raises for a duplicate refuses every retry of such
an `Add`, and the check fails (`FailCheck`).

When the reply of `MarkEpisodesDownloaded` is lost, the episodes
are recorded and their release is not announced, then or later: the code announces
at most once, and `AdvanceIsVisible` asks for no more.

`Crash` empties everything in memory. It also stands for an ordinary shutdown:
`main` cancels the context but does not wait for `Scheduler.Start`
(`cmd/server/main.go:260,358`), so a check can be cut off anywhere.

### Dispatch

Takes one check as a black box and models everything around it: the topics due,
oldest first (`due`); `inflightIDs`, whose `sync.Map.Range` is not a snapshot (a mark
taken back meanwhile is in the list or not); `DueForCheck` with its `LIMIT`; one step
per topic of the batch; the channel's capacity; lanes, whose goroutines start on
first use; `Start` closing the queues and waiting for all goroutines. A closed
channel is served until empty, a closed lane is not. With the channel full or the
context cancelled the Go `select` in `dispatchOnce` may take any ready branch, hence
the overlapping guards of `Store` and `QueueFull`.

### Spacing

`Dispatch` and `TopicCheck` let a lane's check start when it likes; this module says
when. Each goroutine goes through `awaitCheckTurn`: `reserve` a slot, sleep for it,
re-read the topic, `claim` the start, and sleep and claim again while it is refused.
Instants are kept relative to now (`ahead = next - now`, `since = now - started`,
`wait` = what is left of a sleep), cut off where the code stops telling them apart, so
the model is finite without a horizon and one `Tick` serves all. A timer never fires
early; a goroutine may be held up anywhere for any time. `quiet` is history: it
measures the gap between checks where they start, not where `claim` notes it. One
tracker is modelled, since the maps of `checkSpacer` are keyed by tracker and lanes
share nothing else.

### TorrentClient and Delivery

`TorrentClient` says what qBittorrent, Transmission, Deluge, uTorrent and the
download folder make of `Add`, `SkipFiles`, `Start`, `Stop`, `DiskState`,
`RenameRoot` and `Recheck`, as far as they differ: qBittorrent answers before it has
the torrent, loses a start while it checks and moves files after it accepted a
rename; Deluge raises for a duplicate and ends a recheck in the state its cached
flag says; the last two can neither select nor rename. The services themselves are
external; the operators are the plugins' code and what it relies on.

`Delivery` is `sendViaClient` from the plan to the notification, one delivery after
another of a topic:

| variable | in the code |
|---|---|
| `kind`, `opt`, `form` | the topic's client, its update policy and folder mode, the payload of each release |
| `latest`, `hash` | the tracker's release; `last_hash` |
| `rows` | `topic_deliveries`: release and file list, `Unknown` for NULL |
| `seen` | `folder_name_seen` |
| `torrents` | the client |
| `left` | external: what a version that was removed without its data left on the disk |
| `w` | the worker: program point, `deliveryPlan`, `folderPlan`, `priorDeliveries`, outcome so far, note |
| `told`, `hist` | history: the notes sent; the files each torrent is to hold back and the folder it is to get; which deliveries died, which torrents the user touched, which retries went astray |

    add -> record -> [list -> root -> stopped -> rename -> confirm] -> [wait -> skip -> start -> store]
        -> finish -> [startRenamed -> running -> recheck -> stop]
        -> [removePrevious -> pruneRows] -> notify -> result

The settings include `replace_on_update`, without or with the data of the previous
version (`replace`: "keep", "delete"), as far as the API admits it
(`ValidUpdatePolicy`: data is deleted neither beside `only_new_files` nor where two
versions may share a folder). The rows
read before the delivery, but the delivered version's own, are what it supersedes
(`w.prior`): their torrents are removed, by the clients that can (`CanRemove`), and
after a removal that succeeded their rows are pruned; a removal that fails may have
removed some of them, and their rows stay.

`Plan` reads the baseline from the table and the live folder from the client, either
of which may fail. A call has three outcomes: done, refused, or done with the answer
lost. Between any two steps the client goes on by itself (`ClientStep`), the process
may die (`Crash`), and the user may start or stop the torrent (`UserStep`); a release
that was cut off is planned again over what the last attempt left. `Result` may be
discarded, as in `TopicCheck`.

What a torrent is to hold back (`HeldBack`) is what it shares with the newest other
version in the table, whether that row's file list is known or not: a failed read of
the list, or a row that never got one, must not let an old file download. A retry
plans afresh from reads that may fail, and so may not go on with the rename its first
attempt planned, or may skip the look whether a renamed torrent still needs its
recheck; `hist.astray` names the releases this happened to, and the two promises
about renamed torrents and silent stops (`Steady`) are not about them.

`Handover` is the abstract specification: torrents that enter the client stopped
when they hold files back, are started only with those files skipped, and skip a
file only where another version wants it. Versions may be taken out of the client,
with their data only where no version holds a file back; a version removed without
its data leaves the files it wanted (`left`) and still counts as one that wants them
(`WantedElsewhere`). `Delivery` implements it under the
refinement mapping `InClient` (what the client holds, the files each torrent skips and
is to hold back, whether the user took over, what was left on the disk); the run *delivery* checks
`Implements == Promise!Spec` on every step.

### TrackerSite and Sessions

`TrackerSite` holds what fourteen plugins make of a site's answer: the outcome of a
login and the jar afterwards (`...Login`), the probe of a session (`Verify`), the
cells that go into the change token (`...Token`), and what a download hands over
(`...Payload`, `Handed`). A page is whether it was asked for as a member, the cells
it shows, and what they say. What the cells say is `Content`: a release that replaces
a torrent may keep its id, its name and its size and move only the registration date,
as `toloka.go:355-358` and `tapochek.go:656` describe. Six plugins (`Unchecked`) hand
over any body of a download; the plain-file plugin also takes its token from any body
a 200 carries, an error page's included (`ErrorPageToken`).

`Sessions` is one user's account on one tracker:

| variable | in the code |
|---|---|
| `env` | the plugin and the disturbances of a scenario |
| `site` | external: whose each session is, which are live, the current release |
| `jar` | the session in the plugin's shared jar of the user |
| `row` | the `tracker_credentials` row: account, password, `session_enc`, `session_expired_at` |
| `slot` | `sessionSlot`: holder, `owner` fingerprint, `last` outcome, and who may inherit it |
| `proc` | workers and the user's request: program point, credential read, deadline, token |
| `pend` | the pending captcha challenge |
| `topic` | each worker's topic: token and release recorded, releases delivered |
| `away` | history: checks under way in whose jar another account has signed in since they were told their session is live |

`acquire` is the slot: a check inherits the outcome it waited for, probes a session
of its own credential, or logs in; the requests that validate a credential always
log in. `restoreSession` puts a stored cookie in the shared jar before it is probed.
`Settle` publishes the outcome. `MarkSessionExpired` is the conditional UPDATE.
`Create`, `Update`, `Test`, `Warm`, `Rename`, `Delete`, `Begin...` and `Complete...`
are the handlers; interactive logins use a session of their own and neither the slot
nor the jar. `Check`, `FetchTopicPage` and `Download` go on with whatever the jar is
by then, since the session can die between them, or another request sign in over
it (`tapochek.go:342`). The site ends sessions (`Kill`),
publishes, and changes its template (`Drift`, `Noise`); the plugin forgets a jar
after its two hours (`Forget`); the program restarts.

### Domains

`cache` and `row` are `Store.cfg` and the `tracker_settings` row; `fails` and
`cooling` the failure window and `lastRotate`, in ticks since; `lock` is
`persistMu`. A check, with its downloads, is a sequence of requests, each built
against the domain in use at that moment (`Request`; `lostfilm_redirector.go:137`), answered
(`Answered`) or failed; `ReportFailure`, called where a request ended the check or a download,
counts, ignores or rotates, all in the cache; the rotation is persisted in two later steps
(`Reread`, `Persist`). `SetRow` and `SetCache` are the administrator's `Set`: row
first, then cache. A statement that fails may have been committed. `Restart` runs
`Load`, maybe as a release of the program with other known domains. `by`, `blamed`
and `dirty` are history.

### Import

`grabs` is Sonarr's history, `inst` the instance's row with its cursor, `topics` the
owner's topic of each canonical page, `poll` the poller's locals, `edit` a `PUT`
between its read and its write. One poll is `Tick`, `Stamp` (first poll) or `Fetch`,
then per record `Skip`, `Lookup` and `BuildAndCreate` or `HandleExisting`, then
`Advance`. `Grab` may give a record the date of the one before it, since a season
pack is recorded once per episode, and names the info hash or not (`Gives`).
`HandleExisting` merges the variant into the topic's key by key, as
`mergeSonarrTopicExtra` does (`Merged`): a key the grab does not give stays.

`Inserted` is the one INSERT both the poller and
`POST /topics` reach. `Update` is `repo.Topics.Update`, which leaves the folder column
alone when it is not asked to write it. `owed`, `outcome` and `torn` are history.
`OldestFirst` is the poller's sort of the records by date, by a definition of its own.

### Feed

An emission is `Record` (the INSERT), `Notify`, `Publish` (copy the subscribers) and
`Send`, so emissions of several goroutines interleave. `conn` is the handler of the
open stream: subscribed first, then `ListSince`, `Replay`, `GoLive`, `LiveFrame`;
`tab`, `last` and `seen` are the page with its `lastEventId`. The watcher's `Poll`
lists the rows in flight that are no older than 30 days (`Age`) and asks their client
once; a client that cannot be asked, because it reports no status, is gone or cannot
be decrypted (`able`, `LoseClient`), is skipped, and a list or a client call may fail
(`PollFails`). `CheckOne` marks and announces, or reports progress. Rows are submitted
and removed by others meanwhile. `ListInFlight`'s guard on `client_id` has no
counterpart: every row the scheduler writes has one, and there is no foreign key to
clear it. `lossy`
collects the five ways the code loses a frame for good, each set where it happens:
`full` (a full queue drops it), `truncated` (more to replay than the limit),
`unlisted` (the replay query failed), `overtook` (an emission that recorded later is
published first, and the page reconnects after the later id), `unnumbered` (an INSERT
that committed lost its answer: the frame goes out without an id, which the page
cannot reconnect after).

### SignIn

A pair of tokens is its number. The server keeps `revoked`; a refresh reads the token
(`RefreshRead`) and rotates it in a later transaction (`Rotate`) that does not look at
`revoked_at` again. A tab keeps its pair in memory (`mem`) and in the browser's
`localStorage` (`store`), which it reads only when it is loaded. Its requests meet a
401 each and share one refresh (`fly`); `strays` are refreshes the server still works
on though the tab has gone. `out` is a sign-out. `spoilt` records the three things the
clients do that rotation does not survive.

## 3. Properties

| property | statement | run |
|---|---|---|
| `OneCheckAtATime` | the inflight mark covers a topic from dispatch to the return of `runCheck`; it is never queued while it is checked | replace |
| `StaleCheckNeverWrites` | no step of a check changes the row once a reset has completed since the check read it | replace |
| `NoSubmissionAfterReset` | an answered `VerifyCheckState` never lets such a check submit | replace |
| `HashMeansDelivered` | `last_hash` moves only when the check delivered, only notifies, or had no episode pending | replace |
| `CopyKept` | replace-on-update never leaves the user without a copy | replace |
| `AdvanceIsVisible` | when `last_hash` moves, the user was told or received it, or it was the silent first look | episodes |
| `NoStrandedEpisode` | no episode is marked downloaded while its torrent is gone | episodes |
| `NoDoubleMark` | an episode is never appended twice | episodes |
| `EventuallyDelivered` | the published release ends up in the client and stays (but an episode behind one that Deluge holds unrecorded) | settles |
| `DueIsChecked` | a due topic is checked or stops being due | settles |
| `ErrorsClear` | an error clears by itself, unless the client raises for a torrent it holds and the next check wants that one | settles |
| `StartsApart` | two checks of a spaced tracker start at least the spacing apart, however late goroutines are | spacing |
| `TurnsInOrder` | reserved slots keep their distance and each slot to come is slept for, so lost slots do not pile up | spacing |
| `SomeoneStarts` | refused claims do not keep one another from starting | spacing |
| `HandledOnce` | a marked topic is in exactly one queue or goroutine, and nothing else is marked | dispatch |
| `OthersAreChecked` | a stalled lane does not keep other trackers' topics from being checked | dispatch |
| `Drains` | once the context ends, `Start` returns | dispatch |
| `Implements` | every step of a delivery is one `Handover` allows: no old file downloads, no file is skipped everywhere, whatever versions are replaced | delivery |
| `RenamesOnlyEmpty` | a rename moves only a stopped torrent without data | delivery |
| `CheckedBeforeLeft` | a renamed torrent is left running only after a recheck, or the user was told | delivery |
| `PausedIsTold` | the recorded release never waits in the client behind a plain "sent" note | delivery |
| `SignedInAsOwner` | from the moment a check is told that its session is live until it ends, the jar it reads with is its own account's or a guest's, unless another account signed in meanwhile (`away`) | sessions |
| `NoNeedlessLogin` | while nothing happened to the session of a credential, no check with it logs in again (AniDub, whose probe proves nothing, and Kinozal with a wrong password, whose refusal may pass for a sign-in, cannot promise it) | sessions |
| `OwnDeadlineOnly` | nobody inherits an attempt that another caller's deadline cut short | sessions |
| `ExpiryToldOnce` | however many checks meet a dead session, the user is told once | sessions |
| `TokenIsTheRelease` | the change token moves exactly when the tracker published, also where only the registration date moved; a plain file's error page and, under one id, the three plugins that go by the id are named | sessions |
| `RecordedIsDelivered` | a recorded token stands for a release the client got; only the six unchecked plugins ever hand over a web page | sessions |
| `ConfigSurvives` | when no write is under way, a restart brings back the domains in use | domains |
| `WorkingMirrorStays` | only failures of requests sent to a domain count towards leaving it, unless an administrator chose it or a request took a whole cooldown to fail | domains |
| `PassedIsHandled` | the cursor never passes a grab that was neither skipped, applied nor given up on, itself or by a newer grab of its URL | import |
| `NewestVariant` | title and info hash of a topic are each those of the newest grab of its page that gives one, over mirrors and repeated batches, unless a newer one came to nothing | import |
| `FolderIsTheUsers` | the poller never writes back a folder setting it read before the owner's edit | import |
| `EventuallyImported` | every grab owed is handled in the end while the instance is enabled | import |
| `NothingMissed` | an event newer than the page's first is on the page, on its way, or still replayed, unless one of the five losses occurred | feed |
| `AnnouncedOnce` | a completion is announced at most once per delivery row, and only if the row was completed | feed |
| `FinishedIsMarked` | a row whose torrent is finished is marked or removed in the end, unless it grows older than 30 days or its client cannot be asked | feed |
| `EveryEventArrives` | such an event reaches the page in the end, over any reconnects | feed |
| `StaysSignedIn` | rotation never presents a revoked token, leaves a signed-in tab at rest a live one, and a sign-in at most one (a tab whose refresh failed has signed itself out, `api.ts:105`) | signin |
| `RequestsEnd` | no request waits for a refresh that is over | signin |
| `PausedStaysPaused` | a paused topic stays paused until it is resumed (violated, see section 4) | pause |

Each property of a passing run is violated by a plausible bug in the code it is
about. Some of these bugs are operators marked `Mutant:` in the modules, the others
are variants of a definition that are used elsewhere in the model
(`PROJECT.json`, "mutants").

## 4. Runs

| run | instance | distinct states |
|---|---|---|
| replace | 2 releases, replace policy, shared worker; reset, recheck, pause, edit; a client that takes duplicates | 1.9 M |
| episodes | 2 episodes, lane, notify-only or not, one episode per tick; reset, recheck, delete, crash; a client of either kind | 1.5 M |
| settles | 2 releases, replace policy, 3 disturbances; reset, recheck, pause, crash; a client of either kind | 0.5 M |
| dispatch | 1 spaced and 2 shared topics, 1 worker (and 1 per lane), window and channel of 1, 1 lost result | 0.05 M |
| spacing | 3 goroutines, a spacing of 3 units | 0.02 M |
| delivery | 3 releases, 11 scenarios over the 5 clients, 2 faults | 2.8 M |
| sessions | 2 workers and the user, 2 accounts, 3 sessions, 3 releases, 3 disturbances, 22 scenarios over all plugins | 2.2 M |
| feed | 1 worker and the watcher, 2 deliveries of one torrent, queue and replay of 1, 2 faults | 0.7 M |
| import | 2 mirrors of a page, 3 grabs, 3 operations, 1 fault | 0.8 M |
| signin | 2 tabs of one browser, 3 requests, 2 pairs, 1 fault | 0.5 M |
| domains | 3 workers, 3 hosts, 2 builds, 3 settings to save, 3 operations, 1 fault | 0.8 M |
| pause | as small as the disagreement allows | |

### Bounds

*replace, episodes, settles.* `Stamps`: at most three snapshots and the row hold
stamps, each snapshot needs one to differ from the row's, so four are enough for a
fresh one to exist whenever a statement needs it, with the two columns of the token
sharing stamps. Stamps are symmetric (only equality looks at them); the run with
liveness does not use the symmetry. `MaxRelease = 2`: one release to deliver and a
second that replaces it, or that arrives in the middle of the first's check.
Infohashes are one per release. `MaxPerTick = 1` makes the cap on episodes per tick
bite with two episodes. `Ops` is the set of handlers and crashes an instance allows:
those that write different columns are split over two runs to keep each exhaustive.
There is no bound on the number of failures, requests or restarts in the safety runs.
`Clients` says which kinds of client an instance has. *replace* has one that takes
duplicates: the other refuses some `Add`s, and a refused `Add` is one of the outcomes
every `Add` of the run has.

*dispatch.* `Slots = 1` makes both limits (window and channel) bite: one waiting topic
of the lane fills the window, one queued topic the channel. It is not a value
`workers * 4` takes, but the code depends on it only as a bound, and one is its
tightest. *spacing.* Three goroutines give a queue of slots with one in front of and
one behind any other.

*delivery.* Three releases, each with the files of the one before and one more, give
an update whose own predecessor was an update; file `c` is new only in the third.
Two faults allow a crash, or a failed call, and a failure of the retry. A scenario is
a client, settings and the forms of the payloads; the eleven cover each client, both
policies, the three folder modes, replacement with and without the data, and the
payloads whose file list is unknown. A twelfth, that would delete data beside
`only_new_files`, is there for the API to refuse.
`Faults` holds every kind of fault; a failed INSERT or UPDATE of a delivery row is
one of them.

*sessions.* Two workers and the user's request are enough for one to hold the slot,
one to inherit and one to interfere. Two accounts make an edit; three sessions let
an old, a current and an interactive one coexist, and ids that nobody refers to are
used again. Three disturbances, drawn from the scenario's set: two of them (an edit
and a dead session, say) and a third that hits the recovery. The scenarios about
pages use one worker and three releases, the second of which keeps id, name and size, so
that only the registration date moves.

*feed.* `Buffer = Limit = 1` makes both limits bite with three history rows: one of
the worker, one of each completion. Two faults: a broken connection and what breaks
its recovery. *import.* Three grabs over two mirrors of a page: an older, a newer and
one that arrives while they are processed. *signin.* Two pairs allow one rotation and
one more sign-in, or one rotation whose answer is lost; three requests, two in one
tab, share a refresh. *domains.* Two failures rotate (the code's threshold), the third
worker fails late. `Cooldown = 2` and `RequestTime = 2` let a request take as long as the
cooldown, which `WorkingMirrorStays` excepts by name. In the code the cooldown is ten
minutes (`store.go:25`) and a call's deadline 30 seconds plus five (`scheduler.go:459`);
only a configured tracker timeout of ten minutes gets there. A check or a download
loop of 25 episodes may well take longer than the cooldown, and does here: it is a
sequence of requests, of any length.

Deadlock is not checked where every bounded resource may be used up and nothing is
left to do (delivery, feed, import, signin).

### Fairness

*settles*: the ticker fires again and again (`Dispatch`), goroutines are scheduled
(`Work`), handlers return (`Finish`), time passes (`ComeDue`). No fairness on users,
failures, crashes or the tracker; these come from `MaxBudget`, so that a behaviour
settles.

*dispatch*: weak fairness of `dispatchOnce`, of each shared worker and of `Return`;
strong fairness of `Stop`, because a `select` with both the ticker and `ctx.Done`
ready chooses at random and will not always prefer the ticker; a lane's goroutine is
fair only once the context is cancelled, when its sleeps and requests return: before
that `OthersAreChecked` must hold even if a tracker stalls its lane for good. Lost
results are bounded by `MaxLosses`, since a window full of topics whose results are
never stored would starve the rest.

*spacing*: time passes and goroutines that wait for a turn are scheduled; a check may
hang. `SomeoneStarts` promises nothing to a particular goroutine: several may ask for
the same instant, and the code leaves it to chance which of them is refused.

*feed*: an emission that began goes on (a goroutine with timeouts on its calls), the
page's reconnect timer fires, the stream's handler runs, the watcher ticks. *import*:
the ticker fires and the poll's goroutine runs; every call it makes has a timeout.
*signin*: the server answers what reached it and the tab's event loop runs. In all
three, faults, emissions, downloads and what people do are nobody's duty, and faults
are bounded: a connection that breaks for ever, or a statement that always fails,
defeats any retry.

### What the violation run shows

*pause*: `UpdateStatus` does not move the check-state token, so the result of a check
that was running when the user paused still matches and its `CASE` writes `active` or
`error`: the pause is lost (`topics.go:245`).

### Differences between the code and its comments, met while modelling

These are read off the code and the models; no run is kept for them.

* Topics. `PUT /topics/{id}` writes the whole `extra` it read (`topics.go:621`); a
  reset that completes in between loses its effect on `downloaded_episodes`, and
  episodes whose torrents it removed are not fetched again. `topics.go:195` says
  exactly two statements write the token's columns, but `QueueRecheck` and `Update`
  write `next_check_at` too. `scheduler.go:271` and `387` expect a topic to be
  dispatched again just after its worker released it; the exclusion list is read
  before the query, and `OneCheckAtATime` shows that `LoadOrStore` never finds a mark. Deluge raises for
  a torrent it has (`deluge.go:110-123`): where the reply to an `Add` was lost, the
  process died before the result was stored, or the result was discarded, every later
  check of that release fails and the topic stays in error, and on LostFilm such an
  episode blocks those after it. `ErrorsClear` and `EventuallyDelivered` name it
  (`Refused`).
* Scheduler. `endRun` is deferred in `dispatchOnce` (`scheduler.go:264`), so a run's
  summary closes when its topics are queued, and a check that finishes later is
  counted in no run (`scheduler.go:345`). `Start` says it drains in-flight work;
  `main` does not wait for it.
* Delivery. A failed `Record` is logged and swallowed (`scheduler.go:1195`). The next
  update then compares with an older delivery, and files of the unrecorded version
  download again, against `update_policy.go:18-22`; the properties speak of the
  versions in the table. The comment that the update
  policy runs even when the rename failed (`update_policy.go:222`) holds from the rename
  on: when the files cannot be listed for it, the policy does not run. A start that
  is sent while a recheck of an earlier, dead attempt runs is lost on qBittorrent, and
  a process that dies between start and recheck leaves data unchecked. A retry whose
  client cannot be asked for its files plans without the folder of the first attempt
  (`folder_name.go:162-191`), and one that cannot read the state of a torrent renamed
  before its recheck leaves it unchecked (`folder_name.go:205-214`). All four are named
  as exceptions in the properties (`Steady`). `only_new_files` may be combined with
  replacing the previous version, its data kept (`topics/policy.go:27-37`): a file the
  new version skips is then the one the old version left on the disk, and where the
  old version had not finished downloading it, nobody will. `Handover` promises that
  the file was wanted, not that it is complete.
* Sessions. An edit of the account keeps `session_enc`, the session stored for the old
  account, and a later check restores it (`rutracker.go:331-357`): RuTracker is
  outside `SignedInAsOwner`, and so is Kinozal, which accepts a wrong password posted
  on a jar that is signed in. `persistSession`'s upsert keeps the row's user name and
  password when the session is another account's. A picture whose refresh failed
  leaves the old picture beside a new challenge. A `MarkSessionExpired` of a check that began before a
  re-authentication marks the new session. Kinozal and AniDub hand over whatever
  their download link answers; Toloka, AniDub and Torznab tokens move with the
  template. The properties name the plugins they leave out. A check that was told its
  session is live reads on in whatever session an edit, a test or a check with an
  older credential puts into the shared jar meanwhile (`tapochek.go:342`), which is
  the exception `away`. Besides Kinozal and AniDub, newznab, torznab, AniLiberty and
  the plain-file plugin hand any 200 body to the client (`newznab.go:151-158`,
  `torznab.go:170-177`, `anilibria.go:210-218`, `generictorrentfile.go:75-85`); the last
  also takes an error page's hash for a new version. AniDub, AniLiberty and newznab go
  by the id and miss a torrent that was replaced under it.
* Mirrors. `Set` does not start the failure count again, so a failure of the previous
  domain may count against the one an administrator just chose. If the rows cannot be
  read at start, the store runs on defaults and a rotation then overwrites the
  administrator's mirrors. A tracker with a single topic and an interval above the
  window never rotates.
* Import. `repo.Topics.Update` writes the flags and the blob of the row its caller
  read; only the folder column is protected, and an edit that lands between the
  poller's read and write loses its other flags (`topics/policy.go:17-27`). A grab
  whose lookup or creation fails is passed over (`poller.go:153-155`). A window that is
  processed again, because the cursor could not be stored, sets a topic back to the
  older release and then forward to the newer one; when the newer grab is lost to such
  a failure the second time, the topic stays on the older release. It takes two faults,
  and `NewestVariant` names it. A record with the date of one already read is never
  returned. `mergeSonarrTopicExtra` skips empty fields (`poller.go:385-408`): a newer grab
  that comes without an info hash leaves the older one beside the new title, and since
  AniLiberty looks for the hash first (`aniliberty.go:205-213`) the topic goes on with
  the older variant, though the comment at `processRecords` says the newest grab
  becomes the monitored one. `NewestVariant` is stated key by key.
* Authentication. Two tabs that loaded one pair do not share a refresh: the second
  presents a revoked token and every session of the user ends, though
  `docs/PRD.md` (US-AUTH-3) promises a refresh that forces nobody to log in again. A reload in the middle of a
  refresh and a sign-out that races one have the same effect. `StaysSignedIn` leaves
  these three out by name (`spoilt`).
* Events. The five losses named in `Feed`. A row that is older than 30 days, or whose
  client cannot be asked, is never marked completed (`deliveries.go:242-254`,
  `watcher.go:160-195`). History ids are taken in serial order but
  committed in any; the model takes the two to be one.

## 5. Proofs

TLC checks the instances above; the theorems below hold for every value of the
constants. They rest on the named assumptions of the modules (`...Assumption`),
which say that `None` and its like are none of the values they stand beside, that
bounds are positive, and what the functions given as constants map to what.
`ContentAssumption` of `Sessions` is the only one about the outside world: some cell of
a tracker's page, be it the registration date alone, differs between two releases. TLC
evaluates them on every run.

| module | theorem | result |
|---|---|---|
| `TopicCheckProofs` | `TypeCorrect` | `Spec => []TypeOK` |
| | `ChecksExclude` | `Spec => []OneCheckAtATime` |
| | `StaleWritesNothing` | `Spec => StaleCheckNeverWrites` |
| | `NothingSubmittedAfterReset` | `Spec => NoSubmissionAfterReset` |
| | `HashIsDelivered` | `Spec => HashMeansDelivered` |
| | `AdvancesAreVisible` | `Spec => AdvanceIsVisible` |
| | `ACopyIsKept` | `Spec => []CopyKept` |
| | `NothingStranded` | `Spec => []NoStrandedEpisode` |
| | `MarkedOnce` | `Spec => NoDoubleMark` |
| `DispatchProofs` | `OneHandler` | `Spec => []HandledOnce` |
| | `ChecksStartApart` | `LaneSpec => StartsApart`, of `Spacing` |
| | `SlotsInOrder` | `LaneSpec => []TurnsInOrder`, of `Spacing` |
| `DeliveryProofs` | `TypeCorrect` | `Spec => []TypeOK` |
| | `DeliveryImplements` | `Spec => Implements`, the refinement of `Handover` |
| | `OnlyEmptyIsRenamed` | `Spec => RenamesOnlyEmpty` |
| | `RenamedIsChecked` | `Spec => []CheckedBeforeLeft` |
| | `StoppedIsTold` | `Spec => []PausedIsTold` |
| | `OldFilesNeverDownload` | `Promise!Spec => []Promise!OldFilesStay`, of `Handover` |
| | `EveryFileWantedSomewhere` | `Promise!Spec => []Promise!NoFileLost`, of `Handover` |
| | `UpdatesHoldOldFiles` | `Spec => []OldFilesStay` |
| | `NoDeliveryLosesFiles` | `Spec => []Promise!NoFileLost` |
| `DomainsProofs` | `TableFollowsCache` | `Spec => []ConfigSurvives` |
| | `RingDoesNotSpin` | `Spec => WorkingMirrorStays` |
| `SignInProofs` | `NobodySignedOut` | `Spec => []StaysSignedIn` |
| `SessionsProofs` | `JarIsRight` | `Spec => []SignedInAsOwner` |
| | `ToldOnce` | `Spec => []ExpiryToldOnce` |
| | `DeadlineIsOwn` | `Spec => []OwnDeadlineOnly` |
| | `OneSignIn` | `Spec => NoNeedlessLogin` |
| | `RecordedWasGiven` | `Spec => []RecordedIsDelivered` |
| | `TokenMovesWithRelease` | `Spec => TokenIsTheRelease` |
| `FeedProofs` | `OneAnnouncement` | `Spec => []AnnouncedOnce` |
| | `NothingIsMissed` | `Spec => []NothingMissed` |
| `ImportProofs` | `TypeCorrect` | `Spec => []TypeOK` |
| | `NothingIsPassedOver` | `Spec => []PassedIsHandled` |
| | `TheNewestIsFollowed` | `Spec => []NewestVariant` |
| | `FolderIsKept` | `Spec => FolderIsTheUsers` |

Each module states the inductive invariant as a conjunction of named parts, has one
lemma or step per action, and combines them in the last temporal steps.

**TopicCheck.** `IInv == TypeOK /\ OneCheckAtATime /\ DispatchAlone /\ TokenGuard /\
WorkerPath`.

* `DispatchAlone`: between reading the exclusion list and the query, a topic that
  was not excluded is not marked; only the dispatcher marks. Without it
  `OneCheckAtATime` is not preserved by `DispatchQuery`.
* `TokenGuard`: a snapshot in use that a reset has overtaken differs from the row in
  `next_check_at`; one that agrees in it also agrees in `last_checked_at` and, while
  the topic exists, in `last_hash`. It is preserved because every statement that
  moves the token writes a stamp nobody holds (`FreshStamps`, `TokenRenewed`) and
  every other one leaves it (`TokenKept`). It is the formal content of the comment
  "The check-state version token".
* `WorkerPath`: at each program point past the delivery something was delivered,
  and a check about to record success has a reason to move the hash (`Justified`)
  or is stale. `Stale` is itself stable (`StaleStays`), so the guard of
  `RecordCheckResult` will refuse it.

The action properties then follow from `IInv` and the few actions that can write the
row or the worker's program point. What was delivered is the subject of a second
invariant, `Kept == Payloads /\ Owing /\ Copies /\ Unmarked`, inductive together with
`IInv` (and model-checked in the configurations of *replace* and *episodes* before it
was proved):

* `Payloads`: between download and mark the payload is the torrent of the oldest
  pending episode, and once added it is among what was delivered; a check replaces
  only after it delivered, and never an episode.
* `Owing`: as long as a recorded delivery is owed, nobody works from a snapshot a reset
  has overtaken. This is where the token is needed: only a check that matches records,
  and a reset clears the debt in the step that overtakes every snapshot.
* `Copies`: outside a reset, and unless an abort or a stale edit was reported, the
  client has all that the current check delivered, at least one torrent while a
  delivery is owed, and the torrents of the episodes marked.
* `Unmarked`: a snapshot no reset has overtaken lists the same episodes as the row
  until its check marks some, and what is pending is not marked.

**Dispatch.** `Types /\ Marked /\ Queued /\ Held`, which is `HandledOnce` taken apart:
what is queued or held is marked and the other way round, a queue holds its own topics once
each, and who holds a topic holds it alone. Two lemmas on sequences (`TakeFirst`, `PutLast`) say
what taking from and appending to a queue do to its range. `Query` names the type of
its batch, at most `Slots` topics, because what `SelectSeq` returns cannot be proved
(induction).

**Spacing.** Proved in `DispatchProofs` too, which extends both modules; hence the names
of `Spacing` begin with `Lane`. The invariant is `LaneTypeOK /\ TurnsInOrder /\
EveryStartClaimed`. `TurnsInOrder` is stated so
that it is inductive: each slot further ahead than one spacing has another exactly one
spacing before it, which is a statement about neighbours and needs no counting; that
the schedule is never further ahead than `Spacing` times the goroutines asleep for it,
plus one, follows. `EveryStartClaimed` says the history and the spacer's own record
agree, which is where a start without a claim would show.

**Delivery.** Two inductive invariants, both model-checked in the configuration of
*delivery* before they were proved. A lemma per action says once what a step keeps
of the types and what it leaves alone; the rest of the proof reasons from those.

The first, `Inv == TypeOK /\ Baselines /\ Replaced /\ Planned /\ Held /\ SkipsBelow /\ Empty`,
carries the refinement and the rename. A release is `Kept` if it is in the client or was
removed without its data:

* `Baselines`: a row's list, where known, is the file list of its release, and its
  release is kept unless replacing deletes data; the client holds nothing newer than
  the tracker shows.
* `Replaced`: only releases older than the newest are removed, and where replacing
  deletes data no version holds a file back. This is what `ValidUpdatePolicy` is for:
  the two settings together would take away the copy that skipping relies on.
* `Planned`: the plan stays true while it is carried out, since rows, settings and the
  tracker's release change only between two deliveries; a torrent about to be started
  already skips what the plan holds back.
* `Held`: a retry of the newest release holds back no less than its first attempt did,
  as long as there is a row of another version to compare with.
* `SkipsBelow`: a file is skipped only where an older version that is kept wants it.
  `NoFileLost` alone is not inductive: of two versions that want a file each could be the
  one that gives it up for the other; the order of the releases breaks the tie.
* `Empty`: what `waitForStopped` saw still holds when the rename is sent. A stopped
  torrent writes nothing by itself, so only the user can spoil it.

`DeliveryImplements` maps each action to `Hand`, `Skip`, `Start`, `Stop`, `User`, `Remove` or a
stutter of `Handover`. The two promises of `Handover` are inductive there with its types
and the fact that a version in the client is not one that was removed, and
come back to the deliveries through the refinement mapping (`UpdatesHoldOldFiles`,
`NoDeliveryLosesFiles`).

The second, `Courses == Shape /\ Aim /\ \A r \in Releases : Sound(r)`, follows a torrent
that is renamed or waits for its start, over failed attempts and their retries:

* `Shape` and `Aim`: which flags the worker may carry at which program point, and
  which folder it is about to give.
* `Course`: a rename that is under way, or still owes its recheck, is on a torrent at
  rest, unless the user is warned or the recheck is still to come in this delivery.
  Being at rest is what lets a retry find it (`DiskState`: stopped, nothing on disk).
* `Awake`: a torrent was added started, unless the policy applies or it is to be
  renamed; past its start it runs or the user is told. Its clauses about rechecks are
  for Deluge, which ends one in the state its cached flag says: that is what waiting
  for the start to be reported (`waitForRunning`) is for.

What the user is told counts from the moment it is certain to be sent (`Telling`).

**Domains.** For the table: `TypeOK /\ Locked /\ Known /\ Current`. `Locked` says whoever
is between reading the cache and writing the row holds `persistMu`, and nobody else
is; `Current` says that the row is the cache unless a write is under way or a
statement failed, and that a worker between rotating and rereading will write what is
in use by then. This is the argument of the comment at `Set`. For the ring
(`MirrorInv`), unless an administrator chose the domain: a request that was sent to
another domain than the one in use is at least as old as the last rotation, so it fails
within its cooldown, where failures are ignored, or has taken a whole cooldown itself;
and what the running window counts are failures of the domain in use. No theorem
assumes how long a request or a check takes.

**Sessions.** `Inv == Types /\ Serialised /\ Owned /\ StoredOnly /\ OwnErrors /\
Remembered`.

* `Serialised`: whoever is between taking the slot and answering is its holder and
  has a credential. From it follows that nobody else is.
* `Owned`, for the trackers `SignedInAsOwner` is about: while nobody is between a
  sign-in and its outcome, the jar is a guest's or of the account of the slot's
  `owner`; in between it is of the one who signs in; a verifier is the owner; and
  an inherited "ok" names the owner. `Settle` is the step that needs it: it writes owner and
  answer together, and clears the owner of a failed attempt, whose jar may be
  anyone's. Edits of the row cannot disturb it, since the slot keeps the whole
  credential. A session stored meanwhile cannot either: it takes an id nobody refers
  to (`NewId`, `Used`).
* `StoredOnly`: on LostFilm, whose accounts are known by their cookie only, an owner has a
  stored session.
* The ghost `away` begins with the answer and ends with the check: `JarIsRight` first
  shows that the jar is right when the check is told so (`RightJar`, from `Owned`), and
  then that a step that changes the jar under it makes it a guest's, its own account's,
  or puts the check into `away`.
* `OwnErrors`: a late attempt leaves no answer behind.
* `Remembered`: told once since a session was stored, and if so the row is marked.
  The conditional UPDATE tells only of a row that was not.

`NoNeedlessLogin` rests on a second invariant, `Good`: while nothing happened to the
session since a credential signed in, the slot's owner is that credential, no verifier
is late, and the jar is live unless somebody is signing in over it. A waiter with the
credential then finds itself the owner and verifies, and the probe succeeds.

`RecordedIsDelivered` and `TokenIsTheRelease` rest on a third, `Recorded`: a check that goes
on to a download carries the token of the release it found, which is no newer than
the page it reads now, and the token in a topic's row is that of its release. It
needs that every plugin's token is the same for any page that shows the cells it is
computed from, whoever asked (`TokenOfPage`), and differs between releases
(`TokenOfRelease`). The latter is `ContentAssumption` for the plugins that read the
registration date or hash the release; those that go by the id alone are excepted
where the id stays. A page without those cells gives the empty token, on which the code does
not go on, except on Toloka, AniDub and Torznab under a template change, which the
property leaves out by name.

The lemmas `Aside`, `Still` and `Held` say what any step of a process without the
slot, without a process, and of the holder preserves; each action is then one of the
three. `Forget`, `Restart` and `Persist`, which change the jar or the accounts under
everybody, have proofs of their own.

**SignIn.** As long as nothing is `spoilt`: no two tabs hold one live token
(`OneHolder`), a tab at rest holds a live one (`AtRest`), a refresh in flight carries the
token of its tab, unrevoked until its own rotation (`Refreshing`), a sign-out the token
it revokes (`SigningOut`), a stray belongs to nobody (`Straying`), and each sign-in has
one live token at most (`OneLiveToken`). `RefreshRead` before `Rotate` is safe by
`Refreshing`: between the two nobody else may present or revoke the token.

**Feed.** `RowTypes /\ InFlightIsNew /\ ToldIsCompleted`: a row in flight was never
completed, and `told` counts at most the one transition that the conditional UPDATE
reports. `InFlightIsNew` is what makes a poll's list, stale as it may be when a row is
handled, harmless.

`NothingMissed` has an invariant of its own, `Streams == Places /\ (lossy = {} => Clean)`:
as long as none of the five losses occurred,

* `Numbered` and `Phased`: ids in flight are distinct and below the serial, and a
  connection holds rows and frames only in the phases that have them;
* `InTurn`: no emission is overtaken: a frame being sent is the oldest in flight, what
  is queued is older and in order, and whatever is newer than an emission in flight is
  still before its `Publish`;
* `Replayed` and `Kept`: the replay goes through the missed rows in order, and whatever
  the page has not seen after its last id is listed, queued, or on its way to the
  queue. For this the stream subscribes before it lists;
* `Passed`: the page's last id never moves past an event it has not seen.

It needs that sorting gives every row once and in order, for any finite set of rows
(`AscendingIs`): an induction on the size of the set, written out with a least
counterexample (`AllSortable`).

**Import.** `Inv == TypeOK /\ Anchored /\ Window /\ Covered /\ Creating /\ Following /\
PassedIsHandled /\ NewestVariant`, model-checked in the configuration of *import*, and with
two faults, before it was proved.

* `Anchored`: the poll and the instance's row agree on the cursor unless the row was
  made anew meanwhile, and nothing is owed to an instance without one. Only `Advance`
  moves the cursor, so the poll's copy may be trusted; a new row's may not, and the
  conditional UPDATE by id does not touch it.
* `Window`: what is left to do comes after the cursor, oldest first.
* `Covered`: a grab owed in the window is still to come, itself or by a newer one of its
  URL (the poller looks at the newest record of a URL only), or it was handled and all
  that is still to come is newer. When nothing is left, everything up to the new cursor
  was handled, which is what `Advance` needs for `PassedIsHandled`.
* `Creating`: a topic to be created is missing or its owner was faster, since the INSERT
  is the only way in.
* `Following`: as long as the window is worked on, each key of a topic's variant is that
  of the newest grab that was applied to it and gives the key (`Follows`), or a newer grab of
  its page is still to come. `NewestVariant` alone is
  not inductive: a batch read again sets topics back on its way. That a record leaves a
  topic with all it came with is `Took`.

However a record leaves the window (skipped, lost to a failed call, its topic created,
set or left alone), `LeaveInv` says once what is kept. The steps of
the owner and the administrator touch only topics or the row (`OnlyTopics`).
`TheNewestIsFollowed` also needs that the grab a topic follows was made (`Known`).
`OldestFirstIs`, that the sort gives every record once and in order, is proved as in
`Feed`. `FolderIsKept` needs the types only: `Update` writes the folder column exactly
when its caller is the owner.

**Only model-checked.** Every safety invariant and every action property of a passing
run is proved. What is left to TLC is

* liveness: `EventuallyDelivered`, `DueIsChecked`, `ErrorsClear`, `SomeoneStarts`,
  `OthersAreChecked`, `Drains`, `EventuallyImported`, `EveryEventArrives`,
  `FinishedIsMarked`, `RequestsEnd`: liveness under fairness and `ENABLED` are out of the
  prover's reach;
* the type invariants of `Dispatch`, `Sessions`, `Feed`, `SignIn` and `Domains`, checked on
  the instances of section 4 and kept in the modules. The proofs need only the types of
  what they speak of, and state these as parts of their invariants (`Types`,
  `RowTypes`).

Induction over data with the library's theorems is out of reach too: nothing here is
proved about what a fold or a sorting operator of a library returns for every input.
`Feed` and `Import` sort with definitions of their own. No module declares a RECURSIVE
operator.

## 6. Not modelled

* *Page redaction, infohash, torrentmeta, crypto, extra.* Pure functions on bytes and
  text: their difficulty is in the formats, and their inputs cannot be enumerated.
* *FlareSolverr and Cloudflare clearance.* HTTP to an external browser with a cache of
  cookies. Nothing in the models depends on it; a challenge that is not cleared is a
  failed call.
* *Metrics, logging, audit, configuration, deployment, CI.* They fix one fact the models
  use: a single backend replica.
* *The pages of the web frontend.* They show the API's state. Its sign-in and event
  stream are modelled.

Inside the modelled components:

* Topics: title writes, which touch neither token nor hash; the size of the backoff
  delay, and with it the guard against overflow after many errors
  (`scheduler.go:1331`): every delay ends in the models, so `ErrorsClear` would not see
  one that is negative or never ends;
  the handler's single-flight slot (at most one `Reset` and one `Update` of a topic are
  in progress, so two concurrent edits are not explored); a topic moved from one
  client to another. `Create` is an action of `Import` and the initial state of
  `TopicCheck`.
* Scheduler: `SchedulerEnabled`, a constant of the process; the run summaries and the
  ring of the last 50.
* Delivery: changes of a topic's settings between two of its deliveries (a scenario keeps
  its own); the removal of a torrent by its user;
  waiting times (a wait ends with its answer or runs out), the wording of
  notes, the clients' own logins.
* Trackers: search and browse; parsing. A cell is shown or not.
* Sessions: the cap and the age of pending challenges, which show as their loss.
* Authentication: the refresh token's 30 days, the disabling of a user, the OIDC
  exchange before its sign-in, and what `App.tsx` does when `/auth/me` fails.
* Import: the cadence of the polls, the skew between Sonarr's clock and the program's.
* Feed: which notifier is called for what, the hub's map of users, tickets other than
  by their loss.

## 7. What is left to do

1. Proofs: the type invariants that are only model-checked.
2. The backoff delay against a reference definition, with its width.
3. The run summaries, once their intent is settled.
4. An abstract "one check at a time" that `TopicCheck` and `Dispatch` both implement.
