-------------------------------- MODULE Feed --------------------------------
(***************************************************************************)
(* The live feed: what happens to an event between the code that emits it  *)
(* and the page that shows it.                                             *)
(*                                                                         *)
(*   events.Bus.Emit      record in topic_events, notify, publish          *)
(*   sse.Hub              one frame queue per connection, never blocking   *)
(*   handlers.SSE         ticket, subscribe, replay, live frames           *)
(*   useEventStream.ts    the page: one connection, reconnected by hand    *)
(*   progress.Watcher     completions, announced once per delivery         *)
(*                                                                         *)
(* Several goroutines emit: the workers of the scheduler and the progress  *)
(* watcher.  An emission is three steps with network in between, so two of *)
(* them interleave.  A frame is its history id, 0 for an event that is not *)
(* persisted.  One user with one page: the hub's map by user is left out,  *)
(* and a connection the page has left receives nothing that matters.       *)
(***************************************************************************)
EXTENDS Integers, Sequences, SequencesExt, FiniteSets

CONSTANTS
    Workers,        \* scheduler goroutines that emit events about a topic
    Watcher,        \* the progress watcher
    WorkerEvents,   \* the types the workers emit
    Deliveries,     \* (topic, infohash) pairs that may have a delivery row
    HashOf,         \* the infohash of each: two topics may share a torrent
    Done,           \* percent_done of a finished torrent, in steps
    Buffer,         \* subscriberBuffer, 64 in the code
    Limit,          \* LIMIT of the replay query, 200 in the code
    MaxId,          \* bound: history rows the workers write
    MaxRowIds,      \* bound: times one delivery is recorded
    MaxFaults       \* bound: breaks, crashes, expiries, failed statements, rows that
                    \* grow old, clients that are lost

Hashes == {HashOf[d] : d \in Deliveries}

ASSUME FeedAssumption ==
    /\ Buffer \in Nat \ {0} /\ Limit \in Nat \ {0} /\ Done \in Nat \ {0}
    /\ MaxId \in Nat /\ MaxRowIds \in Nat /\ MaxFaults \in Nat
    /\ Watcher \notin Workers

VARIABLES
    history,    \* ids of the rows of topic_events
    nextId,     \* its serial
    em,         \* each emitter: its place in Emit and the event it carries
    conn,       \* the stream the page holds: subscriber, replay rows, queue
    tab,        \* the page: "off" (backoff timer), "ticket", "open"
    last,       \* lastEventId of the page, 0 for the empty string
    first,      \* ghost: the first id the page received
    seen,       \* ids the page received
    rows,       \* delivery rows: "none", "inflight", "old" (delivered more than 30
                \* days ago and not completed), "done"
    rowId,      \* the id of the current row of each delivery
    client,     \* percent_done of each torrent in the client
    able,       \* the client is there, its secrets can be read and it has WithStatus
    lastSeen,   \* the watcher's change detection, -1 for no entry
    todo,       \* (row, percent) pairs of the watcher's poll, not yet handled
    completed,  \* ghost: row ids whose completed_at was ever set
    told,       \* ghost: completions announced, per delivery and row id
    lossy,      \* ghost: why a frame may be missing for good
    faults

bus == <<history, nextId, em>>
page == <<tab, last, first, seen>>
table == <<rows, rowId, completed>>
poller == <<lastSeen, todo, told>>
reports == <<client, able>>
vars == <<bus, conn, page, table, reports, poller, lossy, faults>>

Emitters == Workers \cup {Watcher}
RowIds == Deliveries \X (1..MaxRowIds)
Causes == {"full", "truncated", "unlisted", "overtook", "unnumbered"}

-----------------------------------------------------------------------------
(* The event taxonomy.                                                     *)

Persist(type) == type \notin {"check.started", "check.completed", "download.progress"}
Notifiable(type) == type \in {"release.found", "download.submitted", "download.completed",
                              "check.failed", "session.expired"}
\* A session.expired carries no topic: nothing to file it under.
HasTopic(type) == type # "session.expired"

\* "target": the frame is aimed at the stream that the page holds.
Idle == [pc |-> "idle", type |-> "none", id |-> 0, target |-> FALSE]
NoConn == [phase |-> "none", rows |-> <<>>, buf |-> <<>>]

Init ==
    /\ history = {} /\ nextId = 1
    /\ em = [e \in Emitters |-> Idle]
    /\ conn = NoConn
    /\ tab = "off" /\ last = 0 /\ first = 0 /\ seen = {}
    /\ rows = [d \in Deliveries |-> "none"] /\ rowId = [d \in Deliveries |-> 0]
    /\ completed = {}
    /\ client = [h \in Hashes |-> 0] /\ able \in BOOLEAN
    /\ lastSeen = [h \in Hashes |-> -1] /\ todo = {} /\ told = [r \in RowIds |-> 0]
    /\ lossy = {} /\ faults = 0

Fault == faults < MaxFaults /\ faults' = faults + 1

-----------------------------------------------------------------------------
(* Emit.                                                                   *)

\* An emission begins: the caller's event is routed by its type.
Began(type) ==
    [Idle EXCEPT !.pc = IF Persist(type) /\ HasTopic(type) THEN "record"
                        ELSE IF Notifiable(type) THEN "notify" ELSE "publish",
                 !.type = type]

Recording == {e \in Emitters : em[e].pc = "record"}

EmitBegin(w, type) ==
    /\ em[w].pc = "idle"
    /\ Persist(type) => nextId + Cardinality(Recording) <= MaxId
    /\ em' = [em EXCEPT ![w] = Began(type)]
    /\ UNCHANGED <<history, nextId, conn, page, table, reports, poller, lossy, faults>>

AfterRecord(e) == IF Notifiable(em[e].type) THEN "notify" ELSE "publish"

\* The INSERT, one statement.  The topic may be gone or the statement may fail:
\* the event goes on without an id, also where the row was committed and only
\* the answer to it was lost.
Record(e) ==
    /\ em[e].pc = "record"
    /\ \/ /\ history' = history \cup {nextId}
          /\ nextId' = nextId + 1
          /\ em' = [em EXCEPT ![e].pc = AfterRecord(e), ![e].id = nextId]
          /\ UNCHANGED <<lossy, faults>>
       \/ /\ Fault
          /\ em' = [em EXCEPT ![e].pc = AfterRecord(e)]
          /\ \/ UNCHANGED <<history, nextId, lossy>>
             \/ /\ history' = history \cup {nextId}
                /\ nextId' = nextId + 1
                /\ lossy' = lossy \cup {"unnumbered"}
    /\ UNCHANGED <<conn, page, table, reports, poller>>

\* The notifiers are called one after another, each up to 15 seconds; every
\* failure is logged.  For the feed only the time that passes matters.
Notify(e) ==
    /\ em[e].pc = "notify"
    /\ em' = [em EXCEPT ![e].pc = "publish"]
    /\ UNCHANGED <<history, nextId, conn, page, table, reports, poller, lossy, faults>>

\* Mutant: the subscription is made after the replay.
SubscribedLate == conn.phase = "live"

\* Between Subscribe and the deferred unsubscribe.
Subscribed == conn.phase # "none"

\* An emitter that recorded an earlier row has not sent its frame yet.
Overtakes(e) == \E o \in Emitters \ {e} : em[o].id > 0 /\ em[o].id < em[e].id

\* Publish copies the subscribers under the hub's lock.
Publish(e) ==
    /\ em[e].pc = "publish"
    /\ em' = [em EXCEPT ![e].pc = "send", ![e].target = Subscribed]
    /\ lossy' = lossy \cup (IF Overtakes(e) THEN {"overtook"} ELSE {})
    /\ UNCHANGED <<history, nextId, conn, page, table, reports, poller, faults>>

\* Each send is made under the subscriber's lock, unless unsubscribe closed the
\* queue in the meantime; a full queue drops the frame.
Send(e) ==
    LET id == em[e].id
        reaches == Subscribed /\ em[e].target
        full == Len(conn.buf) = Buffer
    IN  /\ em[e].pc = "send"
        /\ em' = [em EXCEPT ![e] = Idle]
        /\ conn' = IF reaches /\ ~full THEN [conn EXCEPT !.buf = Append(@, id)] ELSE conn
        /\ lossy' = lossy \cup (IF reaches /\ full /\ id > 0 THEN {"full"} ELSE {})
        /\ UNCHANGED <<history, nextId, page, table, reports, poller, faults>>

\* Retention deletes the rows older than its cutoff.
Prune ==
    /\ \E cutoff \in history : history' = {id \in history : id > cutoff}
    /\ UNCHANGED <<nextId, em, conn, page, table, reports, poller, lossy, faults>>

-----------------------------------------------------------------------------
(* The page and its stream.                                                *)

\* Mutant: onerror closes the source and starts no timer.
TicketOnce ==
    /\ tab = "off" /\ seen = {}
    /\ tab' = "ticket"
    /\ UNCHANGED <<bus, conn, last, first, seen, table, reports, poller, lossy, faults>>

\* The reconnect timer fires: a fresh single-use ticket.
Ticket ==
    /\ tab = "off"
    /\ tab' = "ticket"
    /\ UNCHANGED <<bus, conn, last, first, seen, table, reports, poller, lossy, faults>>

\* The ticket ran out before the EventSource was opened, or the request failed.
Refused ==
    /\ tab = "ticket" /\ Fault
    /\ tab' = "off"
    /\ UNCHANGED <<bus, conn, last, first, seen, table, reports, poller, lossy>>

\* Stream consumes the ticket and subscribes before it reads any history; a page
\* that has no last id is not replayed anything.
Stream ==
    /\ tab = "ticket"
    /\ tab' = "open"
    /\ conn' = [NoConn EXCEPT !.phase = IF last > 0 THEN "list" ELSE "live"]
    /\ UNCHANGED <<bus, last, first, seen, table, reports, poller, lossy, faults>>

Missed == {id \in history : id > last}
Oldest(ids, n) == {id \in ids : Cardinality({o \in ids : o < id}) < n}

\* ORDER BY id ASC.
Ascending(ids) ==
    CHOOSE s \in [1..Cardinality(ids) -> ids] : \A i, j \in DOMAIN s : i < j => s[i] < s[j]

\* ListForUserSince: the oldest rows after the last id, up to the limit.
Listed == Ascending(Oldest(Missed, Limit))

ListSince ==
    /\ conn.phase = "list"
    /\ conn' = [conn EXCEPT !.phase = "replay", !.rows = Listed]
    /\ lossy' = lossy \cup (IF Cardinality(Missed) > Limit THEN {"truncated"} ELSE {})
    /\ UNCHANGED <<bus, page, table, reports, poller, faults>>

\* The query fails: the stream goes live without a replay.
ListFails ==
    /\ conn.phase = "list" /\ Fault
    /\ conn' = [conn EXCEPT !.phase = "live"]
    /\ lossy' = lossy \cup {"unlisted"}
    /\ UNCHANGED <<bus, page, table, reports, poller>>

\* onmessage: only a frame with an id moves lastEventId.
Receive(id) ==
    IF id = 0 THEN UNCHANGED <<last, first, seen>>
    ELSE /\ last' = id
         /\ seen' = seen \cup {id}
         /\ first' = IF first = 0 THEN id ELSE first

Replay ==
    /\ conn.phase = "replay" /\ conn.rows # <<>>
    /\ Receive(Head(conn.rows))
    /\ conn' = [conn EXCEPT !.rows = Tail(@)]
    /\ UNCHANGED <<bus, tab, table, reports, poller, lossy, faults>>

GoLive ==
    /\ conn.phase = "replay" /\ conn.rows = <<>>
    /\ conn' = [conn EXCEPT !.phase = "live"]
    /\ UNCHANGED <<bus, page, table, reports, poller, lossy, faults>>

LiveFrame ==
    /\ conn.phase = "live" /\ conn.buf # <<>>
    /\ Receive(Head(conn.buf))
    /\ conn' = [conn EXCEPT !.buf = Tail(@)]
    /\ UNCHANGED <<bus, tab, table, reports, poller, lossy, faults>>

\* The connection breaks: onerror closes the source and starts the timer, the
\* handler returns and unsubscribes; what is queued is gone, and so is what a
\* publisher still sends to this subscriber.
Break ==
    /\ tab = "open" /\ Fault
    /\ tab' = "off"
    /\ conn' = NoConn
    /\ em' = [e \in Emitters |-> [em[e] EXCEPT !.target = FALSE]]
    /\ UNCHANGED <<history, nextId, last, first, seen, table, reports, poller, lossy>>

-----------------------------------------------------------------------------
(* Deliveries and the watcher.                                             *)

Current(d) == <<d, rowId[d]>>

\* A check hands a torrent over and records it.
Submit(d) ==
    /\ rows[d] = "none" /\ rowId[d] < MaxRowIds
    /\ rows' = [rows EXCEPT ![d] = "inflight"]
    /\ rowId' = [rowId EXCEPT ![d] = @ + 1]
    /\ UNCHANGED <<bus, conn, page, completed, reports, poller, lossy, faults>>

\* A reset, a replacement or the deletion of the topic removes the row.
RemoveRow(d) ==
    /\ rows[d] # "none"
    /\ rows' = [rows EXCEPT ![d] = "none"]
    /\ UNCHANGED <<bus, conn, page, rowId, completed, reports, poller, lossy, faults>>

\* Thirty days after the delivery the watcher stops asking about it.
Age(d) ==
    /\ rows[d] = "inflight" /\ Fault
    /\ rows' = [rows EXCEPT ![d] = "old"]
    /\ UNCHANGED <<bus, conn, page, rowId, completed, reports, poller, lossy>>

Download(h) ==
    /\ client[h] < Done
    /\ client' = [client EXCEPT ![h] = @ + 1]
    /\ UNCHANGED <<bus, conn, page, table, able, poller, lossy, faults>>

\* The client is deleted, or its secrets become unreadable.
LoseClient ==
    /\ able /\ Fault
    /\ able' = FALSE
    /\ UNCHANGED <<bus, conn, page, table, client, poller, lossy>>

\* Mutant: the query does not filter the completed rows.
InFlightOrDone == {d \in Deliveries : rows[d] # "none"}

\* ListInFlight.  That a row has a client holds of every row: recordDelivery
\* always gives one.
InFlight == {d \in Deliveries : rows[d] = "inflight"}

PollDue == em[Watcher].pc = "idle" /\ todo = {} /\ InFlight # {}

\* One poll: the rows in flight are listed and their client is asked once.  byHash
\* keeps one row per infohash: of two that share a torrent the other one waits
\* for the next poll.  The rows of a client that cannot be asked are skipped.
Poll ==
    /\ PollDue /\ able
    /\ \E chosen \in SUBSET InFlight :
          /\ {HashOf[d] : d \in chosen} = {HashOf[d] : d \in InFlight}
          /\ \A c, d \in chosen : HashOf[c] = HashOf[d] => c = d
          /\ todo' = {<<Current(d), client[HashOf[d]]>> : d \in chosen}
    /\ UNCHANGED <<bus, conn, page, table, reports, lastSeen, told, lossy, faults>>

\* The list or the question to the client fails: nothing until the next tick.
PollFails ==
    /\ PollDue /\ Fault
    /\ UNCHANGED <<bus, conn, page, table, reports, poller, lossy>>

\* MarkCompleted: the conditional UPDATE.  It misses a row that is gone.
InTable(r) == rows[r[1]] # "none" /\ rowId[r[1]] = r[2]
\* Mutant: the caller does not look at what the UPDATE changed.
AlwaysWon(r) == r \in RowIds
Won(r) == InTable(r) /\ rows[r[1]] # "done"

MarkCompleted(r) ==
    IF InTable(r) THEN /\ rows' = [rows EXCEPT ![r[1]] = "done"]
                       /\ completed' = completed \cup {r}
    ELSE UNCHANGED <<rows, completed>>

\* A finished torrent: mark, and announce when this call made the transition.
Complete(r) ==
    /\ MarkCompleted(r)
    /\ lastSeen' = [lastSeen EXCEPT ![HashOf[r[1]]] = -1]
    /\ todo' = {t \in todo : t[1] # r}
    /\ IF Won(r)
       THEN /\ em' = [em EXCEPT ![Watcher] = Began("download.completed")]
            /\ told' = [told EXCEPT ![r] = @ + 1]
       ELSE UNCHANGED <<em, told>>
    /\ UNCHANGED <<history, nextId, conn, page, rowId, reports, lossy, faults>>

\* The statement fails, or its answer is lost: no announcement, now or later.
MarkFails(r) ==
    /\ Fault
    /\ \/ MarkCompleted(r)
       \/ UNCHANGED <<rows, completed>>
    /\ lastSeen' = [lastSeen EXCEPT ![HashOf[r[1]]] = -1]
    /\ todo' = {t \in todo : t[1] # r}
    /\ UNCHANGED <<bus, conn, page, rowId, reports, told, lossy>>

\* A torrent still downloading: a progress event when something changed.
Progress(r, percent) ==
    /\ todo' = todo \ {<<r, percent>>}
    /\ IF lastSeen[HashOf[r[1]]] # percent
       THEN /\ lastSeen' = [lastSeen EXCEPT ![HashOf[r[1]]] = percent]
            /\ em' = [em EXCEPT ![Watcher] = Began("download.progress")]
       ELSE UNCHANGED <<lastSeen, em>>
    /\ UNCHANGED <<history, nextId, conn, page, table, reports, told, lossy, faults>>

\* checkClient handles the answers one after another, each emission to its end.
CheckOne ==
    /\ em[Watcher].pc = "idle"
    /\ \E t \in todo : IF t[2] = Done THEN Complete(t[1]) \/ MarkFails(t[1])
                       ELSE Progress(t[1], t[2])

-----------------------------------------------------------------------------

\* The process dies: every emission in flight, the poll, the hub and the tickets
\* are gone; the tables stay.
Crash ==
    /\ Fault
    /\ em' = [e \in Emitters |-> Idle]
    /\ conn' = NoConn /\ tab' = "off"
    /\ todo' = {} /\ lastSeen' = [h \in Hashes |-> -1]
    /\ UNCHANGED <<history, nextId, last, first, seen, table, reports, told, lossy>>

Emission(e) == Record(e) \/ Notify(e) \/ Publish(e) \/ Send(e)
Server == ListSince \/ ListFails \/ Replay \/ GoLive \/ LiveFrame
Browser == Ticket \/ Refused \/ Stream \/ Break

Next ==
    \/ \E w \in Workers, type \in WorkerEvents : EmitBegin(w, type)
    \/ \E e \in Emitters : Emission(e)
    \/ Prune
    \/ Server
    \/ Browser
    \/ \E d \in Deliveries : Submit(d) \/ RemoveRow(d) \/ Age(d)
    \/ \E h \in Hashes : Download(h)
    \/ LoseClient
    \/ Poll
    \/ PollFails
    \/ CheckOne
    \/ Crash

Spec == Init /\ [][Next]_vars

\* The goroutines run, the reconnect timer fires, the watcher ticks.  Faults,
\* emissions and downloads are nobody's duty.
LiveSpec ==
    /\ Spec
    /\ \A e \in Emitters : WF_vars(Emission(e))
    /\ WF_vars(Ticket) /\ WF_vars(Stream)
    /\ WF_vars(ListSince) /\ WF_vars(Replay \/ GoLive) /\ WF_vars(LiveFrame)
    /\ WF_vars(Poll) /\ WF_vars(CheckOne)

-----------------------------------------------------------------------------
(* Properties.                                                             *)

Types == {"none", "topic.added", "topic.reset", "check.started", "check.completed",
          "release.found", "download.submitted", "download.progress",
          "download.completed", "check.failed", "session.expired"}
Ids == 1..(nextId - 1)

\* The types of the variables.
TypeOK ==
    /\ nextId \in 1..(MaxId + Cardinality(RowIds) + 1) /\ history \subseteq Ids
    /\ em \in [Emitters -> [pc : {"idle", "record", "notify", "publish", "send"},
                            type : Types, id : {0} \cup Ids, target : BOOLEAN]]
    /\ conn.phase \in {"none", "list", "replay", "live"}
    /\ Range(conn.rows) \subseteq Ids /\ Range(conn.buf) \subseteq {0} \cup Ids
    /\ Len(conn.buf) <= Buffer /\ Len(conn.rows) <= Limit
    /\ conn.rows # <<>> => conn.phase = "replay"
    /\ tab \in {"off", "ticket", "open"} /\ (tab = "open") = (conn.phase # "none")
    /\ {last, first} \subseteq {0} \cup Ids /\ seen \subseteq Ids
    /\ rows \in [Deliveries -> {"none", "inflight", "old", "done"}] /\ able \in BOOLEAN
    /\ rowId \in [Deliveries -> 0..MaxRowIds]
    /\ client \in [Hashes -> 0..Done] /\ lastSeen \in [Hashes -> -1..Done]
    /\ todo \subseteq RowIds \X (0..Done) /\ completed \subseteq RowIds
    /\ told \in [RowIds -> 0..2] /\ lossy \subseteq Causes /\ faults \in 0..MaxFaults

\* An event of the history that is newer than the first one the page received is
\* on the page, on its way to it, or still after the id the page will reconnect
\* with: a frame is missed for good only through a queue that was full, a replay
\* longer than its limit, a replay query that failed, an emission overtaken by a
\* later one, or an id that was lost with the answer to its INSERT.  This is what
\* subscribing before the replay is for.
NothingMissed ==
    lossy = {} =>
        \A id \in history :
            0 < first /\ first < id =>
                \/ id \in seen \/ id > last
                \/ id \in Range(conn.rows) \cup Range(conn.buf)

\* A completion is announced once per delivery row, and only for a row that was
\* in the table and got its completed_at: not again by a later poll or after a
\* restart, and not for a row that a reset or a replacement removed.
AnnouncedOnce ==
    \A r \in RowIds : told[r] <= IF r \in completed THEN 1 ELSE 0

\* A row in flight whose torrent is finished is marked or removed in the end, the
\* second of two topics that share the torrent included, over polls, marks and
\* restarts that fail: unless the row grows older than the 30 days it is polled
\* for, or its client cannot be asked.
FinishedIsMarked ==
    \A d \in Deliveries :
        rows[d] = "inflight" /\ client[HashOf[d]] = Done
            ~> rows[d] \in {"done", "none"} \/ rows[d] = "old" \/ ~able

\* A page that received something receives every later event of the history, over
\* any number of reconnects, unless one of the five losses occurred.
EveryEventArrives ==
    \A id \in 2..(MaxId + Cardinality(RowIds)) :
        id \in history /\ 0 < first /\ first < id
            ~> id \in seen \/ id \notin history \/ lossy # {}
=============================================================================
