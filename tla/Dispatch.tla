------------------------------ MODULE Dispatch ------------------------------
(***************************************************************************)
(* The scheduler as a whole: dispatchOnce selects a window of the oldest   *)
(* due topics and hands each to the shared job channel or, when its        *)
(* tracker wants its checks spaced, to that tracker's lane; shared workers *)
(* and lane goroutines check them and give them back; Start winds          *)
(* everything down when its context ends.  What happens inside one check   *)
(* is module TopicCheck; here it takes as long as it takes, and its result *)
(* is recorded or is not.                                                  *)
(***************************************************************************)
EXTENDS Naturals, FiniteSets, Sequences, SequencesExt, Functions

CONSTANTS
    Topics,      \* the topics of all users
    Lanes,       \* the trackers that implement WithCheckSpacing
    LaneOf,      \* the lane of each topic, or None
    Workers,     \* SchedulerWorkers of them, and as many goroutines per lane
    Slots,       \* SchedulerWorkers * 4: window of a tick, capacity of jobs
    None,
    MaxLosses    \* bound: failed queries and lost results

ASSUME LaneAssumption == LaneOf \in [Topics -> Lanes \cup {None}] /\ None \notin Lanes
ASSUME TopicAssumption == None \notin Topics
ASSUME SlotsAssumption == Slots \in Nat \ {0} /\ MaxLosses \in Nat

LaneWorkers == Lanes \X Workers
Goroutines == Workers \cup LaneWorkers

VARIABLES
    due,        \* the due topics, oldest next_check_at first
    disp,       \* the goroutine of Start: [pc, excluded, batch]
    inflight,   \* Scheduler.inflight
    jobs,       \* Scheduler.jobs
    lane,       \* the items of each laneQueue
    at,         \* each goroutine: [pc, topic]
    cancelled,  \* the context of Start ended
    closed,     \* which queues Start closed
    losses      \* failed queries and lost results so far

vars == <<due, disp, inflight, jobs, lane, at, cancelled, closed, losses>>

Spaced(t) == LaneOf[t] # None
Idle == [pc |-> "idle", topic |-> None]
IdleDisp == [pc |-> "idle", excluded |-> {}, batch |-> << >>]

Init ==
    /\ due = << >> /\ disp = IdleDisp /\ inflight = {} /\ jobs = << >>
    /\ lane = [l \in Lanes |-> << >>]
    /\ at = [g \in Goroutines |->
                IF g \in Workers THEN Idle ELSE [Idle EXCEPT !.pc = "absent"]]
    /\ cancelled = FALSE /\ closed = {} /\ losses = 0
-----------------------------------------------------------------------------
(* Start and dispatchOnce *)

\* A tick, with the marks there are when inflightIDs begins its Range.
Tick ==
    /\ disp.pc = "idle"
    /\ disp' = [IdleDisp EXCEPT !.pc = "range", !.excluded = inflight]
    /\ UNCHANGED <<due, inflight, jobs, lane, at, cancelled, closed, losses>>

\* A mark taken back while the Range runs is in the list or is not.
InflightIDs ==
    /\ disp.pc = "range"
    /\ \E ids \in SUBSET disp.excluded :
          /\ inflight \subseteq ids
          /\ disp' = [disp EXCEPT !.pc = "query", !.excluded = ids]
    /\ UNCHANGED <<due, inflight, jobs, lane, at, cancelled, closed, losses>>

\* Mutant: the topics already queued or running stay in the window.
WindowOfAll(exclude) == SubSeq(due, 1, IF Len(due) < Slots THEN Len(due) ELSE Slots)

\* The rows of DueForCheck: the oldest Slots of those not excluded.
DueForCheck(exclude) ==
    LET rows == SelectSeq(due, LAMBDA t : t \notin exclude)
    IN  SubSeq(rows, 1, IF Len(rows) < Slots THEN Len(rows) ELSE Slots)

Query ==
    /\ disp.pc = "query" /\ ~cancelled
    /\ \E batch \in SeqOf(Topics, Slots) :
          /\ batch = DueForCheck(disp.excluded)
          /\ disp' = IF batch = << >> THEN IdleDisp
                                      ELSE [disp EXCEPT !.pc = "loop", !.batch = batch]
    /\ UNCHANGED <<due, inflight, jobs, lane, at, cancelled, closed, losses>>

\* A cancelled context fails every query; otherwise failing is a fault.
Lose == IF cancelled THEN UNCHANGED losses
                     ELSE losses < MaxLosses /\ losses' = losses + 1

QueryFails ==
    /\ disp.pc = "query"
    /\ Lose
    /\ disp' = IdleDisp
    /\ UNCHANGED <<due, inflight, jobs, lane, at, cancelled, closed>>

HasRoom == Len(jobs) < Slots

\* laneFor starts the lane's goroutines on first use.
StartLane(l) ==
    [g \in Goroutines |->
        IF g \in {l} \X Workers /\ at[g].pc = "absent" THEN Idle ELSE at[g]]

\* One topic of the batch: LoadOrStore, then its lane or the job channel.
Store ==
    /\ disp.pc = "loop" /\ disp.batch # << >>
    /\ LET t == Head(disp.batch)
       IN  IF t \in inflight
           THEN UNCHANGED <<inflight, jobs, lane, at>>
           ELSE /\ Spaced(t) \/ HasRoom
                /\ inflight' = inflight \cup {t}
                /\ IF Spaced(t)
                   THEN /\ lane' = [lane EXCEPT ![LaneOf[t]] = Append(@, t)]
                        /\ at' = StartLane(LaneOf[t])
                        /\ UNCHANGED jobs
                   ELSE jobs' = Append(jobs, t) /\ UNCHANGED <<lane, at>>
    /\ disp' = [disp EXCEPT !.batch = Tail(@)]
    /\ UNCHANGED <<due, cancelled, closed, losses>>

\* The mark of the topic that found no room is taken back, and the rest of
\* the batch waits for another tick.
QueueFull ==
    /\ disp.pc = "loop" /\ disp.batch # << >>
    /\ LET t == Head(disp.batch)
       IN  t \notin inflight /\ ~Spaced(t) /\ (~HasRoom \/ cancelled)
    /\ disp' = IdleDisp
    /\ UNCHANGED <<due, inflight, jobs, lane, at, cancelled, closed, losses>>

EndRun ==
    /\ disp.pc = "loop" /\ disp.batch = << >>
    /\ disp' = IdleDisp
    /\ UNCHANGED <<due, inflight, jobs, lane, at, cancelled, closed, losses>>

\* Mutant: the lanes are never told.
StopKeepsLanes ==
    /\ disp.pc = "idle" /\ cancelled
    /\ closed' = {"jobs"}
    /\ disp' = [disp EXCEPT !.pc = "wait"]
    /\ UNCHANGED <<due, inflight, jobs, lane, at, cancelled, losses>>

\* ctx.Done: close(jobs), closeLanes, then wg.Wait.
Stop ==
    /\ disp.pc = "idle" /\ cancelled
    /\ closed' = {"jobs", "lanes"}
    /\ disp' = [disp EXCEPT !.pc = "wait"]
    /\ UNCHANGED <<due, inflight, jobs, lane, at, cancelled, losses>>

Return ==
    /\ disp.pc = "wait"
    /\ \A g \in Goroutines : at[g].pc \in {"absent", "gone"}
    /\ disp' = [disp EXCEPT !.pc = "returned"]
    /\ UNCHANGED <<due, inflight, jobs, lane, at, cancelled, closed, losses>>

DispatchOnce == Tick \/ InflightIDs \/ Query \/ Store \/ QueueFull \/ EndRun
Shutdown == Stop \/ Return
-----------------------------------------------------------------------------
(* The shared workers and the goroutines of the lanes *)

Now(g, pc, t) == at' = [at EXCEPT ![g] = [pc |-> pc, topic |-> t]]

\* Mutant: the mark comes down when the check starts.
TakeUnmarked(g) ==
    /\ at[g].pc = "idle" /\ jobs # << >>
    /\ Now(g, "check", Head(jobs))
    /\ jobs' = Tail(jobs)
    /\ inflight' = inflight \ {Head(jobs)}
    /\ UNCHANGED <<due, disp, lane, cancelled, closed, losses>>

\* range s.jobs, which a closed channel serves until it is empty.
Take(g) ==
    /\ at[g].pc = "idle" /\ jobs # << >>
    /\ Now(g, "check", Head(jobs))
    /\ jobs' = Tail(jobs)
    /\ UNCHANGED <<due, disp, inflight, lane, cancelled, closed, losses>>

Quit(g) ==
    /\ at[g].pc = "idle" /\ "jobs" \in closed /\ jobs = << >>
    /\ Now(g, "gone", None)
    /\ UNCHANGED <<due, disp, inflight, jobs, lane, cancelled, closed, losses>>

\* laneQueue.pop, which a closed lane does not serve.
Pop(g) ==
    /\ at[g].pc = "idle" /\ "lanes" \notin closed /\ lane[g[1]] # << >>
    /\ Now(g, "turn", Head(lane[g[1]]))
    /\ lane' = [lane EXCEPT ![g[1]] = Tail(@)]
    /\ UNCHANGED <<due, disp, inflight, jobs, cancelled, closed, losses>>

LeaveLane(g) ==
    /\ at[g].pc = "idle" /\ "lanes" \in closed
    /\ Now(g, "gone", None)
    /\ UNCHANGED <<due, disp, inflight, jobs, lane, cancelled, closed, losses>>

\* awaitCheckTurn: the tracker may start another check.
Turn(g) ==
    /\ at[g].pc = "turn"
    /\ Now(g, "check", at[g].topic)
    /\ UNCHANGED <<due, disp, inflight, jobs, lane, cancelled, closed, losses>>

\* The context ended, or the topic was paused or deleted meanwhile.
SkipTurn(g) ==
    /\ at[g].pc = "turn"
    /\ cancelled \/ at[g].topic \notin Range(due)
    /\ Now(g, "done", at[g].topic)
    /\ UNCHANGED <<due, disp, inflight, jobs, lane, cancelled, closed, losses>>

\* runCheck ends and its result is recorded, which moves next_check_at.
Finish(g) ==
    /\ at[g].pc = "check"
    /\ Now(g, "done", at[g].topic)
    /\ due' = SelectSeq(due, LAMBDA t : t # at[g].topic)
    /\ UNCHANGED <<disp, inflight, jobs, lane, cancelled, closed, losses>>

\* RecordCheckResult failed or was discarded: the topic is still due.
FinishLost(g) ==
    /\ at[g].pc = "check"
    /\ Lose
    /\ Now(g, "done", at[g].topic)
    /\ UNCHANGED <<due, disp, inflight, jobs, lane, cancelled, closed>>

Release(g) ==
    /\ at[g].pc = "done"
    /\ Now(g, "idle", None)
    /\ inflight' = inflight \ {at[g].topic}
    /\ UNCHANGED <<due, disp, jobs, lane, cancelled, closed, losses>>

Check(g) == Finish(g) \/ FinishLost(g) \/ Release(g)
SharedWorker(g) == Take(g) \/ Quit(g) \/ Check(g)
LaneWorker(g) == Pop(g) \/ LeaveLane(g) \/ Turn(g) \/ SkipTurn(g) \/ Check(g)
-----------------------------------------------------------------------------
(* The world *)

\* next_check_at passes.
ComeDue(t) ==
    /\ t \notin Range(due)
    /\ due' = Append(due, t)
    /\ UNCHANGED <<disp, inflight, jobs, lane, at, cancelled, closed, losses>>

\* The user pauses or deletes the topic (or rechecks it: it comes due anew).
Withdraw(t) ==
    /\ t \in Range(due)
    /\ due' = SelectSeq(due, LAMBDA u : u # t)
    /\ UNCHANGED <<disp, inflight, jobs, lane, at, cancelled, closed, losses>>

Cancel ==
    /\ ~cancelled
    /\ cancelled' = TRUE
    /\ UNCHANGED <<due, disp, inflight, jobs, lane, at, closed, losses>>

Next == \/ DispatchOnce \/ QueryFails \/ Shutdown
        \/ \E g \in Workers : SharedWorker(g)
        \/ \E g \in LaneWorkers : LaneWorker(g)
        \/ \E t \in Topics : ComeDue(t) \/ Withdraw(t)
        \/ Cancel

Spec == Init /\ [][Next]_vars

\* The ticker fires again and again and the workers run; a select that finds
\* the context ended does not prefer the ticker for ever.  A lane makes no
\* promise before shutdown: its tracker may stall its checks as long as it
\* likes.  Once the context is cancelled every call of a check returns.
LiveSpec ==
    /\ Spec
    /\ WF_vars(DispatchOnce \/ (cancelled /\ QueryFails)) /\ SF_vars(Stop) /\ WF_vars(Return)
    /\ \A g \in Workers : WF_vars(SharedWorker(g))
    /\ \A g \in LaneWorkers : WF_vars(cancelled /\ LaneWorker(g))
-----------------------------------------------------------------------------
(* Properties *)

TypeOK ==
    /\ due \in Seq(Topics) /\ IsInjective(due)
    /\ disp \in [pc : {"idle", "range", "query", "loop", "wait", "returned"},
                 excluded : SUBSET Topics, batch : Seq(Topics)]
    /\ inflight \subseteq Topics
    /\ jobs \in Seq(Topics) /\ Len(jobs) <= Slots
    /\ lane \in [Lanes -> Seq(Topics)]
    /\ at \in [Goroutines -> [pc : {"absent", "idle", "turn", "check", "done", "gone"},
                              topic : Topics \cup {None}]]
    /\ \A g \in Goroutines : at[g].pc \in {"turn", "check", "done"} <=> at[g].topic # None
    /\ cancelled \in BOOLEAN /\ closed \subseteq {"jobs", "lanes"}
    /\ losses \in 0..MaxLosses

Running == {at[g].topic : g \in Goroutines} \ {None}

\* A marked topic is in exactly one place, its own: queued once in the job
\* channel, queued once in its lane, or held by one goroutine; and nothing
\* else is marked.  So a topic is never checked twice at once and never
\* parked for ever behind a mark nobody will take back.
HandledOnce ==
    LET queues == {jobs} \cup {lane[l] : l \in Lanes}
        queued == UNION {Range(q) : q \in queues}
    IN  /\ inflight = queued \cup Running
        /\ queued \cap Running = {}
        /\ \A q \in queues : IsInjective(q)
        /\ \A g, h \in Goroutines :
              at[g].topic = at[h].topic /\ g # h => at[g].topic = None
        /\ \A t \in Range(jobs) : ~Spaced(t)
        /\ \A l \in Lanes : \A t \in Range(lane[l]) : LaneOf[t] = l

\* "a backlog of spaced Tapochek checks did exactly that" (DueForCheck): a
\* lane whose checks stall, however many topics wait in it, does not keep a
\* topic of another tracker from being checked.
OthersAreChecked ==
    \A t \in Topics : ~Spaced(t) =>
        (t \in Range(due) ~> t \notin Range(due) \/ cancelled)

\* Start "drains in-flight work and returns": the workers finish what is in
\* the job channel, a lane leaves its backlog to the next start.
Drains == cancelled ~> disp.pc = "returned"
=============================================================================
