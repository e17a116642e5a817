-------------------------- MODULE TopicCheckProofs --------------------------
(***************************************************************************)
(* TopicCheck, for every set of stamps, releases, torrents, modes and      *)
(* operations: type correctness, the exclusiveness of a topic's checks,    *)
(* that the check-state token keeps a check no reset has spared from       *)
(* writing, and that what was delivered is neither lost nor stranded.      *)
(***************************************************************************)
EXTENDS TopicCheck, FiniteSetTheorems, TLAPS

(***************************************************************************)
(* What the SQL statements and the plugin's hash keep.                     *)
(***************************************************************************)

\* Every statement of topics.go leaves a row of the table's shape.
LEMMA RowStatements ==
    ASSUME NEW r \in RowType, NEW now \in Stamps
    PROVE  /\ \A hash \in Hashes, failed \in BOOLEAN :
                 RecordCheckResult(r, hash, failed, now) \in RowType
           /\ \A es \in SUBSET Releases : MarkEpisodes(r, es) \in RowType
           /\ ResetCheckState(r, now) \in RowType
           /\ QueueRecheck(r, now) \in RowType
           /\ \A st \in Statuses : UpdateStatus(r, st) \in RowType
           /\ DeleteRow(r) \in RowType
           /\ \A done \in SUBSET Releases, m \in Modes :
                 Update(r, done, m, now) \in RowType
<1> USE DEF RowType, Statuses
<1>1. NoHash \in Hashes
  BY DEF Hashes
<1>2. \A hash \in Hashes, failed \in BOOLEAN :
         RecordCheckResult(r, hash, failed, now) \in RowType
  BY DEF RecordCheckResult
<1>3. \A es \in SUBSET Releases : MarkEpisodes(r, es) \in RowType
  BY DEF MarkEpisodes
<1>4. ResetCheckState(r, now) \in RowType /\ QueueRecheck(r, now) \in RowType
  BY <1>1 DEF ResetCheckState, QueueRecheck
<1>5. \A st \in Statuses : UpdateStatus(r, st) \in RowType
  BY DEF UpdateStatus
<1>6. DeleteRow(r) \in RowType
  BY <1>1 DEF DeleteRow
<1>7. \A done \in SUBSET Releases, m \in Modes : Update(r, done, m, now) \in RowType
  BY DEF Update
<1> QED
  BY <1>2, <1>3, <1>4, <1>5, <1>6, <1>7

\* The tracker's report is a hash, because episode sets are finite.
LEMMA Reports ==
    ASSUME NEW r \in RowType, WorldOK
    PROVE  Pending(r) \in SUBSET Releases /\ CheckHash(r) \in Hashes
<1>1. published \in Nat /\ 1..published \subseteq Releases
  BY MaxReleaseAssumption DEF WorldOK, Releases
<1>2. Pending(r) \in SUBSET Releases
  BY <1>1 DEF Pending
<1>3. \A S \in SUBSET Releases : IsFiniteSet(S) /\ Cardinality(S) \in Nat
  <2>1. IsFiniteSet(Releases)
    BY MaxReleaseAssumption, FS_Interval DEF Releases
  <2> QED
    BY <2>1, FS_Subset, FS_CardinalityType
<1>4. r.done \in SUBSET Releases
  BY DEF RowType
<1> QED
  BY <1>1, <1>2, <1>3, <1>4 DEF CheckHash, Hashes

\* Snapshots are what None is not.
LEMMA Snapshots ==
    /\ None \notin Snaps
    /\ \A r \in RowType : Snap(r) \in Snaps /\ Snap(r) # None
    /\ \A s \in Snaps \cup {None} :
          Overtake(s) \in Snaps \cup {None} /\ (Overtake(s) = None <=> s = None)
<1>1. None \notin Snaps
  BY NoneAssumption DEF Snaps
<1>2. \A r \in RowType : Snap(r) \in Snaps
  BY DEF Snap, Snaps
<1>3. \A s \in Snaps : [s EXCEPT !.overtaken = TRUE] \in Snaps
  BY DEF Snaps
<1> QED
  BY <1>1, <1>2, <1>3 DEF Overtake

\* A part of the state nobody touches keeps its type.
LEMMA Frame ==
    ASSUME TypeOK
    PROVE  /\ UNCHANGED dbVars => DbOK'
           /\ UNCHANGED schedVars => SchedOK'
           /\ UNCHANGED w => WorkerOK'
           /\ UNCHANGED worldVars => WorldOK'
           /\ UNCHANGED <<handlerVars, hist>> => HandlersOK'
  BY DEF TypeOK, DbOK, SchedOK, WorkerOK, WorldOK, HandlersOK,
         dbVars, schedVars, worldVars, handlerVars

(***************************************************************************)
(* Type correctness.                                                       *)
(***************************************************************************)

\* A topic just created is well-formed, and nobody works on it.
LEMMA TypeInit == Init => TypeOK
<1> SUFFICES ASSUME Init PROVE TypeOK
  OBVIOUS
<1>1. DbOK
  BY UnsetAssumption DEF Init, DbOK, RowType, Hashes, Statuses
<1>2. SchedOK
  BY DEF Init, SchedOK, IdleDisp
<1>3. WorkerOK
  BY DEF Init, WorkerOK, WorkerPCs, IdleWorker, Hashes
<1>4. WorldOK
  BY MaxReleaseAssumption DEF Init, WorldOK, Releases
<1>5. HandlersOK
  BY DEF Init, HandlersOK, IdleReset, NoHist
<1> QED
  BY <1>1, <1>2, <1>3, <1>4, <1>5 DEF TypeOK

\* The dispatcher.
LEMMA TypeDispatch ==
    ASSUME TypeOK, Dispatch \/ DispatchFull
    PROVE  TypeOK'
<1> USE DEF TypeOK, SchedOK
<1>2. CASE DispatchExclude
  BY <1>2, Frame DEF DispatchExclude
<1>3. CASE DispatchQuery
  BY <1>3, Frame, Snapshots DEF DispatchQuery, IdleDisp, DbOK
<1>4. CASE DispatchStore
  BY <1>4, Frame DEF DispatchStore, IdleDisp
<1>5. CASE DispatchFull
  BY <1>5, Frame DEF DispatchFull, IdleDisp
<1> QED
  BY <1>2, <1>3, <1>4, <1>5 DEF Dispatch

\* The worker.  Its database writes go through the statements above.
LEMMA TypeWork ==
    ASSUME TypeOK, Work
    PROVE  TypeOK'
<1> USE DEF TypeOK, WorkerOK, WorkerPCs, Worker, Quiet, Returned, IdleWorker
<1>0. NoHash \in Hashes /\ {} \in SUBSET Releases /\ {} \in SUBSET Infohashes
  BY DEF Hashes
<1>1. CASE Take
  <2>1. SchedOK' /\ WorkerOK'
    BY <1>0, <1>1 DEF Take, SchedOK
  <2> QED
    BY <1>1, <2>1, Frame DEF Take
<1>2. CASE AwaitTurn
  <2>1. WorkerOK'
    BY <1>0, <1>2, Snapshots DEF AwaitTurn, DbOK
  <2> QED
    BY <1>2, <2>1, Frame DEF AwaitTurn
<1>3. CASE Check
  <2>1. w.snap \in Snaps /\ w.snap.row \in RowType
    BY <1>3 DEF Check, Snaps
  <2>2. Pending(w.snap.row) \in SUBSET Releases /\ CheckHash(w.snap.row) \in Hashes
    BY <2>1, Reports
  <2>3. WorkerOK'
    BY <1>3, <2>1, <2>2 DEF Check
  <2> QED
    BY <1>3, <2>3, Frame DEF Check
<1>4. CASE Found
  <2>1. w.snap.row.failing \in BOOLEAN
    BY <1>4 DEF Found, Snaps, RowType
  <2>2. WorkerOK'
    BY <1>0, <1>4, <2>1 DEF Found, DbOK
  <2> QED
    BY <1>4, <2>2, Frame DEF Found
<1>5. CASE Download
  <2>1. \A r \in IF Episodic THEN Oldest(w.pending) ELSE {published} :
           Torrent[r] \in Infohashes
    BY TorrentAssumption DEF Oldest, WorldOK
  <2>2. CASE w' = [w EXCEPT !.pc = "record"]
    BY <1>5, <2>2, Frame DEF Download
  <2>3. ASSUME NEW r \in IF Episodic THEN Oldest(w.pending) ELSE {published},
               w' = [w EXCEPT !.pc = "verify", !.payload = Torrent[r]]
        PROVE  WorkerOK'
    <3>1. Torrent[r] \in Infohashes /\ Torrent[r] # None
      BY <2>1, NoneAssumption
    <3> QED
      BY <1>5, <2>3, <3>1 DEF Download
  <2> QED
    BY <1>5, <2>2, <2>3, Frame DEF Download
<1>6. CASE Verify
  <2>1. WorkerOK'
    BY <1>6 DEF Verify, AfterLoop
  <2> QED
    BY <1>6, <2>1, Frame DEF Verify
<1>7. CASE Add
  <2>1. w.payload \in Infohashes
    BY <1>7 DEF Add
  <2>2. WorkerOK'
    <3>1. CASE Raises
      <4>1. FailCheck /\ w.pc = "add"
        BY <1>7, <3>1 DEF Add
      <4> QED
        BY <4>1 DEF FailCheck
    <3>2. CASE ~Raises
      <4>1. w' = [w EXCEPT !.pc = "log", !.got = w.got \cup {w.payload}, !.blind = FALSE]
            /\ w.pc = "add"
        BY <1>7, <3>2 DEF Add
      <4> QED
        BY <2>1, <4>1
    <3> QED
      BY <3>1, <3>2
  <2>3. WorldOK'
    BY <1>7, <2>1 DEF Add, WorldOK
  <2> QED
    BY <1>7, <2>2, <2>3, Frame DEF Add, handlerVars
<1>8. CASE LogDelivery
  <2>1. w.payload \in Infohashes
    BY <1>8 DEF LogDelivery
  <2>2. WorkerOK' /\ DbOK'
    BY <1>8, <2>1 DEF LogDelivery, AfterLog, AfterLoop, DbOK
  <2> QED
    BY <1>8, <2>2, Frame DEF LogDelivery
<1>9. CASE Mark
  <2>1. \A e \in Oldest(w.pending) : e \in w.pending /\ {e} \in SUBSET Releases
    BY DEF Oldest
  <2>2. DbOK'
    BY <1>9, <2>1, RowStatements DEF Mark, DbOK, RowType
  <2>3. WorkerOK'
    <3>1. PICK e \in Oldest(w.pending) :
             \/ \E pc \in {"download", "record"} :
                   w' = [w EXCEPT !.pending = w.pending \ {e}, !.pc = pc]
             \/ w' = [w EXCEPT !.pc = "record"]
      BY <1>9 DEF Mark
    <3>2. w.snap # None
      BY <1>9 DEF Mark
    <3>3. CASE w' = [w EXCEPT !.pc = "record"]
      BY <3>2, <3>3
    <3>4. ASSUME NEW pc \in {"download", "record"},
                 w' = [w EXCEPT !.pending = w.pending \ {e}, !.pc = pc]
          PROVE  WorkerOK'
      BY <3>2, <3>4
    <3> QED
      BY <3>1, <3>3, <3>4
  <2> QED
    BY <1>9, <2>2, <2>3, Frame DEF Mark
<1>10. CASE Replace
  <2>1. WorkerOK' /\ WorldOK'
    BY <1>10 DEF Replace, WorldOK
  <2> QED
    BY <1>10, <2>1, Frame DEF Replace, handlerVars
<1>11. CASE Prune
  <2>1. WorkerOK' /\ DbOK'
    BY <1>11 DEF Prune, DbOK
  <2> QED
    BY <1>11, <2>1, Frame DEF Prune
<1>12. CASE Announce
  <2>1. WorkerOK'
    BY <1>12 DEF Announce
  <2> QED
    BY <1>12, <2>1, Frame DEF Announce
<1>13. CASE See
  <2>1. DbOK'
    BY <1>13, RowStatements DEF See, DbOK, RowType
  <2>2. WorkerOK'
    BY <1>13 DEF See, WorthTelling
  <2>3. HandlersOK'
    BY <1>13 DEF See, HandlersOK, handlerVars
  <2> QED
    BY <1>13, <2>1, <2>2, <2>3, Frame DEF See
<1>14. CASE Record
  <2>1. w.snap \in Snaps /\ w.snap.row.hash \in Hashes
    BY <1>14 DEF Record, Snaps, RowType
  <2>2. ResultHash \in Hashes
    BY <2>1 DEF ResultHash
  <2>3. \A now \in Fresh : now \in Stamps
    BY DEF Fresh
  <2>4. DbOK'
    <3>1. CASE UNCHANGED <<row, due>>
      BY <1>14, <3>1 DEF Record, DbOK
    <3>2. CASE \E now \in Fresh :
                  row' = RecordCheckResult(row, ResultHash, w.failed, now)
      <4>1. row' \in RowType
        BY <2>2, <2>3, <3>2, RowStatements DEF DbOK
      <4> QED
        BY <1>14, <3>2, <4>1 DEF Record, DbOK
    <3> QED
      BY <1>14, <3>1, <3>2 DEF Record
  <2>5. WorkerOK'
    BY <1>0, <1>14 DEF Record
  <2>6. HandlersOK'
    <3>1. UNCHANGED handlerVars
      BY <1>14 DEF Record
    <3>2. \/ hist' = hist
          \/ \E b \in BOOLEAN : hist' = [hist EXCEPT !.owed = b]
      BY <1>14 DEF Record, HandlersOK
    <3> QED
      BY <3>1, <3>2 DEF HandlersOK, handlerVars
  <2> QED
    BY <1>14, <2>4, <2>5, <2>6, Frame DEF Record
<1>15. CASE Release
  <2>1. WorkerOK' /\ SchedOK'
    BY <1>0, <1>15 DEF Release, SchedOK
  <2> QED
    BY <1>15, <2>1, Frame DEF Release
<1> QED
  BY <1>1, <1>2, <1>3, <1>4, <1>5, <1>6, <1>7, <1>8, <1>9, <1>10, <1>11,
     <1>12, <1>13, <1>14, <1>15 DEF Work

\* Its failures.
LEMMA TypeFaults ==
    ASSUME TypeOK, Faults
    PROVE  TypeOK'
<1> USE DEF TypeOK, WorkerOK, WorkerPCs, Worker, Quiet
<1>1. CASE DispatchFull
  BY <1>1, TypeDispatch
<1>2. CASE AwaitTurnReadFails \/ CheckFails \/ DownloadFails
  <2>1. WorkerOK'
    <3>1. CASE AwaitTurnReadFails
      BY <3>1 DEF AwaitTurnReadFails
    <3>2. CASE CheckFails
      BY <3>2 DEF CheckFails, FailCheck
    <3>3. CASE DownloadFails
      BY <3>3 DEF DownloadFails, FailCheck
    <3> QED
      BY <1>2, <3>1, <3>2, <3>3
  <2> QED
    BY <1>2, <2>1, Frame DEF AwaitTurnReadFails, CheckFails, DownloadFails
<1>3. CASE VerifyFails \/ PruneFails \/ AnnounceVerifyFails
  <2>1. WorkerOK'
    <3>1. CASE VerifyFails
      BY <3>1 DEF VerifyFails
    <3>2. CASE PruneFails
      BY <3>2 DEF PruneFails
    <3>3. CASE AnnounceVerifyFails
      BY <3>3 DEF AnnounceVerifyFails
    <3> QED
      BY <1>3, <3>1, <3>2, <3>3
  <2> QED
    BY <1>3, <2>1, Frame DEF VerifyFails, PruneFails, AnnounceVerifyFails
<1>4. CASE LogDeliveryFails
  <2>1. WorkerOK'
    BY <1>4 DEF LogDeliveryFails, AfterLog, AfterLoop
  <2> QED
    BY <1>4, <2>1, Frame DEF LogDeliveryFails
<1>5. CASE FoundListFails
  <2>1. w.snap.row.failing \in BOOLEAN
    BY <1>5 DEF FoundListFails, Snaps, RowType
  <2>2. WorkerOK'
    BY <1>5, <2>1 DEF FoundListFails
  <2> QED
    BY <1>5, <2>2, Frame DEF FoundListFails
<1>6. CASE RecordFails
  <2>1. WorkerOK'
    BY <1>6 DEF RecordFails, Returned, IdleWorker, Hashes
  <2> QED
    BY <1>6, <2>1, Frame DEF RecordFails
<1>7. CASE AddFails \/ ReplaceFails
  <2>1. WorkerOK'
    <3>1. CASE AddFails
      BY <3>1 DEF AddFails, FailCheck
    <3>2. CASE ReplaceFails
      BY <3>2 DEF ReplaceFails
    <3> QED
      BY <1>7, <3>1, <3>2
  <2>2. WorldOK'
    BY <1>7 DEF AddFails, ReplaceFails, WorldOK
  <2> QED
    BY <1>7, <2>1, <2>2, Frame DEF AddFails, ReplaceFails, handlerVars
<1>8. CASE MarkFails \/ SeeFails
  <2>1. WorkerOK'
    <3>1. CASE MarkFails
      BY <3>1 DEF MarkFails, FailCheck
    <3>2. CASE SeeFails
      BY <3>2 DEF SeeFails, FailCheck
    <3> QED
      BY <1>8, <3>1, <3>2
  <2>2. row' = row \/ \E es \in SUBSET Releases : row' = MarkEpisodes(row, es)
    <3>1. Oldest(w.pending) \in SUBSET Releases /\ w.pending \in SUBSET Releases
      BY DEF Oldest
    <3>2. CASE MarkFails
      <4>1. row' = row \/ row' = MarkEpisodes(row, Oldest(w.pending))
        BY <3>2, Zenon DEF MarkFails
      <4> QED
        BY <3>1, <4>1, Zenon
    <3>3. CASE SeeFails
      <4>1. row' = row \/ row' = MarkEpisodes(row, w.pending)
        BY <3>3, Zenon DEF SeeFails
      <4> QED
        BY <3>1, <4>1, Zenon
    <3> QED
      BY <1>8, <3>2, <3>3, Zenon
  <2>3. DbOK'
    <3>1. row \in RowType /\ row.next \in Stamps
      BY DEF DbOK, RowType
    <3>2. \A es \in SUBSET Releases : MarkEpisodes(row, es) \in RowType
      BY <3>1, RowStatements
    <3>3. row' \in RowType
      BY <2>2, <3>1, <3>2, Zenon
    <3>4. due' = due /\ rows' = rows
      BY <1>8, Zenon DEF MarkFails, SeeFails
    <3> QED
      BY <3>3, <3>4 DEF DbOK
  <2>4. HandlersOK'
    BY <1>8 DEF MarkFails, SeeFails, HandlersOK, handlerVars
  <2> QED
    BY <1>8, <2>1, <2>3, <2>4, Frame DEF MarkFails, SeeFails
<1> QED
  BY <1>1, <1>2, <1>3, <1>4, <1>5, <1>6, <1>7, <1>8 DEF Faults

\* The API handlers.
LEMMA TypeHandlers ==
    ASSUME TypeOK, User \/ Finish \/ ResetFaults
    PROVE  TypeOK'
<1> USE DEF TypeOK, HandlersOK, Idle, IdleReset, handlerVars
<1>0. Fresh \subseteq Stamps /\ row.next \in Stamps /\ row.done \in SUBSET Releases
  BY DEF Fresh, DbOK, RowType
<1>1. CASE Recheck
  <2>1. DbOK'
    BY <1>0, <1>1, RowStatements DEF Recheck, DbOK
  <2> QED
    BY <1>1, <2>1, Frame DEF Recheck
<1>2. CASE Pause \/ Resume
  <2>1. DbOK'
    BY <1>0, <1>2, RowStatements DEF Pause, Resume, DbOK, Statuses
  <2> QED
    BY <1>2, <2>1, Frame DEF Pause, Resume
<1>3. CASE Delete
  <2>1. DbOK'
    BY <1>0, <1>3, RowStatements DEF Delete, DbOK
  <2>2. HandlersOK'
    BY <1>3 DEF Delete, NoHist
  <2> QED
    BY <1>3, <2>1, <2>2, Frame DEF Delete
<1>4. CASE EditRead \/ ResetStart
  <2>1. HandlersOK'
    BY <1>0, <1>4 DEF EditRead, ResetStart
  <2> QED
    BY <1>4, <2>1, Frame DEF EditRead, ResetStart
<1>5. CASE EditWrite
  <2>1. DbOK'
    BY <1>0, <1>5, RowStatements DEF EditWrite, DbOK
  <2>2. HandlersOK'
    BY <1>5 DEF EditWrite
  <2> QED
    BY <1>5, <2>1, <2>2, Frame DEF EditWrite
<1>6. CASE ResetList \/ ResetListFails \/ ResetAborts
  <2>1. HandlersOK'
    BY <1>6 DEF ResetList, ResetListFails, ResetAborts, DbOK
  <2> QED
    BY <1>6, <2>1, Frame DEF ResetList, ResetListFails, ResetAborts
<1>7. CASE ResetRemove \/ ResetRemoveFails
  <2>1. HandlersOK' /\ WorldOK'
    BY <1>7 DEF ResetRemove, ResetRemoveFails, WorldOK
  <2> QED
    BY <1>7, <2>1, Frame DEF ResetRemove, ResetRemoveFails
<1>8. CASE ResetRows
  <2>1. HandlersOK' /\ DbOK'
    BY <1>8 DEF ResetRows, DbOK
  <2> QED
    BY <1>8, <2>1, Frame DEF ResetRows
<1>9. CASE ResetCommit
  <2>1. DbOK'
    <3>1. \A now \in Fresh : ResetCheckState(row, now) \in RowType
      BY <1>0, RowStatements DEF DbOK
    <3>2. row' \in RowType /\ due' \in BOOLEAN
      BY <1>9, <3>1 DEF ResetCommit, DbOK
    <3> QED
      BY <1>9, <3>2 DEF ResetCommit, DbOK
  <2>2. HandlersOK'
    <3>1. /\ hist' = hist \/ hist' = NoHist
          /\ reset' = IdleReset /\ edit' = edit
      BY <1>9 DEF ResetCommit
    <3>2. IdleReset \in [pc : {"idle", "list", "remove", "rows", "commit"},
                         hit : SUBSET Infohashes]
      OBVIOUS
    <3>3. NoHist \in [owed : BOOLEAN, seen : SUBSET Releases,
                      hurt : SUBSET {"edit", "reset"}]
      BY DEF NoHist
    <3> HIDE DEF IdleReset
    <3> QED
      BY <3>1, <3>2, <3>3
  <2>3. SchedOK'
    BY <1>9, Snapshots DEF ResetCommit, SchedOK
  <2>4. WorkerOK'
    BY <1>9, Snapshots DEF ResetCommit, WorkerOK
  <2>5. WorldOK'
    BY <1>9, Frame DEF ResetCommit
  <2> QED
    BY <2>1, <2>2, <2>3, <2>4, <2>5
<1> QED
  BY <1>1, <1>2, <1>3, <1>4, <1>5, <1>6, <1>7, <1>8, <1>9
  DEF User, Finish, ResetFaults

\* The tracker, the clock and a restart.
LEMMA TypeWorld ==
    ASSUME TypeOK, Publish \/ ComeDue \/ Crash \/ UNCHANGED vars
    PROVE  TypeOK'
<1> USE DEF TypeOK
<1>1. CASE Publish
  <2>1. WorldOK'
    BY <1>1, MaxReleaseAssumption DEF Publish, WorldOK, Releases
  <2> QED
    BY <1>1, <2>1, Frame DEF Publish
<1>2. CASE ComeDue
  <2>1. DbOK'
    BY <1>2 DEF ComeDue, DbOK
  <2> QED
    BY <1>2, <2>1, Frame DEF ComeDue
<1>3. CASE Crash
  <2>1. SchedOK'
    BY <1>3 DEF Crash, SchedOK, IdleDisp
  <2>2. WorkerOK'
    BY <1>3 DEF Crash, WorkerOK, IdleWorker, WorkerPCs, Hashes
  <2>3. HandlersOK'
    BY <1>3 DEF Crash, HandlersOK, IdleReset
  <2> QED
    BY <1>3, <2>1, <2>2, <2>3, Frame DEF Crash
<1>4. CASE UNCHANGED vars
  BY <1>4, Frame DEF vars, handlerVars
<1> QED
  BY <1>1, <1>2, <1>3, <1>4

\* Every step, or none, keeps the state well-formed.
LEMMA TypeStep == TypeOK /\ [Next]_vars => TypeOK'
  BY TypeDispatch, TypeWork, TypeFaults, TypeHandlers, TypeWorld DEF Next

\* Every reachable state is well-formed: in particular a snapshot exists
\* exactly while the dispatcher or the worker is using it.
THEOREM TypeCorrect == Spec => []TypeOK
<1>1. Init => TypeOK
  BY TypeInit
<1>2. TypeOK /\ [Next]_vars => TypeOK'
  BY TypeStep
<1> QED
  BY <1>1, <1>2, PTL DEF Spec

(***************************************************************************)
(* The inductive invariant.  The dispatcher works alone: what it read of   *)
(* the inflight mark can only have gone down since.  A snapshot whose      *)
(* next_check_at is still the row's is a snapshot of the row's hash, and   *)
(* none a reset has overtaken.  A check that is about to record a result   *)
(* has a reason to move the hash, unless the row moved on.                 *)
(***************************************************************************)
DispatchAlone == disp.pc = "query" /\ ~disp.excluded => ~inflight

TokenGuard ==
    \A s \in Holders :
       /\ s.overtaken => s.row.next # row.next
       /\ s.row.next = row.next => s.row.checked = row.checked
       /\ s.row.next = row.next /\ row.status # "gone" => s.row.hash = row.hash

Stale == row.status = "gone" \/ w.snap.row.next # row.next

Justified ==
    \/ w.got # {} \/ (Episodic /\ w.pending = {})
    \/ w.hash = w.snap.row.hash \/ Stale
    \/ w.snap.row.mode = "notify" /\ (w.told \/ w.snap.row.hash = NoHash)

WorkerPath ==
    /\ w.pc \in {"announce", "see"} => w.snap.row.mode = "notify"
    /\ w.pc \in {"log", "mark", "replace", "prune"} => w.got # {}
    /\ w.pc = "record" /\ ~w.failed => Justified

IInv == TypeOK /\ OneCheckAtATime /\ DispatchAlone /\ TokenGuard /\ WorkerPath

\* Only one dispatcher marks topics, and only the worker unmarks them.
LEMMA OneCheckStep ==
    ASSUME TypeOK, OneCheckAtATime, DispatchAlone, [Next]_vars
    PROVE  OneCheckAtATime' /\ DispatchAlone'
<1> USE DEF OneCheckAtATime, DispatchAlone, schedVars, handlerVars
<1>1. CASE Dispatch \/ DispatchFull
  <2>1. CASE DispatchExclude
    BY <2>1 DEF DispatchExclude, TypeOK, SchedOK
  <2>2. CASE DispatchQuery
    <3>1. UNCHANGED <<inflight, job, w>>
          /\ (disp'.pc = "store" => ~disp.excluded) /\ disp'.pc # "query"
      BY <2>2 DEF DispatchQuery, IdleDisp, TypeOK, SchedOK
    <3> QED
      BY <2>2, <3>1 DEF DispatchQuery
  <2>3. CASE DispatchStore \/ DispatchFull
    BY <2>3 DEF DispatchStore, DispatchFull, IdleDisp, TypeOK, SchedOK
  <2> QED
    BY <1>1, <2>1, <2>2, <2>3 DEF Dispatch
<1>2. CASE Take \/ Release
  BY <1>2 DEF Take, Release, Worker, IdleWorker, TypeOK, SchedOK, WorkerOK
<1>3. CASE Crash
  BY <1>3 DEF Crash, IdleDisp, IdleWorker
<1>4. CASE ResetCommit
  <2>1. UNCHANGED <<inflight, disp.pc, disp.excluded, w.pc>> /\ (job' = None <=> job = None)
    BY <1>4, Snapshots DEF ResetCommit, TypeOK, SchedOK, WorkerOK
  <2> QED
    BY <2>1
<1>5. CASE UNCHANGED <<disp, inflight, job, w>>
  BY <1>5
<1>6. CASE UNCHANGED schedVars /\ w.pc # "idle"
  BY <1>6
<1> QED
  BY <1>1, <1>2, <1>3, <1>4, <1>5, <1>6
  DEF Next, Work, Faults, User, Finish, ResetFaults, vars, Worker, Quiet, Idle,
      AwaitTurn, Check, Found, Download, Verify, Add, LogDelivery, Mark,
      Replace, Prune, Announce, See, Record, AwaitTurnReadFails, CheckFails,
      FoundListFails, DownloadFails, VerifyFails, AddFails, LogDeliveryFails,
      MarkFails, ReplaceFails, PruneFails, AnnounceVerifyFails, SeeFails,
      RecordFails, Recheck, Pause, Resume, Delete, EditRead, ResetStart,
      EditWrite, ResetList, ResetRemove, ResetRows, ResetListFails,
      ResetRemoveFails, ResetAborts, Publish, ComeDue

\* A stamp of now() is held by nobody.
LEMMA FreshStamps ==
    \A now \in Fresh : now \in Stamps /\ \A s \in Holders : s.row.next # now
  BY DEF Fresh, HeldStamps

\* A step that leaves the row's token and hash alone, and lets nobody hold
\* anything but what was held already or the row itself, keeps TokenGuard.
LEMMA TokenKept ==
    ASSUME TokenGuard,
           row'.next = row.next, row'.checked = row.checked,
           row'.hash = row.hash \/ row'.status = "gone",
           row.status = "gone" => row'.status = "gone",
           Holders' \subseteq Holders \cup {Snap(row)}
    PROVE  TokenGuard'
<1>1. /\ Snap(row).row = row
      /\ ~Snap(row).overtaken
  BY DEF Snap
<1> QED
  BY <1>1 DEF TokenGuard

\* So does a step that gives the row a next_check_at nobody holds.
LEMMA TokenRenewed ==
    ASSUME row'.next \in Fresh,
           \A s \in Holders' : \E t \in Holders : s.row = t.row
    PROVE  TokenGuard'
  BY FreshStamps DEF TokenGuard

\* Every step keeps TokenGuard: it leaves the token alone, or renews it with a
\* stamp of now() that no snapshot holds.
LEMMA TokenStep ==
    ASSUME TypeOK, TokenGuard, [Next]_vars
    PROVE  TokenGuard'
<1> USE DEF schedVars, dbVars, handlerVars, Worker, Quiet
<1>0. row \in RowType
  BY DEF TypeOK, DbOK
<1>1. CASE Dispatch \/ DispatchFull
  <2>1. /\ disp'.snap \in {disp.snap, Snap(row), None}
        /\ job' \in {job, disp.snap}
        /\ UNCHANGED <<w, row>>
    <3> USE DEF TypeOK, SchedOK, IdleDisp
    <3>1. CASE DispatchExclude
      BY <3>1 DEF DispatchExclude
    <3>2. CASE DispatchQuery
      BY <3>2 DEF DispatchQuery
    <3>3. CASE DispatchStore \/ DispatchFull
      BY <3>3 DEF DispatchStore, DispatchFull
    <3> QED
      BY <1>1, <3>1, <3>2, <3>3 DEF Dispatch
  <2>2. Holders' \subseteq Holders \cup {Snap(row)}
    BY <2>1 DEF Holders
  <2> QED
    BY <2>1, <2>2, TokenKept
<1>2. CASE Take \/ AwaitTurn \/ Release \/ Crash
  <2>1. /\ disp'.snap \in {disp.snap, None} /\ job' \in {job, None}
        /\ w'.snap \in {w.snap, job, Snap(row), None}
        /\ row' = row
    <3> USE DEF TypeOK, WorkerOK, IdleWorker
    <3>0. CASE Take
      BY <3>0 DEF Take
    <3>1. CASE Release
      BY <3>1 DEF Release
    <3>2. CASE AwaitTurn
      BY <3>2 DEF AwaitTurn, Returned
    <3>3. CASE Crash
      BY <3>3 DEF Crash, IdleDisp
    <3> QED
      BY <1>2, <3>0, <3>1, <3>2, <3>3
  <2>2. Holders' \subseteq Holders \cup {Snap(row)}
    BY <2>1 DEF Holders
  <2> QED
    BY <2>1, <2>2, TokenKept
<1>3. CASE Mark \/ See \/ MarkFails \/ SeeFails
  <2>1. Holders' = Holders
    BY <1>3 DEF Mark, See, MarkFails, SeeFails, FailCheck, Holders, TypeOK,
                WorkerOK
  <2>2. row' = row \/ \E es : row' = MarkEpisodes(row, es)
    BY <1>3 DEF Mark, See, MarkFails, SeeFails
  <2>3. row'.next = row.next /\ row'.checked = row.checked
        /\ row'.hash = row.hash /\ row'.status = row.status
    BY <1>0, <2>2 DEF MarkEpisodes, RowType
  <2> QED
    BY <2>1, <2>3, TokenKept
<1>4. CASE Record
  <2>1. Holders' \subseteq Holders
    BY <1>4 DEF Record, Returned, IdleWorker, Holders
  <2>2. row' = row \/ \E now \in Fresh :
                         row' = RecordCheckResult(row, ResultHash, w.failed, now)
    BY <1>4 DEF Record
  <2>3. row' = row \/ row'.next \in Fresh
    BY <1>0, <2>2 DEF RecordCheckResult, RowType
  <2> QED
    BY <2>1, <2>3, TokenKept, TokenRenewed
<1>5. CASE Recheck
  <2>1. Holders' = Holders
    BY <1>5 DEF Recheck, Idle, Holders
  <2>2. row'.next \in Fresh
    BY <1>0, <1>5 DEF Recheck, QueueRecheck, RowType
  <2> QED
    BY <2>1, <2>2, TokenRenewed
<1>6. CASE Pause \/ Resume \/ Delete
  <2>1. Holders' = Holders
    BY <1>6 DEF Pause, Resume, Delete, Idle, Holders
  <2>2. /\ row'.next = row.next /\ row'.checked = row.checked
        /\ row'.hash = row.hash \/ row'.status = "gone"
        /\ row.status = "gone" => row'.status = "gone"
    BY <1>0, <1>6 DEF Pause, Resume, Delete, UpdateStatus, DeleteRow, RowType
  <2> QED
    BY <2>1, <2>2, TokenKept
<1>7. CASE EditWrite
  <2>1. Holders' = Holders
    BY <1>7 DEF EditWrite, Idle, Holders
  <2>2. CASE row' = row
    BY <2>1, <2>2, TokenKept
  <2>3. CASE \E m \in Modes, now \in Fresh \cup {row.next} :
                row' = Update(row, edit, m, now)
    <3>1. /\ row'.next \in Fresh \/ row'.next = row.next
          /\ row'.checked = row.checked /\ row'.hash = row.hash
          /\ row'.status = row.status
      BY <1>0, <2>3 DEF Update, RowType
    <3> QED
      BY <2>1, <3>1, TokenKept, TokenRenewed
  <2> QED
    BY <1>7, <2>2, <2>3 DEF EditWrite
<1>8. CASE ResetCommit
  <2>1. CASE row' = row /\ UNCHANGED <<disp, job, w>>
    <3>1. Holders' = Holders
      BY <2>1 DEF Holders
    <3> QED
      BY <2>1, <3>1, TokenKept
  <2>2. CASE /\ \E now \in Fresh : row' = ResetCheckState(row, now)
             /\ disp' = [disp EXCEPT !.snap = Overtake(@)]
             /\ job' = Overtake(job)
             /\ w' = [w EXCEPT !.snap = Overtake(@)]
    <3>1. row'.next \in Fresh
      BY <1>0, <2>2 DEF ResetCheckState, RowType
    <3>2. \A s \in Snaps : Overtake(s).row = s.row
      BY Snapshots DEF Overtake, Snaps
    <3>3. disp'.snap = Overtake(disp.snap) /\ w'.snap = Overtake(w.snap)
      BY <2>2 DEF TypeOK, SchedOK, WorkerOK
    <3>4. \A s \in Holders' : \E t \in Holders : s = Overtake(t)
      BY <2>2, <3>3, Snapshots DEF Holders, TypeOK, SchedOK, WorkerOK
    <3>5. Holders \subseteq Snaps
      BY DEF Holders, TypeOK, SchedOK, WorkerOK
    <3> QED
      BY <3>1, <3>2, <3>4, <3>5, TokenRenewed
  <2> QED
    BY <1>8, <2>1, <2>2 DEF ResetCommit
<1>9. CASE UNCHANGED <<row, disp, job>> /\ w'.snap \in {w.snap, None}
  <2>1. Holders' \subseteq Holders
    BY <1>9 DEF Holders
  <2> QED
    BY <1>9, <2>1, TokenKept
<1>10. CASE (Work \/ Faults) /\ ~(\/ Take \/ AwaitTurn \/ Release \/ Mark \/ See
                                 \/ MarkFails \/ SeeFails \/ Record
                                 \/ DispatchFull)
  <2>1. UNCHANGED <<row, disp, job>> /\ w'.snap \in {w.snap, None}
    BY <1>10
    DEF Work, Faults, Check, Found, Download, Verify, Add, LogDelivery, Replace,
        Prune, Announce, AwaitTurnReadFails, CheckFails, FoundListFails,
        DownloadFails, VerifyFails, AddFails, LogDeliveryFails,
        ReplaceFails, PruneFails, AnnounceVerifyFails, RecordFails,
        FailCheck, AfterLoop, AfterLog, Returned, IdleWorker, TypeOK, WorkerOK
  <2> QED
    BY <1>9, <2>1
<1>11. CASE \/ EditRead \/ ResetStart \/ ResetList \/ ResetRemove \/ ResetRows
            \/ ResetFaults \/ Publish \/ ComeDue \/ UNCHANGED vars
  <2>1. UNCHANGED <<row, disp, job>> /\ w'.snap \in {w.snap, None}
    BY <1>11 DEF EditRead, ResetStart, ResetList, ResetRemove, ResetRows,
                 ResetFaults, ResetListFails, ResetRemoveFails, ResetAborts,
                 Publish, ComeDue, Idle, vars
  <2> QED
    BY <1>9, <2>1
<1> QED
  BY <1>1, <1>2, <1>3, <1>4, <1>5, <1>6, <1>7, <1>8, <1>10, <1>11
  DEF Next, Work, Faults, User, Finish

\* Once the row has moved on from the worker's snapshot, it never comes back.
LEMMA StaleStays ==
    ASSUME TypeOK, TokenGuard, [Next]_vars, Stale, w.snap # None,
           w'.snap # None, w'.snap.row = w.snap.row
    PROVE  Stale'
<1> USE DEF Stale, dbVars
<1>1. w.snap \in Holders
  BY DEF Holders
<1>2. /\ row.status = "gone" => row'.status = "gone"
      /\ row'.next = row.next \/ row'.next \in Fresh
  <2> USE DEF TypeOK, DbOK, RowType
  <2>1. CASE row' = row
    BY <2>1
  <2>2. CASE Mark \/ See \/ MarkFails \/ SeeFails
    BY <2>2 DEF Mark, See, MarkFails, SeeFails, MarkEpisodes, MayMark, Matches
  <2>3. CASE Record
    BY <2>3 DEF Record, RecordCheckResult, Matches
  <2>4. CASE Recheck \/ Pause \/ Resume \/ Delete
    BY <2>4 DEF Recheck, Pause, Resume, Delete, QueueRecheck, UpdateStatus,
                DeleteRow, Scheduled
  <2>5. CASE EditWrite
    BY <2>5 DEF EditWrite, Update
  <2>6. CASE ResetCommit
    BY <2>6 DEF ResetCommit, ResetCheckState
  <2> QED
    BY <2>1, <2>2, <2>3, <2>4, <2>5, <2>6
    DEF Next, Dispatch, Work, Faults, User, Finish, ResetFaults, vars,
        DispatchExclude, DispatchQuery, DispatchStore, DispatchFull, Take,
        AwaitTurn, Check, Found, Download, Verify, Add, LogDelivery, Replace,
        Prune, Announce, Release, AwaitTurnReadFails, CheckFails,
        FoundListFails, DownloadFails, VerifyFails, AddFails,
        LogDeliveryFails, ReplaceFails, PruneFails,
        AnnounceVerifyFails, RecordFails, EditRead, ResetStart,
        ResetList, ResetRemove, ResetRows, ResetListFails, ResetRemoveFails,
        ResetAborts, Publish, ComeDue, Crash
<1> QED
  BY <1>1, <1>2, FreshStamps

\* VerifyCheckState and the guards of the statements tell exactly that.
LEMMA StaleIsNoMatch ==
    ASSUME TypeOK, TokenGuard, w.snap # None
    PROVE  Stale <=> ~Matches(row, w.snap.row)
<1>1. w.snap \in Holders
  BY DEF Holders
<1> QED
  BY <1>1 DEF TokenGuard, Stale, Matches, Token

\* The program points of a check at which it has delivered or only notifies,
\* and what entitles it to move the hash when it comes to recording.
LEMMA PathWork ==
    ASSUME IInv, Work, w'.snap = w.snap, w.snap # None, Stale => Stale'
    PROVE  WorkerPath'
<1> USE DEF WorkerPath, Justified, Worker
<1>0. /\ WorkerOK /\ WorkerPath
      /\ Stale <=> ~Matches(row, w.snap.row)
  BY StaleIsNoMatch DEF IInv, TypeOK
<1> USE <1>0 DEF WorkerOK
<1>1. CASE Check
  BY <1>1 DEF Check, WorkerPCs
<1>2. CASE Found
  BY <1>2 DEF Found
<1>3. CASE Download
  <2>1. w'.pc \in {"record", "verify"} /\ w'.snap = w.snap /\ w'.pending = w.pending
        /\ w'.got = w.got /\ w'.told = w.told /\ w'.hash = w.hash /\ w'.failed = w.failed
    BY <1>3 DEF Download
  <2> QED
    BY <1>3, <2>1 DEF Download
<1>4. CASE Verify
  <2>1. CASE Matches(row, w.snap.row)
    BY <1>4, <2>1 DEF Verify
  <2>2. CASE ~Matches(row, w.snap.row)
    <3>1. w'.pc \in {"replace", "record"} /\ (w'.pc = "replace" => w.got # {})
          /\ w'.got = w.got
      BY <1>4, <2>2 DEF Verify, AfterLoop
    <3> QED
      BY <2>2, <3>1
  <2> QED
    BY <2>1, <2>2
<1>5. CASE Add
  <2>1. CASE Raises
    <3>1. FailCheck
      BY <1>5, <2>1 DEF Add
    <3> QED
      BY <3>1 DEF FailCheck
  <2>2. CASE ~Raises
    <3>1. w' = [w EXCEPT !.pc = "log", !.got = w.got \cup {w.payload}, !.blind = FALSE]
      BY <1>5, <2>2 DEF Add
    <3> QED
      BY <3>1
  <2> QED
    BY <2>1, <2>2
<1>6. CASE LogDelivery
  <2>1. w'.pc \in {"mark", "replace", "record"} /\ w'.got = w.got
    BY <1>6 DEF LogDelivery, AfterLog, AfterLoop
  <2> QED
    BY <1>6, <2>1 DEF LogDelivery
<1>7. CASE Mark
  <2>1. w'.pc \in {"download", "record"} /\ w'.got = w.got
    BY <1>7 DEF Mark
  <2> QED
    BY <1>7, <2>1 DEF Mark
<1>8. CASE Replace \/ Prune
  BY <1>8 DEF Replace, Prune
<1>9. CASE Announce
  <2>1. w'.pc \in {"see", "record"} /\ w.snap.row.mode = "notify"
    BY <1>9 DEF Announce
  <2>2. w'.pc = "record" => Stale'
    BY <1>9 DEF Announce
  <2> QED
    BY <2>1, <2>2
<1>10. CASE See
  <2>1. /\ w'.pc = "record" /\ w'.pending = w.pending
        /\ w.snap.row.mode = "notify"
    BY <1>10 DEF See
  <2>2. PICK announceCurrent \in BOOLEAN :
           w'.told = ((w.pending = {} \/ MayMark) /\ WorthTelling(announceCurrent))
    BY <1>10 DEF See
  <2>3. w'.told \/ w.snap.row.hash = NoHash \/ Stale' \/ (Episodic /\ w.pending = {})
    BY <2>2 DEF WorthTelling, MayMark
  <2> QED
    BY <2>1, <2>3
<1>11. CASE Take \/ AwaitTurn \/ Record \/ Release
  <2>1. w'.pc \notin {"announce", "see", "log", "mark", "replace", "prune", "record"}
    BY <1>11 DEF Take, AwaitTurn, Record, Release, Returned, IdleWorker
  <2> QED
    BY <2>1
<1> QED
  BY <1>1, <1>2, <1>3, <1>4, <1>5, <1>6, <1>7, <1>8, <1>9, <1>10, <1>11
  DEF Work

\* The same for the failures of a check, and for a reset overtaking it.
LEMMA PathFaults ==
    ASSUME IInv, Faults \/ ResetCommit, w.snap # None, Stale => Stale',
           w'.snap # None, w'.snap.row = w.snap.row
    PROVE  WorkerPath'
<1> USE DEF WorkerPath, Justified, Worker
<1>0. WorkerOK /\ WorkerPath
  BY DEF IInv, TypeOK
<1> USE <1>0 DEF WorkerOK
<1>1. CASE \/ AwaitTurnReadFails \/ CheckFails \/ DownloadFails \/ AddFails
           \/ MarkFails \/ SeeFails
  <2>1. w'.pc = "check" \/ (w'.pc = "record" /\ w'.failed)
    <3>1. CASE AwaitTurnReadFails
      BY <3>1 DEF AwaitTurnReadFails
    <3>2. CASE CheckFails
      BY <3>2 DEF CheckFails, FailCheck
    <3>3. CASE DownloadFails
      BY <3>3 DEF DownloadFails, FailCheck
    <3>4. CASE AddFails
      BY <3>4 DEF AddFails, FailCheck
    <3>5. CASE MarkFails
      BY <3>5 DEF MarkFails, FailCheck
    <3>6. CASE SeeFails
      BY <3>6 DEF SeeFails, FailCheck
    <3> QED
      BY <1>1, <3>1, <3>2, <3>3, <3>4, <3>5, <3>6
  <2> QED
    BY <2>1
<1>2. CASE VerifyFails \/ FoundListFails
  <2>1. w'.pc \in {"add", "download"}
    <3>1. CASE VerifyFails
      BY <3>1 DEF VerifyFails
    <3>2. CASE FoundListFails
      BY <3>2 DEF FoundListFails
    <3> QED
      BY <1>2, <3>1, <3>2
  <2> QED
    BY <2>1
<1>3. CASE ReplaceFails \/ PruneFails
  BY <1>3 DEF ReplaceFails, PruneFails
<1>4. CASE AnnounceVerifyFails
  BY <1>4 DEF AnnounceVerifyFails
<1>5. CASE LogDeliveryFails
  <2>1. w'.pc \in {"mark", "replace", "record"} /\ w'.got = w.got
    BY <1>5 DEF LogDeliveryFails, AfterLog, AfterLoop
  <2> QED
    BY <1>5, <2>1 DEF LogDeliveryFails
<1>6. CASE RecordFails
  BY <1>6 DEF RecordFails, Returned, IdleWorker
<1>7. CASE DispatchFull
  <2>1. w' = w
    BY <1>7 DEF DispatchFull
  <2> QED
    BY <2>1
<1>8. CASE ResetCommit
  <2>1. /\ w'.pc = w.pc /\ w'.got = w.got /\ w'.pending = w.pending
        /\ w'.hash = w.hash /\ w'.told = w.told /\ w'.failed = w.failed
    BY <1>8 DEF ResetCommit
  <2> QED
    BY <2>1
<1> QED
  BY <1>1, <1>2, <1>3, <1>4, <1>5, <1>6, <1>7, <1>8 DEF Faults

\* Every step keeps WorkerPath.
LEMMA PathStep == IInv /\ [Next]_vars => WorkerPath'
<1> SUFFICES ASSUME IInv, [Next]_vars PROVE WorkerPath'
  OBVIOUS
<1>0. TypeOK /\ TypeOK' /\ TokenGuard /\ WorkerPath
  BY TypeStep DEF IInv
<1>1. CASE w'.pc \in {"idle", "turn", "check", "done"}
  BY <1>1 DEF WorkerPath
<1>2. ASSUME w.snap # None, w'.snap # None, w'.snap.row = w.snap.row
      PROVE  Stale => Stale'
  BY <1>0, <1>2, StaleStays
<1>3. CASE w' = w
  <2>1. CASE w.snap = None
    BY <1>0, <1>1, <1>3, <2>1 DEF TypeOK, WorkerOK
  <2>2. CASE w.snap # None
    BY <1>0, <1>2, <1>3, <2>2 DEF WorkerPath, Justified
  <2> QED
    BY <2>1, <2>2
<1>4. CASE Work
  <2>1. CASE Take \/ AwaitTurn \/ Record \/ Release
    <3>1. w'.pc \in {"idle", "turn", "check", "done"}
      <4>0. CASE Take
        BY <4>0 DEF Take, IdleWorker
      <4>1. CASE Record \/ Release
        BY <4>1 DEF Record, Release, Returned, IdleWorker
      <4>2. CASE AwaitTurn
        BY <1>0, <4>2 DEF AwaitTurn, Returned, IdleWorker, TypeOK, WorkerOK
      <4> QED
        BY <2>1, <4>0, <4>1, <4>2
    <3> QED
      BY <1>1, <3>1
  <2>2. CASE ~(Take \/ AwaitTurn \/ Record \/ Release)
    <3>1. w.pc \notin {"idle", "done"}
      BY <1>4, <2>2
      DEF Work, Worker, Check, Found, Download, Verify, Add, LogDelivery, Mark,
          Replace, Prune, Announce, See
    <3>2. w'.snap = w.snap
      <4> USE <1>0 DEF TypeOK, WorkerOK
      <4>1. CASE Check
        BY <4>1 DEF Check
      <4>2. CASE Found
        BY <4>2 DEF Found
      <4>3. CASE Download
        BY <4>3 DEF Download
      <4>4. CASE Verify
        BY <4>4 DEF Verify, AfterLoop
      <4>5. CASE Add
        BY <4>5 DEF Add, FailCheck
      <4>6. CASE LogDelivery
        BY <4>6 DEF LogDelivery, AfterLog, AfterLoop
      <4>7. CASE Mark
        BY <4>7 DEF Mark
      <4>8. CASE Replace
        BY <4>8 DEF Replace
      <4>9. CASE Prune
        BY <4>9 DEF Prune
      <4>10. CASE Announce
        BY <4>10 DEF Announce
      <4>11. CASE See
        BY <4>11 DEF See
      <4> QED
        BY <1>4, <2>2, <4>1, <4>2, <4>3, <4>4, <4>5, <4>6, <4>7, <4>8, <4>9, <4>10, <4>11 DEF Work
    <3>3. w.snap # None
      BY <1>0, <3>1 DEF TypeOK, WorkerOK
    <3> QED
      BY <1>2, <1>4, <3>2, <3>3, PathWork
  <2> QED
    BY <2>1, <2>2
<1>5. CASE Faults
  <2>1. CASE RecordFails
    BY <1>1, <2>1 DEF RecordFails, Returned, IdleWorker
  <2>2. CASE DispatchFull
    BY <1>3, <2>2 DEF DispatchFull
  <2>3. CASE ~(RecordFails \/ DispatchFull)
    <3>1. w.pc \notin {"idle", "done"}
      BY <1>5, <2>3
      DEF Faults, Worker, AwaitTurnReadFails, CheckFails, FoundListFails,
          DownloadFails, VerifyFails, AddFails, LogDeliveryFails, MarkFails,
          ReplaceFails, PruneFails, AnnounceVerifyFails, SeeFails
    <3>2. w'.snap = w.snap
      <4> USE <1>0 DEF TypeOK, WorkerOK
      <4>1. CASE AwaitTurnReadFails
        BY <4>1 DEF AwaitTurnReadFails
      <4>2. CASE CheckFails
        BY <4>2 DEF CheckFails, FailCheck
      <4>3. CASE FoundListFails
        BY <4>3 DEF FoundListFails
      <4>4. CASE DownloadFails
        BY <4>4 DEF DownloadFails, FailCheck
      <4>5. CASE VerifyFails
        BY <4>5 DEF VerifyFails
      <4>6. CASE AddFails
        BY <4>6 DEF AddFails, FailCheck
      <4>7. CASE LogDeliveryFails
        BY <4>7 DEF LogDeliveryFails, AfterLog, AfterLoop
      <4>8. CASE MarkFails
        BY <4>8 DEF MarkFails, FailCheck
      <4>9. CASE ReplaceFails
        BY <4>9 DEF ReplaceFails
      <4>10. CASE PruneFails
        BY <4>10 DEF PruneFails
      <4>11. CASE AnnounceVerifyFails
        BY <4>11 DEF AnnounceVerifyFails
      <4>12. CASE SeeFails
        BY <4>12 DEF SeeFails, FailCheck
      <4> QED
        BY <1>5, <2>3, <4>1, <4>2, <4>3, <4>4, <4>5, <4>6, <4>7, <4>8, <4>9, <4>10, <4>11, <4>12 DEF Faults
    <3>3. w.snap # None
      BY <1>0, <3>1 DEF TypeOK, WorkerOK
    <3> QED
      BY <1>2, <1>5, <3>2, <3>3, PathFaults
  <2> QED
    BY <2>1, <2>2, <2>3
<1>6. CASE ResetCommit
  <2>1. CASE w.snap = None
    <3>1. w'.snap = None
      BY <1>0, <1>6, <2>1 DEF ResetCommit, Overtake, TypeOK, WorkerOK
    <3>2. w'.pc \in {"idle", "done"}
      BY <1>0, <3>1 DEF TypeOK, WorkerOK
    <3> QED
      BY <1>1, <3>2
  <2>2. CASE w.snap # None
    <3>1. w.snap \in Snaps
      BY <1>0, <2>2 DEF TypeOK, WorkerOK
    <3>2. w'.snap = w.snap \/ w'.snap = Overtake(w.snap)
      BY <1>0, <1>6 DEF ResetCommit, TypeOK, WorkerOK
    <3>3. w'.snap # None /\ w'.snap.row = w.snap.row
      BY <2>2, <3>1, <3>2, Snapshots DEF Overtake, Snaps
    <3> QED
      BY <1>2, <1>6, <2>2, <3>3, PathFaults
  <2> QED
    BY <2>1, <2>2
<1>7. CASE Crash
  BY <1>1, <1>7 DEF Crash, IdleWorker
<1> QED
  BY <1>3, <1>4, <1>5, <1>6, <1>7
  DEF Next, vars, Idle, Dispatch, User, Finish, ResetFaults, DispatchExclude,
      DispatchQuery, DispatchStore, Recheck, Pause, Resume, Delete, EditRead,
      ResetStart, EditWrite, ResetList, ResetRemove, ResetRows, ResetListFails,
      ResetRemoveFails, ResetAborts, Publish, ComeDue

\* IInv holds initially and every step keeps it.
LEMMA Inductive ==
    /\ Init => IInv
    /\ IInv /\ [Next]_vars => IInv'
<1>1. ASSUME Init PROVE OneCheckAtATime /\ DispatchAlone /\ TokenGuard /\ WorkerPath
  BY <1>1 DEF Init, OneCheckAtATime, DispatchAlone, TokenGuard, WorkerPath,
              IdleDisp, IdleWorker, Holders
<1> QED
  BY <1>1, TypeInit, TypeStep, OneCheckStep, TokenStep, PathStep DEF IInv

(***************************************************************************)
(* The safety properties.                                                  *)
(***************************************************************************)

\* Scheduler.inflight makes the checks of a topic exclusive.
THEOREM ChecksExclude == Spec => []OneCheckAtATime
<1>1. IInv => OneCheckAtATime
  BY DEF IInv
<1> QED
  BY <1>1, Inductive, PTL DEF Spec

\* A snapshot a reset has overtaken matches no more.
LEMMA OvertakenIsNoMatch ==
    ASSUME IInv, w.snap # None, w.snap.overtaken
    PROVE  ~Matches(row, w.snap.row)
  BY DEF IInv, TokenGuard, Holders, Matches, Token

\* A check a reset has overtaken never writes the row, whatever the user, the
\* dispatcher and the failures did in between: the guards of
\* RecordCheckResult, MarkEpisodeDownloaded and MarkEpisodesDownloaded.
THEOREM StaleWritesNothing == Spec => StaleCheckNeverWrites
<1>1. IInv /\ [Next]_vars =>
         (w.snap # None /\ w'.pc # w.pc /\ w.snap.overtaken => row' = row)
  <2> SUFFICES ASSUME IInv, [Next]_vars, w.snap # None, w'.pc # w.pc,
                      w.snap.overtaken
               PROVE  row' = row
    OBVIOUS
  <2> USE OvertakenIsNoMatch DEF dbVars
  <2>1. CASE Work
    <3>1. CASE See
      <4>1. row' = row \/ row' = MarkEpisodes(row, {})
        BY <3>1 DEF See, MayMark
      <4>2. row \in RowType
        BY DEF IInv, TypeOK, DbOK
      <4> QED
        BY <4>1, <4>2 DEF MarkEpisodes, RowType
    <3>2. CASE Mark
      BY <3>2 DEF Mark, MayMark
    <3>3. CASE Record
      BY <3>3 DEF Record
    <3> QED
      BY <2>1, <3>1, <3>2, <3>3
      DEF Work, Take, AwaitTurn, Check, Found, Download, Verify, Add,
          LogDelivery, Replace, Prune, Announce, Release
  <2>2. CASE Faults
    BY <2>2
    DEF Faults, MayMark, DispatchFull, AwaitTurnReadFails, CheckFails, FoundListFails,
        DownloadFails, VerifyFails, AddFails, LogDeliveryFails, MarkFails,
        ReplaceFails, PruneFails, AnnounceVerifyFails, SeeFails, RecordFails
  <2>3. CASE Crash
    BY <2>3 DEF Crash
  <2>4. CASE ResetCommit
    BY <2>4 DEF ResetCommit, IInv, TypeOK, WorkerOK
  <2> QED
    BY <2>1, <2>2, <2>3, <2>4
    DEF Next, vars, Idle, Dispatch, User, Finish, ResetFaults, DispatchExclude,
        DispatchQuery, DispatchStore, Recheck, Pause, Resume, Delete, EditRead,
        ResetStart, EditWrite, ResetList, ResetRemove, ResetRows,
        ResetListFails, ResetRemoveFails, ResetAborts, Publish, ComeDue
<1> QED
  BY <1>1, Inductive, PTL DEF Spec, StaleCheckNeverWrites

\* Nor does such a check hand anything to the client after VerifyCheckState
\* has answered it.
THEOREM NothingSubmittedAfterReset == Spec => NoSubmissionAfterReset
<1>1. IInv /\ [Next]_vars =>
         (Worker("verify") /\ w'.pc = "add" /\ ~w'.blind => ~w.snap.overtaken)
  <2> SUFFICES ASSUME IInv, [Next]_vars, Worker("verify"), w'.pc = "add",
                      ~w'.blind
               PROVE  ~w.snap.overtaken
    OBVIOUS
  <2>0. w.pc = "verify" /\ w.snap # None /\ WorkerOK
    BY DEF IInv, TypeOK, WorkerOK, Worker
  <2>1. Work \/ Faults
    BY <2>0
    DEF Next, vars, Idle, Dispatch, User, Finish, ResetFaults, DispatchExclude,
        DispatchQuery, DispatchStore, Recheck, Pause, Resume, Delete, EditRead,
        ResetStart, EditWrite, ResetList, ResetRemove, ResetRows, ResetCommit,
        ResetListFails, ResetRemoveFails, ResetAborts, Publish, ComeDue, Crash,
        IdleWorker, WorkerOK
  <2>2. Verify
    <3>1. Verify \/ VerifyFails \/ DispatchFull
      BY <2>0, <2>1
      DEF Work, Faults, Worker, Take, AwaitTurn, Check, Found, Download, Add,
          LogDelivery, Mark, Replace, Prune, Announce, See, Record, Release,
          AwaitTurnReadFails, CheckFails, FoundListFails, DownloadFails,
          AddFails, LogDeliveryFails, MarkFails, ReplaceFails, PruneFails,
          AnnounceVerifyFails, SeeFails, RecordFails
    <3>2. ~VerifyFails
      BY <2>0 DEF VerifyFails, WorkerOK
    <3>3. ~DispatchFull
      BY <2>0 DEF DispatchFull
    <3> QED
      BY <3>1, <3>2, <3>3
  <2>3. Matches(row, w.snap.row)
    BY <2>0, <2>2 DEF Verify, AfterLoop, WorkerOK
  <2> QED
    BY <2>0, <2>3, OvertakenIsNoMatch
<1> QED
  BY <1>1, Inductive, PTL DEF Spec, NoSubmissionAfterReset

\* Only a recorded check moves the hash, and only with a reason.
LEMMA HashStep ==
    ASSUME IInv, [Next]_vars, row'.hash \notin {row.hash, NoHash}
    PROVE  w.pc = "record" /\ Justified /\ ~Stale
           /\ w.hash # w.snap.row.hash
<1>0. row \in RowType
  BY DEF IInv, TypeOK, DbOK
<1>1. ~(\/ Mark \/ See \/ MarkFails \/ SeeFails \/ Recheck \/ Pause \/ Resume
        \/ Delete \/ EditWrite \/ ResetCommit)
  <2>1. ASSUME Mark \/ See \/ MarkFails \/ SeeFails PROVE FALSE
    BY <1>0, <2>1 DEF Mark, See, MarkFails, SeeFails, MarkEpisodes, RowType
  <2>2. ASSUME Recheck \/ Pause \/ Resume \/ Delete PROVE FALSE
    BY <1>0, <2>2 DEF Recheck, Pause, Resume, Delete, QueueRecheck,
                      UpdateStatus, DeleteRow, RowType
  <2>3. ASSUME EditWrite PROVE FALSE
    BY <1>0, <2>3 DEF EditWrite, Update, RowType
  <2>4. ASSUME ResetCommit PROVE FALSE
    BY <1>0, <2>4 DEF ResetCommit, ResetCheckState, RowType
  <2> QED
    BY <2>1, <2>2, <2>3, <2>4
<1>2. Record
  BY <1>1
  DEF Next, vars, dbVars, Idle, Dispatch, Work, Faults, User, Finish,
      ResetFaults, DispatchExclude, DispatchQuery, DispatchStore, DispatchFull,
      Take, AwaitTurn, Check, Found, Download, Verify, Add, LogDelivery,
      Replace, Prune, Announce, Release, AwaitTurnReadFails, CheckFails,
      FoundListFails, DownloadFails, VerifyFails, AddFails, LogDeliveryFails,
      ReplaceFails, PruneFails, AnnounceVerifyFails,
      RecordFails, EditRead, ResetStart, ResetList, ResetRemove, ResetRows,
      ResetListFails, ResetRemoveFails, ResetAborts, Publish, ComeDue, Crash
<1>3. w.pc = "record" /\ w.snap # None
  BY <1>2 DEF Record, Worker, IInv, TypeOK, WorkerOK
<1>4. Matches(row, w.snap.row) /\ ResultHash # NoHash /\ ResultHash # row.hash
  BY <1>0, <1>2 DEF Record, RecordCheckResult, RowType
<1>5. ~Stale
  BY <1>3, <1>4, StaleIsNoMatch DEF IInv
<1>6. w.snap.row.hash = row.hash
  BY <1>3, <1>4 DEF IInv, TokenGuard, Holders, Matches, Token
<1>7. ~w.failed /\ w.hash # w.snap.row.hash
  BY <1>4, <1>6 DEF ResultHash
<1> QED
  BY <1>3, <1>5, <1>7 DEF IInv, WorkerPath

\* last_hash only ever moves to a release that was handed to the client, or
\* announced, or has no episode pending: a release cannot be lost by a failed
\* or a discarded check.
THEOREM HashIsDelivered == Spec => HashMeansDelivered
<1>1. IInv /\ [Next]_vars =>
         (row'.hash \notin {row.hash, NoHash} =>
            \/ w.got # {}
            \/ w.snap.row.mode = "notify"
            \/ Episodic /\ w.pending = {})
  BY HashStep DEF Justified
<1> QED
  BY <1>1, Inductive, PTL DEF Spec, HashMeansDelivered

\* And the user hears of it.
THEOREM AdvancesAreVisible == Spec => AdvanceIsVisible
<1>1. IInv /\ [Next]_vars =>
         (row'.hash \notin {row.hash, NoHash} =>
            \/ w.told \/ w.got # {}
            \/ w.snap.row.mode = "notify" /\ w.snap.row.hash = NoHash
            \/ Episodic /\ w.pending = {})
  BY HashStep DEF Justified
<1> QED
  BY <1>1, Inductive, PTL DEF Spec, AdvanceIsVisible

(***************************************************************************)
(* Nothing delivered gets lost.                                            *)
(***************************************************************************)

\* No reset is between the client and its commit, and nothing went wrong that
\* only a reset repairs.
Whole == hist.hurt = {} /\ reset.pc \notin {"rows", "commit"}

\* The check in flight works from a topic that exists and was not reset.
Current == w.snap # None /\ ~w.snap.overtaken /\ row.status # "gone"

\* What the worker's variables say to one another.
Payloads ==
    /\ w.pc = "turn" => w.got = {}
    /\ w.pc = "replace" => w.got # {} /\ ~Episodic
    /\ Episodic => w.prior = {}
    /\ Episodic /\ w.pc \in {"verify", "add", "log", "mark"}
         => \A e \in Oldest(w.pending) : w.payload = Torrent[e]
    /\ w.pc \in {"log", "mark"} => w.payload \in w.got

\* A delivery is owed by a topic that exists, and by no check of the time
\* before the reset.
Owing ==
    /\ hist.owed => \A s \in Holders : ~s.overtaken
    /\ row.status = "gone" => ~hist.owed /\ row.done = {}

\* The client has what the check in flight delivered, a copy while one is
\* owed, and the episodes downloaded.
Copies ==
    Whole => /\ Current => w.got \subseteq torrents
             /\ hist.owed => torrents # {}
             /\ Episodic => \A e \in row.done \ hist.seen : Torrent[e] \in torrents

\* What is pending was not downloaded, for a check of the time since the reset.
Unmarked ==
    hist.hurt = {} /\ row.status # "gone" =>
        /\ \A s \in {disp.snap, job} \ {None} : ~s.overtaken => s.row.done = row.done
        /\ w.pc \in {"turn", "check"} /\ ~w.snap.overtaken => w.snap.row.done = row.done
        /\ w.pc \in {"found", "download", "verify", "add", "log", "mark", "announce", "see"}
             /\ ~w.snap.overtaken
             => w.pending \cap row.done = {}

\* Added to IInv, it is inductive.
Kept == Payloads /\ Owing /\ Copies /\ Unmarked

\* A new topic owes nothing.
LEMMA KeptInit == Init => Kept
  BY DEF Init, Kept, Payloads, Owing, Copies, Unmarked, IdleWorker, IdleDisp, IdleReset,
      NoHist, Holders

\* While a check runs nobody else holds a snapshot of its topic.
LEMMA Alone ==
    ASSUME IInv, w.pc # "idle"
    PROVE  disp.snap = None /\ job = None /\ (w.pc # "done" => Holders = {w.snap})
  BY DEF IInv, TypeOK, SchedOK, WorkerOK, OneCheckAtATime, Holders

\* There is one oldest episode.
LEMMA OneOldest ==
    ASSUME NEW S \in SUBSET Releases, NEW e \in Oldest(S), NEW f \in Oldest(S)
    PROVE  e = f
  BY MaxReleaseAssumption DEF Oldest, Releases

\* Only the worker changes what it carries.
LEMMA PayloadsStep == IInv /\ Payloads /\ [Next]_vars => Payloads'
<1> SUFFICES ASSUME IInv, Payloads, [Next]_vars PROVE Payloads'
  OBVIOUS
<1>0. WorkerOK /\ WorkerOK'
  BY TypeStep DEF IInv, TypeOK
<1> USE <1>0 DEF Payloads, WorkerOK, Worker
<1>1. CASE w' = w
  BY <1>1
<1>2. CASE Take \/ Release \/ Record \/ RecordFails \/ Crash
  <2>1. w'.pc \in {"idle", "turn", "check", "done"} /\ w'.got = {} /\ w'.prior = {}
    <3>1. CASE Take
      BY <3>1 DEF Take, IdleWorker
    <3>2. CASE Release \/ Record \/ RecordFails \/ Crash
      BY <3>2 DEF Release, Record, RecordFails, Crash, Returned, IdleWorker
    <3> QED BY <1>2, <3>1, <3>2
  <2> QED BY <2>1
<1>3. CASE AwaitTurn \/ AwaitTurnReadFails \/ Check \/ CheckFails
  <2>1. CASE AwaitTurn
    <3>1. CASE w' = Returned
      BY <3>1 DEF Returned, IdleWorker
    <3>2. CASE w' = [w EXCEPT !.pc = "check", !.snap = Snap(row)]
      BY <3>2
    <3> QED BY <2>1, <3>1, <3>2 DEF AwaitTurn
  <2>2. CASE AwaitTurnReadFails
    BY <2>2 DEF AwaitTurnReadFails
  <2>3. CASE Check
    <3>1. w'.pc \in {"record", "announce", "found"} /\ w'.prior = w.prior
      BY <2>3 DEF Check
    <3> QED BY <3>1
  <2>4. CASE CheckFails
    BY <2>4 DEF CheckFails, FailCheck
  <2> QED BY <1>3, <2>1, <2>2, <2>3, <2>4
<1>4. CASE Found \/ FoundListFails
  <2>1. w'.pc = "download" /\ (w'.prior = w.prior \/ ~Episodic \/ w'.prior = {})
    <3>1. CASE Found
      BY <3>1 DEF Found
    <3>2. CASE FoundListFails
      BY <3>2 DEF FoundListFails
    <3> QED
      BY <1>4, <3>1, <3>2
  <2> QED BY <2>1
<1>5. CASE Download \/ DownloadFails
  <2>1. CASE DownloadFails
    BY <2>1 DEF DownloadFails, FailCheck
  <2>2. CASE w' = [w EXCEPT !.pc = "record"]
    BY <2>2
  <2>3. ASSUME NEW r \in IF Episodic THEN Oldest(w.pending) ELSE {published},
               w' = [w EXCEPT !.pc = "verify", !.payload = Torrent[r]]
        PROVE  Payloads'
    <3>1. /\ w'.pc = "verify" /\ w'.payload = Torrent[r]
          /\ w'.pending = w.pending /\ w'.prior = w.prior
      BY <2>3
    <3>2. Episodic => \A e \in Oldest(w.pending) : e = r
      BY OneOldest
    <3> QED BY <3>1, <3>2
  <2> QED BY <1>5, <2>1, <2>2, <2>3 DEF Download
<1>6. CASE Verify \/ VerifyFails
  <2>1. w.pc = "verify" /\ w'.pending = w.pending /\ w'.payload = w.payload
        /\ w'.got = w.got /\ w'.prior = w.prior
    <3>1. CASE Verify
      BY <3>1 DEF Verify, AfterLoop
    <3>2. CASE VerifyFails
      BY <3>2 DEF VerifyFails
    <3> QED
      BY <1>6, <3>1, <3>2
  <2>2. \/ w'.pc \in {"add", "record"}
        \/ w'.pc = "replace" /\ w.got # {} /\ w.prior # {}
    <3>1. CASE Verify
      BY <3>1 DEF Verify, AfterLoop, Superseded
    <3>2. CASE VerifyFails
      BY <3>2 DEF VerifyFails
    <3> QED
      BY <1>6, <3>1, <3>2
  <2> QED BY <2>1, <2>2
<1>7. CASE Add \/ AddFails
  <2>1. CASE Add /\ ~Raises
    <3>1. w' = [w EXCEPT !.pc = "log", !.got = w.got \cup {w.payload}, !.blind = FALSE]
      BY <2>1 DEF Add
    <3>2. w'.pc = "log" /\ w'.got = w.got \cup {w.payload} /\ w'.payload = w.payload
          /\ w'.pending = w.pending /\ w'.prior = w.prior
      BY <3>1
    <3>3. w.pc = "add"
      BY <2>1 DEF Add
    <3> QED BY <3>2, <3>3
  <2>2. CASE AddFails
    BY <2>2 DEF AddFails, FailCheck
  <2>3. CASE Add /\ Raises
    <3>1. FailCheck
      BY <2>3 DEF Add
    <3> QED
      BY <3>1 DEF FailCheck
  <2> QED BY <1>7, <2>1, <2>2, <2>3
<1>8. CASE LogDelivery \/ LogDeliveryFails
  BY <1>8 DEF LogDelivery, LogDeliveryFails, AfterLog, AfterLoop, Superseded
<1>9. CASE Mark \/ MarkFails
  <2>1. w'.pc \in {"download", "record"} /\ w'.prior = w.prior
    <3>1. CASE Mark
      BY <3>1 DEF Mark
    <3>2. CASE MarkFails
      BY <3>2 DEF MarkFails, FailCheck
    <3> QED BY <1>9, <3>1, <3>2
  <2> QED BY <2>1
<1>10. CASE Replace \/ ReplaceFails \/ Prune \/ PruneFails
  <2>1. w'.pc \in {"prune", "record"} /\ w'.prior = w.prior
    <3>1. CASE Replace
      BY <3>1 DEF Replace
    <3>2. CASE ReplaceFails
      BY <3>2 DEF ReplaceFails
    <3>3. CASE Prune
      BY <3>3 DEF Prune
    <3>4. CASE PruneFails
      BY <3>4 DEF PruneFails
    <3> QED
      BY <1>10, <3>1, <3>2, <3>3, <3>4
  <2> QED BY <2>1
<1>11. CASE Announce \/ AnnounceVerifyFails \/ See \/ SeeFails
  <2>1. w'.pc \in {"see", "record"} /\ w'.prior = w.prior
    <3>1. CASE Announce
      BY <3>1 DEF Announce
    <3>2. CASE AnnounceVerifyFails
      BY <3>2 DEF AnnounceVerifyFails
    <3>3. CASE See
      BY <3>3 DEF See
    <3>4. CASE SeeFails
      BY <3>4 DEF SeeFails, FailCheck
    <3> QED
      BY <1>11, <3>1, <3>2, <3>3, <3>4
  <2> QED BY <2>1
<1>12. CASE ResetCommit
  BY <1>12 DEF ResetCommit
<1> QED
  BY <1>1, <1>2, <1>3, <1>4, <1>5, <1>6, <1>7, <1>8, <1>9, <1>10, <1>11, <1>12
  DEF Next, vars, Idle, Dispatch, Work, Faults, User, Finish, ResetFaults,
      DispatchExclude, DispatchQuery, DispatchStore, DispatchFull, Recheck, Pause,
      Resume, Delete, EditRead, ResetStart, EditWrite, ResetList, ResetRemove,
      ResetRows, ResetListFails, ResetRemoveFails, ResetAborts, Publish, ComeDue

\* A delivery is owed from a check no reset has overtaken, and a reset or the
\* deletion takes the debt away.
LEMMA OwingStep == IInv /\ Owing /\ [Next]_vars => Owing'
<1> SUFFICES ASSUME IInv, Owing, [Next]_vars PROVE Owing'
  OBVIOUS
<1>0. TypeOK /\ TypeOK'
  BY TypeStep DEF IInv
<1>a. row \in RowType /\ WorkerOK /\ SchedOK /\ HandlersOK
  BY <1>0 DEF TypeOK, DbOK
<1>1. hist'.owed => \A s \in Holders' : ~s.overtaken
  <2>1. CASE UNCHANGED <<disp.snap, job>> /\ w'.snap \in {w.snap, None} /\ (hist'.owed => hist.owed)
    BY <2>1 DEF Owing, Holders
  <2>2. CASE Take \/ AwaitTurn \/ DispatchQuery \/ DispatchStore \/ DispatchFull
    <3>1. hist'.owed = hist.owed
      BY <2>2 DEF Take, AwaitTurn, DispatchQuery, DispatchStore, DispatchFull
    <3>2. \A s \in Holders' : s \in Holders \/ s = Snap(row)
      <4>1. CASE Take
        <5>1. w'.snap = job /\ job' = None /\ disp' = disp
          BY <4>1 DEF Take, IdleWorker
        <5> QED BY <5>1 DEF Holders
      <4>2. CASE AwaitTurn
        <5>1. w'.snap \in {None, Snap(row)} /\ UNCHANGED <<disp, job>>
          BY <4>2, <1>a DEF AwaitTurn, Returned, IdleWorker, WorkerOK, Quiet, schedVars
        <5> QED BY <5>1 DEF Holders
      <4>3. CASE DispatchQuery
        BY <4>3, <1>a DEF DispatchQuery, IdleDisp, Holders, SchedOK
      <4>4. CASE DispatchStore \/ DispatchFull
        BY <4>4, <1>a DEF DispatchStore, DispatchFull, IdleDisp, Holders, SchedOK
      <4> QED BY <2>2, <4>1, <4>2, <4>3, <4>4
    <3> QED BY <3>1, <3>2 DEF Owing, Snap
  <2>3. CASE Record
    <3>1. w.pc = "record" /\ disp.snap = None /\ job = None
      BY <2>3, Alone DEF Record, Worker
    <3>2. w'.snap = None /\ disp' = disp /\ job' = job
      BY <2>3 DEF Record, Returned, IdleWorker, Quiet, schedVars
    <3> QED BY <3>1, <3>2 DEF Holders
  <2>4. CASE ResetCommit
    <3>1. CASE row.status = "gone"
      BY <2>4, <3>1 DEF ResetCommit, Owing, Holders
    <3>2. CASE row.status # "gone"
      BY <2>4, <3>2 DEF ResetCommit, NoHist
    <3> QED BY <3>1, <3>2
  <2>5. CASE Crash
    BY <2>5 DEF Crash, IdleDisp, IdleWorker, Holders
  <2>6. CASE Delete
    BY <2>6 DEF Delete, NoHist
  <2>7. CASE Work \/ Faults \/ UNCHANGED vars
    <3>1. CASE Work /\ ~(Take \/ AwaitTurn \/ Record)
      <4>1. w'.snap \in {w.snap, None} /\ UNCHANGED <<disp, job>>
        <5>1. CASE Release
          BY <5>1 DEF Release, IdleWorker
        <5>2. CASE Mark
          BY <5>2, <1>a DEF Mark, WorkerOK, Quiet, schedVars
        <5>3. CASE See
          BY <5>3, <1>a DEF See, WorkerOK, Quiet, schedVars
        <5>4. CASE Check \/ Found \/ Download \/ Verify \/ Add \/ LogDelivery \/ Replace \/ Prune \/ Announce
          BY <5>4, <1>a DEF WorkerOK, Quiet, schedVars, Check, Found, Download, Verify,
              Add, FailCheck, LogDelivery,
             Replace, Prune, Announce, AfterLoop, AfterLog
        <5> QED BY <3>1, <5>1, <5>2, <5>3, <5>4 DEF Work
      <4>2. hist'.owed = hist.owed
        BY <3>1, <1>a DEF Work, HandlersOK, Check, Found, Download, Verify, Add,
            LogDelivery, Mark,
             Replace, Prune, Announce, See, Release
      <4> QED BY <4>1, <4>2, <2>1
    <3>2. CASE Faults /\ ~DispatchFull
      <4>1. w'.snap \in {w.snap, None} /\ UNCHANGED <<disp, job>>
        BY <3>2, <1>a DEF Faults, WorkerOK, Quiet, schedVars, AwaitTurnReadFails,
            CheckFails,
             FoundListFails, DownloadFails, VerifyFails, AddFails, LogDeliveryFails,
             MarkFails,
             ReplaceFails, PruneFails, AnnounceVerifyFails, SeeFails, RecordFails,
             FailCheck,
             AfterLoop, AfterLog, Returned, IdleWorker
      <4>2. hist'.owed = hist.owed
        BY <3>2, <1>a DEF Faults, HandlersOK, AwaitTurnReadFails, CheckFails,
             FoundListFails, DownloadFails, VerifyFails, AddFails, LogDeliveryFails,
             MarkFails,
             ReplaceFails, PruneFails, AnnounceVerifyFails, SeeFails, RecordFails
      <4> QED BY <4>1, <4>2, <2>1
    <3>3. CASE UNCHANGED vars
      BY <3>3, <2>1 DEF vars, schedVars
    <3> QED BY <2>2, <2>3, <2>7, <3>1, <3>2, <3>3
  <2>8. CASE Recheck \/ Pause \/ Resume \/ EditRead \/ EditWrite \/ ResetStart \/ ResetList \/ ResetListFails
             \/ ResetRemove \/ ResetRemoveFails \/ ResetRows \/ ResetAborts \/ Publish \/ ComeDue \/ DispatchExclude
    <3>1. w' = w /\ job' = job /\ disp'.snap = disp.snap
      BY <2>8, <1>a DEF SchedOK, Recheck, Pause, Resume, EditRead, EditWrite, ResetStart,
          ResetList, ResetListFails,
         ResetRemove, ResetRemoveFails, ResetRows, ResetAborts, Publish, ComeDue,
         DispatchExclude, Idle, schedVars
    <3>2. hist'.owed = hist.owed
      BY <2>8, <1>a DEF HandlersOK, Recheck, Pause, Resume, EditRead, EditWrite,
          ResetStart, ResetList, ResetListFails,
         ResetRemove, ResetRemoveFails, ResetRows, ResetAborts, Publish, ComeDue,
         DispatchExclude
    <3> QED BY <3>1, <3>2, <2>1
  <2> QED BY <2>2, <2>4, <2>5, <2>6, <2>7, <2>8 DEF Next, Dispatch, User, Finish, ResetFaults
<1>2. row'.status = "gone" => ~hist'.owed /\ row'.done = {}
  <2>1. CASE row' = row /\ hist'.owed = hist.owed
    BY <2>1 DEF Owing
  <2>2. CASE Mark \/ MarkFails \/ See \/ SeeFails
    <3>1. hist'.owed = hist.owed
      BY <2>2, <1>a DEF Mark, MarkFails, See, SeeFails, HandlersOK
    <3>2. row' = row \/ (MayMark /\ row'.status = row.status) \/ row' = MarkEpisodes(row, {})
      BY <2>2, <1>a DEF Mark, MarkFails, See, SeeFails, MarkEpisodes, RowType
    <3>3. MarkEpisodes(row, {}) = row
      BY <1>a DEF MarkEpisodes, RowType
    <3> QED BY <3>1, <3>2, <3>3, <2>1 DEF MayMark, Matches
  <2>3. CASE Record
    <3>1. CASE Matches(row, w.snap.row)
      BY <2>3, <3>1, <1>a DEF Record, RecordCheckResult, RowType
    <3>2. CASE ~Matches(row, w.snap.row)
      BY <2>3, <3>2, <2>1 DEF Record
    <3> QED BY <3>1, <3>2
  <2>4. CASE ResetCommit
    <3>1. CASE row.status = "gone"
      BY <2>4, <3>1, <2>1 DEF ResetCommit
    <3>2. CASE row.status # "gone"
      BY <2>4, <3>2, <1>a DEF ResetCommit, ResetCheckState, RowType
    <3> QED BY <3>1, <3>2
  <2>5. CASE Delete
    BY <2>5, <1>a DEF Delete, NoHist, DeleteRow, RowType
  <2>6. CASE Recheck \/ Pause \/ Resume
    BY <2>6, <1>a DEF Recheck, Pause, Resume, Scheduled, QueueRecheck, UpdateStatus, RowType
  <2>7. CASE EditWrite
    BY <2>7, <1>a, <2>1 DEF EditWrite, Update, RowType
  <2>8. CASE Crash \/ ResetAborts
    BY <2>8, <1>a, <2>1 DEF Crash, ResetAborts, HandlersOK, dbVars, Idle
  <2>9. CASE UNCHANGED <<row, hist>>
    BY <2>9, <2>1
  <2> QED
    BY <2>2, <2>3, <2>4, <2>5, <2>6, <2>7, <2>8, <2>9
    DEF Next, vars, dbVars, Dispatch, Work, Faults, User, Finish, ResetFaults, DispatchExclude,
      DispatchQuery, DispatchStore, DispatchFull, Take, AwaitTurn, Check, Found, Download,
      Verify, Add, LogDelivery,
      Replace, Prune, Announce, Release, AwaitTurnReadFails, CheckFails,
      FoundListFails, DownloadFails, VerifyFails, AddFails, LogDeliveryFails,
      ReplaceFails, PruneFails, AnnounceVerifyFails,
      RecordFails, EditRead, ResetStart, ResetList, ResetRemove, ResetRows,
      ResetListFails, ResetRemoveFails, Publish, ComeDue
<1> QED BY <1>1, <1>2 DEF Owing

\* The list only grows by what the check itself marks, edits apart.
LEMMA UnmarkedStep == IInv /\ Unmarked /\ [Next]_vars => Unmarked'
<1> SUFFICES ASSUME IInv, Unmarked, [Next]_vars PROVE Unmarked'
  OBVIOUS
<1>a. row \in RowType /\ WorkerOK /\ SchedOK /\ HandlersOK
  BY DEF IInv, TypeOK, DbOK
<1>1. CASE /\ row'.done = row.done
           /\ row'.status # "gone" => row.status # "gone"
           /\ hist'.hurt = {} => hist.hurt = {}
           /\ UNCHANGED <<disp.snap, job, w>>
  BY <1>1 DEF Unmarked
<1>2. CASE DispatchQuery
  <2>1. disp'.snap \in {Snap(row), None} /\ UNCHANGED <<job, w, row, hist>>
    BY <1>2, <1>a DEF DispatchQuery, IdleDisp, SchedOK, dbVars
  <2> QED BY <2>1 DEF Unmarked, Snap
<1>3. CASE DispatchStore \/ DispatchFull
  <2>1. disp'.snap = None /\ job' \in {job, disp.snap} /\ UNCHANGED <<w, row, hist>>
    BY <1>3 DEF DispatchStore, DispatchFull, IdleDisp, dbVars
  <2> QED BY <2>1 DEF Unmarked
<1>4. CASE Take
  <2>1. job # None /\ w'.snap = job /\ w'.pc \in {"turn", "check"} /\ job' = None /\ UNCHANGED <<disp, row, hist>>
    BY <1>4 DEF Take, IdleWorker, dbVars
  <2> QED BY <2>1 DEF Unmarked
<1>5. ASSUME w.pc # "idle", UNCHANGED <<disp, job>>,
             \/ w'.pc \in {"record", "prune", "replace", "done", "idle"}
             \/ hist'.hurt = {} /\ row'.status # "gone" /\ ~w'.snap.overtaken =>
                   IF w'.pc \in {"turn", "check"} THEN w'.snap.row.done = row'.done
                                                  ELSE w'.pending \cap row'.done = {}
      PROVE  Unmarked'
  BY <1>5, Alone DEF Unmarked
<1>6. CASE AwaitTurn \/ AwaitTurnReadFails
  <2>1. /\ w.pc = "turn" /\ UNCHANGED <<row, hist, disp, job>>
        /\ \/ w'.pc = "done"
           \/ w'.pc = "check" /\ w'.snap = Snap(row)
           \/ w'.pc = "check" /\ w'.snap = w.snap
    BY <1>6, <1>a DEF AwaitTurn, AwaitTurnReadFails, Worker, Quiet, schedVars, dbVars,
        Returned, IdleWorker, WorkerOK
  <2> QED BY <2>1, <1>5 DEF Unmarked, Snap
<1>7. CASE Check
  <2>1. w.pc = "check" /\ w'.pc \in {"record", "announce", "found"} /\ w'.snap = w.snap /\ UNCHANGED <<row, hist, disp, job>>
    BY <1>7, <1>a DEF Check, Worker, Quiet, schedVars, dbVars, WorkerOK
  <2>2. w'.pending \cap w.snap.row.done = {}
    BY <1>7, <1>a DEF Check, Pending, WorkerOK
  <2> QED BY <2>1, <2>2, <1>5 DEF Unmarked
<1>8. CASE Found \/ FoundListFails \/ Download \/ Verify \/ VerifyFails \/ Add \/ LogDelivery \/ LogDeliveryFails
           \/ Announce \/ AnnounceVerifyFails
  <2> USE <1>a DEF Worker, Quiet, schedVars, dbVars, WorkerOK
  <2>1. /\ w.pc \in {"found", "download", "verify", "add", "log", "announce"}
        /\ w'.pc \notin {"turn", "check"}
        /\ w'.snap = w.snap /\ w'.pending = w.pending /\ UNCHANGED <<row, hist, disp, job>>
    <3>1. CASE Found
      BY <3>1 DEF Found
    <3>2. CASE FoundListFails
      BY <3>2 DEF FoundListFails
    <3>3. CASE Download
      BY <3>3 DEF Download
    <3>4. CASE Verify
      BY <3>4 DEF Verify, AfterLoop
    <3>5. CASE VerifyFails
      BY <3>5 DEF VerifyFails
    <3>6. CASE Add
      BY <3>6 DEF Add, FailCheck
    <3>7. CASE LogDelivery
      BY <3>7 DEF LogDelivery, AfterLog, AfterLoop
    <3>8. CASE LogDeliveryFails
      BY <3>8 DEF LogDeliveryFails, AfterLog, AfterLoop
    <3>9. CASE Announce
      BY <3>9 DEF Announce
    <3>10. CASE AnnounceVerifyFails
      BY <3>10 DEF AnnounceVerifyFails
    <3> QED
      BY <1>8, <3>1, <3>2, <3>3, <3>4, <3>5, <3>6, <3>7, <3>8, <3>9, <3>10
  <2> QED BY <2>1, <1>5 DEF Unmarked
<1>9. CASE Mark
  <2>1. w.pc = "mark" /\ UNCHANGED <<disp, job, hist>>
    BY <1>9 DEF Mark, Worker, Quiet, schedVars
  <2>2. CASE w'.pc = "record"
    BY <2>1, <2>2, <1>5
  <2>3. CASE w'.pc # "record"
    <3>1. PICK e \in Oldest(w.pending) : /\ row' = MarkEpisodes(row, {e})
                                         /\ w' = [w EXCEPT !.pending = w.pending \ {e}, !.pc = "download"]
      BY <1>9, <2>3, <1>a DEF Mark, WorkerOK
    <3>2. row'.done = row.done \cup {e} /\ row'.status = row.status
      BY <3>1, <1>a DEF MarkEpisodes, RowType
    <3>3. w'.pending = w.pending \ {e} /\ w'.pc = "download" /\ w'.snap = w.snap
      BY <3>1, <1>a DEF WorkerOK
    <3> QED BY <2>1, <3>2, <3>3, <1>5 DEF Unmarked
  <2> QED BY <2>2, <2>3
<1>10. CASE MarkFails \/ See \/ SeeFails \/ Record \/ RecordFails \/ Replace \/ ReplaceFails \/ Prune \/ PruneFails
            \/ CheckFails \/ DownloadFails \/ AddFails
  <2>1. w.pc # "idle" /\ w'.pc \in {"record", "prune", "done"} /\ UNCHANGED <<disp, job>>
    BY <1>10, <1>a DEF MarkFails, See, SeeFails, Record, RecordFails, Replace,
        ReplaceFails, Prune, PruneFails,
         CheckFails, DownloadFails, AddFails, FailCheck, Worker, Quiet, schedVars,
         Returned, IdleWorker, WorkerOK
  <2> QED BY <2>1, <1>5
<1>11. CASE Release
  <2>1. w.pc = "done" /\ w'.pc = "idle" /\ UNCHANGED <<disp, job>>
    BY <1>11 DEF Release, Worker, IdleWorker
  <2> QED BY <2>1, <1>5
<1>12. CASE ResetCommit
  <2>1. CASE row.status = "gone"
    BY <1>12, <2>1, <1>a DEF ResetCommit, Unmarked
  <2>2. CASE row.status # "gone"
    <3>1. \A s \in Snaps \cup {None} : Overtake(s) # None => Overtake(s).overtaken
      BY DEF Overtake, Snaps
    <3>2. disp'.snap = Overtake(disp.snap) /\ job' = Overtake(job) /\ w'.snap = Overtake(w.snap) /\ w'.pc = w.pc
      BY <1>12, <2>2, <1>a DEF ResetCommit, SchedOK, WorkerOK
    <3>3. w.pc \notin {"idle", "done"} => w'.snap # None
      BY <3>2, <1>a, Snapshots DEF WorkerOK
    <3> QED BY <3>1, <3>2, <3>3, <1>a DEF Unmarked, SchedOK, WorkerOK
  <2> QED BY <2>1, <2>2
<1>13. CASE Crash
  BY <1>13 DEF Crash, IdleDisp, IdleWorker, Unmarked
<1>14. CASE Delete
  BY <1>14, <1>a DEF Delete, DeleteRow, RowType, Unmarked
<1>15. CASE EditWrite
  <2>1. CASE edit = row.done \/ row.status = "gone"
    BY <1>15, <2>1, <1>a, <1>1 DEF EditWrite, Update, RowType, Idle, schedVars
  <2>2. CASE edit # row.done /\ row.status # "gone"
    <3>1. hist'.hurt # {}
      BY <1>15, <2>2, <1>a DEF EditWrite, HandlersOK
    <3> QED BY <3>1 DEF Unmarked
  <2> QED BY <2>1, <2>2
<1>16. CASE Recheck \/ Pause \/ Resume \/ EditRead \/ ResetStart \/ ResetList \/ ResetListFails
             \/ ResetRemove \/ ResetRemoveFails \/ ResetRows \/ ResetAborts \/ Publish \/ ComeDue \/ DispatchExclude
             \/ UNCHANGED vars
  <2>1. UNCHANGED <<w, job>> /\ disp'.snap = disp.snap
    BY <1>16, <1>a DEF vars, SchedOK, Recheck, Pause, Resume, EditRead, ResetStart,
        ResetList, ResetListFails,
         ResetRemove, ResetRemoveFails, ResetRows, ResetAborts, Publish, ComeDue,
         DispatchExclude, Idle, schedVars
  <2>2. hist'.hurt = {} => hist.hurt = {}
    BY <1>16, <1>a DEF vars, HandlersOK, Recheck, Pause, Resume, EditRead, ResetStart,
        ResetList, ResetListFails,
         ResetRemove, ResetRemoveFails, ResetRows, ResetAborts, Publish, ComeDue,
         DispatchExclude
  <2>3. row'.done = row.done /\ (row'.status # "gone" => row.status # "gone")
    BY <1>16, <1>a DEF vars, dbVars, RowType, QueueRecheck, UpdateStatus, Recheck, Pause,
        Resume, EditRead, ResetStart, ResetList,
         ResetListFails, ResetRemove, ResetRemoveFails, ResetRows, ResetAborts, Publish,
         ComeDue, DispatchExclude
  <2> QED BY <2>1, <2>2, <2>3, <1>1
<1> QED
  BY <1>2, <1>3, <1>4, <1>6, <1>7, <1>8, <1>9, <1>10, <1>11, <1>12, <1>13, <1>14, <1>15,
      <1>16
  DEF Next, Dispatch, Work, Faults, User, Finish, ResetFaults

\* A step that takes no torrent away and asks for no more than before.
LEMMA CopiesStay ==
    ASSUME Copies, torrents \subseteq torrents', Whole' => Whole,
           Current' => Current, w'.got = w.got, hist'.owed => hist.owed,
           row'.done \ hist'.seen \subseteq row.done \ hist.seen
    PROVE  Copies'
  BY DEF Copies

\* The same of a step that forgets what the check delivered.
LEMMA CopiesForgotten ==
    ASSUME Copies, w'.got = {}, UNCHANGED <<row, torrents, hist>>, Whole' => Whole
    PROVE  Copies'
  BY DEF Copies

\* The worker: replacing spares what was just delivered, and the token's guard
\* lets only a current check mark and record.
LEMMA CopiesWork == ASSUME IInv, Payloads, Owing, Copies, Work \/ Faults PROVE Copies'
<1>a. row \in RowType /\ WorkerOK /\ WorldOK /\ HandlersOK
  BY DEF IInv, TypeOK, DbOK
<1>1. CASE Replace \/ ReplaceFails
  <2>1. w.pc = "replace" /\ w.got # {} /\ ~Episodic /\ w.snap # None
    BY <1>1, <1>a DEF Replace, ReplaceFails, Payloads, Worker, WorkerOK
  <2>2. UNCHANGED <<row, reset, hist>> /\ w'.got = w.got /\ w'.snap = w.snap
    BY <1>1, <1>a DEF Replace, ReplaceFails, Quiet, dbVars, handlerVars, WorkerOK
  <2>3. torrents \ w.prior \subseteq torrents' /\ torrents \cap w.got \subseteq torrents'
    BY <1>1 DEF Replace, ReplaceFails, Superseded
  <2>4. hist.owed => Current
    BY <2>1 DEF Owing, Current, Holders
  <2> QED BY <2>1, <2>2, <2>3, <2>4 DEF Copies, Whole, Current
<1>2. CASE Add
  <2>1. UNCHANGED <<row, reset, hist>> /\ w'.got \subseteq w.got \cup {w.payload} /\ w'.snap = w.snap
        /\ torrents' = torrents \cup {w.payload}
    BY <1>2, <1>a DEF Add, FailCheck, Quiet, dbVars, handlerVars, WorkerOK
  <2> QED BY <2>1 DEF Copies, Whole, Current
<1>3. CASE Mark \/ MarkFails
  <2>1. w.pc = "mark" /\ UNCHANGED <<torrents, reset, hist>> /\ w'.got = w.got /\ w'.snap = w.snap
    BY <1>3, <1>a DEF Mark, MarkFails, FailCheck, Quiet, Worker, worldVars, handlerVars,
        WorkerOK
  <2>2. CASE row' = row
    BY <2>1, <2>2, CopiesStay DEF Whole, Current
  <2>3. ASSUME MayMark, NEW S \in SUBSET Oldest(w.pending), row' = MarkEpisodes(row, S) PROVE Copies'
    <3>1. row'.done = row.done \cup S /\ row'.status = row.status
      BY <2>3, <1>a DEF MarkEpisodes, RowType
    <3>2. Current
      BY <2>1, <2>3, <1>a, OvertakenIsNoMatch DEF Current, MayMark, Matches, WorkerOK
    <3>3. Episodic => \A e \in S : Torrent[e] \in w.got
      BY <2>1 DEF Payloads
    <3> QED BY <2>1, <3>1, <3>2, <3>3 DEF Copies, Whole, Current
  <2> QED BY <1>3, <2>2, <2>3 DEF Mark, MarkFails
<1>4. CASE See \/ SeeFails
  <2>1. UNCHANGED <<torrents, reset>> /\ w'.got = w.got /\ w'.snap = w.snap
    BY <1>4, <1>a DEF See, SeeFails, FailCheck, Quiet, Worker, worldVars, handlerVars,
        WorkerOK
  <2>2. CASE UNCHANGED <<row, hist>>
    BY <2>1, <2>2, CopiesStay DEF Whole, Current
  <2>3. CASE row' = MarkEpisodes(row, w.pending) /\ hist' = [hist EXCEPT !.seen = hist.seen \cup w.pending]
    <3>1. row'.done = row.done \cup w.pending /\ row'.status = row.status
      BY <2>3, <1>a DEF MarkEpisodes, RowType
    <3>2. hist'.seen = hist.seen \cup w.pending /\ hist'.owed = hist.owed /\ hist'.hurt = hist.hurt
      BY <2>3, <1>a DEF HandlersOK
    <3> QED BY <2>1, <3>1, <3>2, CopiesStay DEF Whole, Current
  <2> QED BY <1>4, <2>2, <2>3 DEF See, SeeFails
<1>5. CASE Record
  <2>1. w.pc = "record" /\ w.snap # None /\ w'.got = {} /\ UNCHANGED <<torrents, reset>>
    BY <1>5, <1>a DEF Record, Worker, WorkerOK, Quiet, worldVars, handlerVars, Returned,
        IdleWorker
  <2>2. CASE UNCHANGED <<row, hist>>
    BY <2>1, <2>2, CopiesForgotten DEF Whole
  <2>3. CASE Matches(row, w.snap.row)
    <3>1. row'.done = row.done
      BY <1>5, <2>3, <1>a DEF Record, RecordCheckResult, RowType
    <3>2. hist'.owed => hist.owed \/ w.got # {}
      BY <1>5, <2>3, <1>a DEF Record, HandlersOK
    <3>3. hist'.seen = hist.seen /\ hist'.hurt = hist.hurt
      BY <1>5, <2>3, <1>a DEF Record, HandlersOK
    <3>4. Current
      BY <2>1, <2>3, <1>a, OvertakenIsNoMatch DEF Current, Matches, WorkerOK
    <3> QED BY <2>1, <3>1, <3>2, <3>3, <3>4 DEF Copies, Whole
  <2> QED BY <1>5, <2>2, <2>3 DEF Record
<1>6. CASE Take \/ AwaitTurn \/ Release \/ RecordFails
  <2>1. w'.got = {} /\ UNCHANGED <<row, reset, hist, torrents>>
    <3>1. CASE Take
      BY <3>1 DEF Take, IdleWorker, dbVars, worldVars, handlerVars
    <3>2. CASE AwaitTurn
      BY <3>2, <1>a DEF AwaitTurn, Worker, Payloads, Returned, IdleWorker, WorkerOK, Quiet,
          dbVars, worldVars, handlerVars
    <3>3. CASE Release \/ RecordFails
      BY <3>3 DEF Release, RecordFails, Returned, IdleWorker, Quiet, dbVars, worldVars,
          handlerVars
    <3> QED BY <1>6, <3>1, <3>2, <3>3
  <2> QED BY <2>1, CopiesForgotten DEF Whole
<1>7. CASE AddFails
  <2>1. w'.got = w.got /\ w'.snap = w.snap /\ torrents \subseteq torrents' /\ UNCHANGED <<row, reset, hist>>
    BY <1>7, <1>a DEF AddFails, FailCheck, WorkerOK, Quiet, dbVars, handlerVars
  <2> QED BY <2>1, CopiesStay DEF Whole, Current
<1>8. CASE \/ Check \/ Found \/ Download \/ Verify \/ LogDelivery \/ Prune \/ Announce \/ DispatchFull
           \/ AwaitTurnReadFails \/ CheckFails \/ FoundListFails \/ DownloadFails \/ VerifyFails
           \/ LogDeliveryFails \/ PruneFails \/ AnnounceVerifyFails
  <2>1. w'.got = w.got /\ w'.snap = w.snap
    <3> USE <1>a DEF WorkerOK
    <3>1. CASE Check
      BY <3>1 DEF Check
    <3>2. CASE Found
      BY <3>2 DEF Found
    <3>3. CASE Download
      BY <3>3 DEF Download
    <3>4. CASE Verify
      BY <3>4 DEF Verify, AfterLoop
    <3>5. CASE LogDelivery
      BY <3>5 DEF LogDelivery, AfterLog, AfterLoop
    <3>6. CASE Prune
      BY <3>6 DEF Prune
    <3>7. CASE Announce
      BY <3>7 DEF Announce
    <3>8. CASE DispatchFull
      BY <3>8 DEF DispatchFull
    <3>9. CASE AwaitTurnReadFails
      BY <3>9 DEF AwaitTurnReadFails
    <3>10. CASE CheckFails
      BY <3>10 DEF CheckFails, FailCheck
    <3>11. CASE FoundListFails
      BY <3>11 DEF FoundListFails
    <3>12. CASE DownloadFails
      BY <3>12 DEF DownloadFails, FailCheck
    <3>13. CASE VerifyFails
      BY <3>13 DEF VerifyFails
    <3>14. CASE LogDeliveryFails
      BY <3>14 DEF LogDeliveryFails, AfterLog, AfterLoop
    <3>15. CASE PruneFails
      BY <3>15 DEF PruneFails
    <3>16. CASE AnnounceVerifyFails
      BY <3>16 DEF AnnounceVerifyFails
    <3> QED
      BY <1>8, <3>1, <3>2, <3>3, <3>4, <3>5, <3>6, <3>7, <3>8, <3>9, <3>10, <3>11, <3>12, <3>13, <3>14, <3>15, <3>16
  <2>2. UNCHANGED <<row, reset, hist, torrents>>
    BY <1>8 DEF Check, Found, Download, Verify, LogDelivery, Prune, Announce, DispatchFull,
         AwaitTurnReadFails, CheckFails, FoundListFails, DownloadFails, VerifyFails,
         LogDeliveryFails, PruneFails, AnnounceVerifyFails, Quiet, dbVars, worldVars,
         handlerVars
  <2> QED BY <2>1, <2>2, CopiesStay DEF Whole, Current
<1> QED
  BY <1>1, <1>2, <1>3, <1>4, <1>5, <1>6, <1>7, <1>8 DEF Work, Faults

\* Everybody else: only a reset takes torrents away, and it ends with the
\* topic's debts cleared or with the user told to retry.
LEMMA CopiesHandlers ==
    ASSUME IInv, Owing, Owing', Copies,
           Dispatch \/ User \/ Finish \/ ResetFaults \/ Publish \/ ComeDue \/ Crash \/ UNCHANGED vars
    PROVE  Copies'
<1>a. row \in RowType /\ WorkerOK /\ WorldOK /\ HandlersOK
  BY DEF IInv, TypeOK, DbOK
<1>b. row'.status = "gone" => Copies'
  BY DEF Owing, Copies, Current
<1>1. CASE ResetCommit
  <2>1. CASE row.status # "gone"
    <3>1. (\E now \in Fresh : row' = ResetCheckState(row, now)) /\ hist' = NoHist
      BY <1>1, <2>1 DEF ResetCommit
    <3>4. row'.done = {} /\ ~hist'.owed
      BY <3>1, <1>a DEF ResetCheckState, NoHist, RowType
    <3>2. w'.snap = Overtake(w.snap)
      BY <1>1, <2>1, <1>a DEF ResetCommit, WorkerOK
    <3>3. w'.snap # None => w'.snap.overtaken
      BY <3>2, <1>a DEF Overtake, Snaps, WorkerOK
    <3> QED BY <3>4, <3>3 DEF Copies, Current
  <2> QED BY <1>1, <1>b, <2>1 DEF ResetCommit
<1>2. CASE Delete
  BY <1>2, <1>a, <1>b DEF Delete, DeleteRow, RowType
<1>3. CASE EditWrite
  <2>1. UNCHANGED <<w, torrents, reset>>
    BY <1>3 DEF EditWrite, Idle, worldVars
  <2>2. CASE row.status = "gone"
    BY <1>3, <2>2, <1>b DEF EditWrite
  <2>3. CASE row.status # "gone" /\ edit = row.done
    <3>1. row'.done = row.done /\ row'.status = row.status /\ hist' = hist
      BY <1>3, <2>3, <1>a DEF EditWrite, Update, RowType
    <3> QED BY <2>1, <3>1, CopiesStay DEF Whole, Current
  <2>4. CASE row.status # "gone" /\ edit # row.done
    <3>1. hist'.hurt # {}
      BY <1>3, <2>4, <1>a DEF EditWrite, HandlersOK
    <3> QED BY <3>1 DEF Copies, Whole
  <2> QED BY <2>2, <2>3, <2>4
<1>4. CASE ResetListFails \/ ResetRemove \/ ResetRemoveFails \/ ResetRows \/ ResetAborts
  <2>1. reset'.pc \in {"rows", "commit"} \/ hist'.hurt # {}
    BY <1>4, <1>a DEF ResetListFails, ResetRemove, ResetRemoveFails, ResetRows,
        ResetAborts, HandlersOK
  <2> QED BY <2>1 DEF Copies, Whole
<1>5. CASE Crash
  <2>1. w'.got = {} /\ row' = row /\ torrents' = torrents
    BY <1>5 DEF Crash, IdleWorker, dbVars, worldVars
  <2>2. CASE reset.pc \in {"rows", "commit"}
    <3>1. hist'.hurt # {}
      BY <1>5, <2>2, <1>a DEF Crash, HandlersOK
    <3> QED BY <3>1 DEF Copies, Whole
  <2>3. CASE reset.pc \notin {"rows", "commit"}
    BY <1>5, <2>1, <2>3, CopiesForgotten DEF Crash, Whole
  <2> QED BY <2>2, <2>3
<1>6. CASE \/ Dispatch \/ Recheck \/ Pause \/ Resume \/ EditRead \/ ResetStart \/ ResetList
           \/ Publish \/ ComeDue \/ UNCHANGED vars
  <2>1. UNCHANGED <<w, torrents, hist>>
    BY <1>6 DEF vars, worldVars, Dispatch, DispatchExclude, DispatchQuery, DispatchStore,
        Recheck, Pause, Resume,
         EditRead, ResetStart, ResetList, Publish, ComeDue, Idle
  <2>2. Whole' => Whole
    BY <1>6, <1>a DEF vars, handlerVars, Dispatch, DispatchExclude, DispatchQuery,
        DispatchStore, Recheck, Pause, Resume,
         EditRead, ResetStart, ResetList, Publish, ComeDue, Idle, Whole, HandlersOK
  <2>3. row'.done = row.done /\ (row'.status # "gone" => row.status # "gone")
    BY <1>6, <1>a DEF vars, dbVars, Dispatch, DispatchExclude, DispatchQuery,
        DispatchStore, Recheck, Pause, Resume,
         EditRead, ResetStart, ResetList, Publish, ComeDue, QueueRecheck, UpdateStatus,
         RowType
  <2> QED BY <2>1, <2>2, <2>3, CopiesStay DEF Current
<1> QED
  BY <1>1, <1>2, <1>3, <1>4, <1>5, <1>6 DEF User, Finish, ResetFaults

\* Every step keeps the strengthening, and so every behaviour has it.
LEMMA KeptStep == IInv /\ Kept /\ [Next]_vars => Kept'
  BY PayloadsStep, OwingStep, UnmarkedStep, CopiesWork, CopiesHandlers DEF Kept, Next

LEMMA KeptAlways == Spec => [](IInv /\ Kept)
  BY Inductive, KeptInit, KeptStep, PTL DEF Spec

\* Replacing never leaves the user without a copy of a topic that was
\* delivered (scheduler.go, replacePrevious).
THEOREM ACopyIsKept == Spec => []CopyKept
<1>1. Kept => CopyKept
  BY DEF Kept, Copies, Whole, CopyKept
<1> QED BY <1>1, KeptAlways, PTL

\* No episode is marked downloaded while its torrent is gone (topics.go,
\* MarkEpisodeDownloaded and ResetCheckState).
THEOREM NothingStranded == Spec => []NoStrandedEpisode
<1>1. Kept => NoStrandedEpisode
  BY DEF Kept, Copies, Whole, NoStrandedEpisode
<1> QED BY <1>1, KeptAlways, PTL

\* MarkEpisodeDownloaded appends without looking, and never twice: a check
\* whose token matches marks only what the row lacks.
THEOREM MarkedOnce == Spec => NoDoubleMark
<1>1. IInv /\ Kept /\ [Next]_vars
        => (Mark /\ MayMark /\ hist.hurt = {} => Oldest(w.pending) \cap row.done = {})
  <2> SUFFICES ASSUME IInv, Kept, Mark, MayMark, hist.hurt = {}
               PROVE  Oldest(w.pending) \cap row.done = {}
    OBVIOUS
  <2>1. w.pc = "mark" /\ w.snap # None
    BY DEF Mark, Worker, IInv, TypeOK, WorkerOK
  <2>2. ~w.snap.overtaken /\ row.status # "gone"
    BY <2>1, OvertakenIsNoMatch DEF MayMark, Matches
  <2> QED BY <2>1, <2>2 DEF Kept, Unmarked, Oldest
<1> QED BY <1>1, KeptAlways, PTL DEF Spec, NoDoubleMark
=============================================================================
