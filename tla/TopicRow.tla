------------------------------ MODULE TopicRow ------------------------------
(***************************************************************************)
(* One row of the topics table, and what each SQL statement of             *)
(* db/repo/topics.go makes of it.  Every statement that writes back the    *)
(* result of a check compares the row with the snapshot the check was      *)
(* dispatched with: the pair (last_checked_at, next_check_at) is the       *)
(* check-state version token.                                              *)
(*                                                                         *)
(* Timestamps are only ever compared for equality by the guards, so they   *)
(* are elements of an unordered set Stamps; a statement that writes now()  *)
(* writes a stamp nobody holds.  Whether next_check_at is in the past is   *)
(* the separate variable `due` of TopicCheck.                              *)
(***************************************************************************)
EXTENDS Integers, FiniteSets

CONSTANTS
    Stamps,      \* microsecond timestamps of now() and of computed checks
    Unset,       \* SQL NULL in last_checked_at
    Modes,       \* the delivery policies users may choose for the topic
    MaxRelease   \* bound: how many releases the tracker publishes

ASSUME UnsetAssumption == Unset \notin Stamps
ASSUME ModesAssumption == Modes # {} /\ Modes \subseteq {"download", "replace", "notify"}
ASSUME MaxReleaseAssumption == MaxRelease \in Nat \ {0}

Releases == 1..MaxRelease

NoHash == << >>                    \* last_hash NULL or ''
Hashes == (Nat \X Nat \X Nat) \cup {NoHash}

Statuses == {"active", "error", "paused", "gone"}   \* "gone": row deleted

RowType ==
    [checked : Stamps \cup {Unset},   \* last_checked_at
     next    : Stamps,                \* next_check_at
     hash    : Hashes,                \* last_hash
     done    : SUBSET Releases,       \* extra.downloaded_episodes
     status  : Statuses,
     failing : BOOLEAN,               \* consecutive_errors > 0
     mode    : Modes]                 \* notify_only / replace_on_update

Token(r) == <<r.checked, r.next>>

\* The WHERE clause of every guarded statement, and all of VerifyCheckState.
Matches(r, snap) == r.status # "gone" /\ Token(r) = Token(snap)

\* Mutant: a topic whose check failed is not checked again.
ScheduledActive(r) == r.status = "active"

\* Eligible for DueForCheck and for QueueRecheck.
Scheduled(r) == r.status \in {"active", "error"}

RecordCheckResult(r, hash, failed, now) ==
    [r EXCEPT !.checked = now,
              !.next    = now,
              !.hash    = IF hash = NoHash THEN @ ELSE hash,
              !.failing = failed,
              !.status  = IF failed THEN "error" ELSE "active"]

MarkEpisodes(r, episodes) == [r EXCEPT !.done = @ \cup episodes]

\* Mutants: the reset leaves next_check_at, or last_hash, as it was.
ResetKeepsNextCheck(r, now) ==
    [r EXCEPT !.checked = Unset, !.hash = NoHash, !.done = {}, !.failing = FALSE,
              !.status = IF @ = "paused" THEN "paused" ELSE "active"]
ResetKeepsHash(r, now) ==
    [r EXCEPT !.checked = Unset, !.next = now, !.done = {}, !.failing = FALSE,
              !.status = IF @ = "paused" THEN "paused" ELSE "active"]

ResetCheckState(r, now) ==
    [r EXCEPT !.checked = Unset,
              !.next    = now,
              !.hash    = NoHash,
              !.done    = {},
              !.failing = FALSE,
              !.status  = IF @ = "paused" THEN "paused" ELSE "active"]

QueueRecheck(r, now) == [r EXCEPT !.next = now]

UpdateStatus(r, status) == [r EXCEPT !.status = status]

DeleteRow(r) == [r EXCEPT !.status = "gone", !.hash = NoHash, !.done = {},
                          !.failing = FALSE]

\* PUT /topics/{id}: the whole extra blob comes from the row the handler read
\* earlier; next is the pulled-in next check, if the interval got shorter.
Update(r, done, mode, next) ==
    [r EXCEPT !.done = done, !.mode = mode, !.next = next]
=============================================================================
