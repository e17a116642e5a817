----------------------------- MODULE TopicLive ------------------------------
(***************************************************************************)
(* TopicCheck in a world that calms down: users, failing calls, crashes    *)
(* and new releases come from a finite budget, the ticker and the worker   *)
(* goroutines keep running.  What the scheduler then owes the user is      *)
(* that the topic settles with its releases in the client.                 *)
(***************************************************************************)
EXTENDS TopicCheck

CONSTANT MaxBudget   \* bound: disturbances per behaviour
ASSUME BudgetAssumption == MaxBudget \in Nat

VARIABLE budget

Disturb == User \/ Faults \/ ResetFaults \/ Publish \/ Crash
Proceed == Dispatch \/ Work \/ Finish \/ ComeDue

LiveInit == Init /\ budget = MaxBudget
LiveNext == \/ Proceed /\ UNCHANGED budget
            \/ Disturb /\ budget > 0 /\ budget' = budget - 1

\* The ticker fires again and again, goroutines are scheduled, handlers
\* return, and next_check_at passes.
LiveSpec ==
    /\ LiveInit /\ [][LiveNext]_<<vars, budget>>
    /\ WF_vars(Dispatch) /\ WF_vars(Work) /\ WF_vars(Finish) /\ WF_vars(ComeDue)

\* The next check wants what the client holds already, and the client raises.
NextWanted == IF Episodic THEN Oldest(Pending(row)) ELSE {published}
Refused ==
    /\ client = "raises" /\ CheckHash(row) # row.hash
    /\ \E r \in NextWanted : Torrent[r] \in torrents

\* Unless the topic is paused or deleted, or a reset died half way or an edit
\* overwrote the episode list, every published release ends up in the client
\* and stays there, whatever was lost, failed, stale or restarted before.  Only
\* an episode that Deluge holds and the row does not list keeps those after it
\* from being delivered.
Wanted == IF Episodic THEN 1..published ELSE {published}
EventuallyDelivered ==
    <>[](Scheduled(row) /\ hist.hurt = {} /\ ~Refused
            => \A r \in Wanted : Torrent[r] \in torrents)

\* A topic that is due and not paused is eventually checked, or stops being
\* due: a lost result, a discarded one or a crash never parks it for good.
DueIsChecked == due /\ Scheduled(row) ~> ~due \/ ~Scheduled(row)

\* The error of a topic clears by itself once nothing fails any more, whatever
\* answer was lost, result discarded or process killed on the way.  A client that
\* raises for a torrent it holds, Deluge, keeps the topic in error where the
\* torrent got there by an attempt that was not recorded (deluge.go:110-123).
ErrorsClear == <>[](row.status # "error" \/ Refused)
=============================================================================
