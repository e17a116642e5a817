------------------------------ MODULE Spacing ------------------------------
(***************************************************************************)
(* One lane of the scheduler: the goroutines that check the topics of a    *)
(* tracker with a CheckSpacing, and the checkSpacer they share.  Each      *)
(* reserves a slot and sleeps until it, re-reads its topic, and claims its *)
(* start; a refused claim sleeps and claims again (awaitCheckTurn).        *)
(*                                                                         *)
(* Instants are kept relative to now, so time needs no bound: only whether *)
(* `next' lies ahead, and whether the last start is less than Spacing ago, *)
(* makes a difference to the code.  A goroutine may be held up anywhere.   *)
(* The names are the lane's own: DispatchProofs reasons about it alongside *)
(* Dispatch.                                                               *)
(***************************************************************************)
EXTENDS Integers

CONSTANTS
    LaneGoroutines,  \* SchedulerWorkers of them
    Spacing          \* CheckSpacing, in units of time

ASSUME SpacingAssumption == Spacing \in Nat \ {0}

VARIABLES
    ahead,      \* checkSpacer.next - now, zero once it is past
    since,      \* now - checkSpacer.started, at most Spacing; Spacing if unset
    pc,         \* where each goroutine is in runCheck
    wait,       \* what is left of each goroutine's sleep
    ended,      \* the scheduler's context ended
    quiet       \* history: time since a check last started, at most Spacing

laneVars == <<ahead, since, pc, wait, ended, quiet>>

LaneInit ==
    /\ ahead = 0 /\ since = Spacing /\ quiet = Spacing
    /\ pc = [g \in LaneGoroutines |-> "idle"] /\ wait = [g \in LaneGoroutines |-> 0]
    /\ ended = FALSE

Goto(g, where) == pc' = [pc EXCEPT ![g] = where]
-----------------------------------------------------------------------------
(* checkSpacer *)

\* Mutant: the slot after this one counts from now.
ReserveFromNow(g) ==
    /\ wait' = [wait EXCEPT ![g] = ahead]
    /\ ahead' = Spacing

\* The next free slot, or now when that is past.
reserve(g) ==
    /\ wait' = [wait EXCEPT ![g] = ahead]
    /\ ahead' = ahead + Spacing

\* Mutant: a refused claim is recorded as a start.
ClaimAlways(g) ==
    /\ since' = 0
    /\ IF since >= Spacing
       THEN Goto(g, "check") /\ quiet' = 0 /\ UNCHANGED wait
       ELSE /\ wait' = [wait EXCEPT ![g] = Spacing - since]
            /\ Goto(g, "refused") /\ UNCHANGED quiet

\* Records a start at least Spacing after the one before it; refuses any other.
claim(g) ==
    \/ /\ since >= Spacing
       /\ since' = 0 /\ quiet' = 0
       /\ Goto(g, "check") /\ UNCHANGED wait
    \/ /\ since < Spacing
       /\ wait' = [wait EXCEPT ![g] = Spacing - since]
       /\ Goto(g, "refused") /\ UNCHANGED <<since, quiet>>
-----------------------------------------------------------------------------
(* awaitCheckTurn, and the check that follows *)

\* The lane gives the goroutine a topic; a closed lane gives none.
Reserve(g) ==
    /\ pc[g] = "idle" /\ ~ended
    /\ reserve(g) /\ Goto(g, "sleep")
    /\ UNCHANGED <<since, ended, quiet>>

\* The timer of sleepCtx fires, no earlier than it was set for.
Wake(g) ==
    /\ pc[g] = "sleep" /\ wait[g] = 0
    /\ Goto(g, "reread")
    /\ UNCHANGED <<ahead, since, wait, ended, quiet>>

\* GetByID: the topic is to be checked (or could not be read, and the
\* snapshot serves), or it was paused or deleted while it waited.
Reread(g) ==
    /\ pc[g] = "reread"
    /\ Goto(g, "claim") \/ Goto(g, "idle")
    /\ UNCHANGED <<ahead, since, wait, ended, quiet>>

Claim(g) ==
    /\ pc[g] = "claim"
    /\ claim(g)
    /\ UNCHANGED <<ahead, ended>>

\* Mutant: one refusal is waited out, and not two.
WokenToStart(g) ==
    /\ pc[g] = "refused" /\ wait[g] = 0
    /\ Goto(g, "check") /\ since' = 0 /\ quiet' = 0
    /\ UNCHANGED <<ahead, wait, ended>>

WakeRefused(g) ==
    /\ pc[g] = "refused" /\ wait[g] = 0
    /\ Goto(g, "claim")
    /\ UNCHANGED <<ahead, since, wait, ended, quiet>>

\* The context ends the sleep, and the topic waits for the next start.
GiveUp(g) ==
    /\ pc[g] \in {"sleep", "refused"} /\ ended
    /\ wait' = [wait EXCEPT ![g] = 0]
    /\ Goto(g, "idle")
    /\ UNCHANGED <<ahead, since, ended, quiet>>

\* The rest of runCheck, which takes as long as it takes.
CheckEnds(g) ==
    /\ pc[g] = "check"
    /\ Goto(g, "idle")
    /\ UNCHANGED <<ahead, since, wait, ended, quiet>>

TakeTurn(g) == Wake(g) \/ Reread(g) \/ Claim(g) \/ WakeRefused(g) \/ GiveUp(g)
-----------------------------------------------------------------------------
Down(n) == IF n > 0 THEN n - 1 ELSE 0
Up(n)   == IF n < Spacing THEN n + 1 ELSE Spacing

ClockTick ==
    /\ ahead' = Down(ahead) /\ since' = Up(since) /\ quiet' = Up(quiet)
    /\ wait' = [g \in LaneGoroutines |-> Down(wait[g])]
    /\ UNCHANGED <<pc, ended>>

EndContext ==
    /\ ~ended /\ ended' = TRUE
    /\ UNCHANGED <<ahead, since, pc, wait, quiet>>

LaneNext == \/ \E g \in LaneGoroutines : Reserve(g) \/ TakeTurn(g) \/ CheckEnds(g)
            \/ ClockTick \/ EndContext

LaneSpec == LaneInit /\ [][LaneNext]_laneVars

\* Time passes and a goroutine that waits for its turn is scheduled.  A check
\* may hang, and nobody need ever have another topic to check.
LaneLiveSpec ==
    LaneSpec /\ WF_laneVars(ClockTick) /\ \A g \in LaneGoroutines : WF_laneVars(TakeTurn(g))
-----------------------------------------------------------------------------
(* Properties *)

LaneTypeOK ==
    /\ ahead \in Nat /\ since \in 0..Spacing /\ quiet \in 0..Spacing
    /\ pc \in [LaneGoroutines -> {"idle", "sleep", "reread", "claim", "refused", "check"}]
    /\ wait \in [LaneGoroutines -> Nat]
    /\ ended \in BOOLEAN
    /\ \A g \in LaneGoroutines : wait[g] > 0 => pc[g] \in {"sleep", "refused"}

Starts(g) == pc[g] # "check" /\ pc'[g] = "check"

\* "The scheduler starts no two of its topic checks less than CheckSpacing
\* apart" (WithCheckSpacing): however long goroutines are held up between
\* their slots and their starts, and however many were refused and wake
\* together.
StartsApart == [][(\E g \in LaneGoroutines : Starts(g)) => quiet >= Spacing]_laneVars

Asleep == {g \in LaneGoroutines : pc[g] = "sleep" /\ wait[g] > 0}

\* "so a lane's goroutines take turns in order instead of all waking at once"
\* (checkSpacer): slots still to come are at least Spacing apart, and each
\* of them is slept for, so the schedule never runs further ahead of the
\* clock than there are goroutines to follow it, whatever became of the
\* slots of topics that were paused, deleted or late.
TurnsInOrder ==
    /\ \A g \in Asleep : wait[g] + Spacing <= ahead
    /\ \A g, h \in Asleep :
          g # h => wait[g] + Spacing <= wait[h] \/ wait[h] + Spacing <= wait[g]
    /\ ~ended =>
          \A n \in {ahead} \cup {wait[g] : g \in Asleep} :
             n > Spacing => \E h \in Asleep : wait[h] = n - Spacing

Claiming == \E g \in LaneGoroutines : pc[g] \in {"claim", "refused"}

\* Refused claims do not keep one another from starting: while goroutines
\* that were granted their slot ask for their start, checks keep starting.
\* (Which of them starts is left to chance: one may be overtaken for ever.)
SomeoneStarts ==
    \/ []<><<\E g \in LaneGoroutines : Starts(g)>>_laneVars
    \/ []<>~Claiming
    \/ <>ended
=============================================================================
