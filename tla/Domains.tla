------------------------------ MODULE Domains ------------------------------
(***************************************************************************)
(* Which of a tracker's domains is in use: domains.Store.                  *)
(*                                                                         *)
(*   a worker         builds every request of a check against the domain    *)
(*                    that is active then; a failure of the network is      *)
(*                    counted, the second one of a window rotates           *)
(*   an administrator  saves the active domain and the mirrors             *)
(*   a restart        reads the row again, maybe with other known domains  *)
(*                                                                         *)
(* One tracker.  The cache changes under mu, in one step; the row is       *)
(* written under persistMu, in another.  Times are the ticks since, or     *)
(* until, something; they stop where the code no longer tells them apart.  *)
(***************************************************************************)
EXTENDS Integers, Sequences, Functions

CONSTANTS
    Hosts,        \* hostnames
    Builds,       \* Domains() of the releases of the program: sequences, default first
    Requests,     \* what administrators save: [active, custom]
    Workers,
    Admin,
    None,         \* "" and NULL: the plugin's default; no lock holder, no window
    Threshold,    \* RotateFailureThreshold
    Window,       \* RotateFailureWindow
    Cooldown,     \* RotateCooldown
    RequestTime,  \* bound: the deadline of a call, TrackerHTTPTimeout, as configured
    MaxOps,       \* bound: saves and restarts
    MaxFaults     \* bound: failed statements

Configs == [active : Hosts \cup {None}, custom : Seq(Hosts)]

ASSUME DomainsAssumption ==
    /\ None \notin Hosts \cup Configs
    /\ Builds \subseteq Seq(Hosts) \ {<<>>} /\ Requests \subseteq Configs
    /\ Threshold \in Nat \ {0} /\ Window \in Nat /\ Cooldown \in Nat
    /\ RequestTime \in Nat
    /\ Admin \notin Workers /\ None \notin Workers \cup {Admin}

VARIABLES
    known,      \* the plugin's domains
    cache,      \* Store.cfg
    row,        \* the tracker_settings row; a missing one reads like an empty one
    fails,      \* failCount and the age of failWindow: [count, age]
    cooling,    \* ticks until lastRotate no longer matters
    lock,       \* the holder of persistMu
    w,          \* the workers: [pc, domain, age, fresh]
    adm,        \* the configuration an administrator's Set has written to the row
    by,         \* ghost: who chose the active domain
    blamed,     \* ghost: the domains that failed within a Cooldown, of those the window counts
    dirty,      \* ghost: a statement failed and none succeeded since
    ops, faults

config == <<known, cache, row>>
counters == <<fails, cooling, blamed>>
vars == <<config, counters, lock, w, adm, by, dirty, ops, faults>>

Empty == [active |-> None, custom |-> <<>>]
NoFails == [count |-> 0, age |-> None]
Idle == [pc |-> "idle", domain |-> None, age |-> 0, fresh |-> None]

Init ==
    /\ known \in Builds
    /\ cache = Empty /\ row = Empty
    /\ fails = NoFails /\ cooling = 0 /\ blamed = {}
    /\ lock = None /\ w = [p \in Workers |-> Idle] /\ adm = None
    /\ by = "boot" /\ dirty = FALSE
    /\ ops = 0 /\ faults = 0

Operation == ops < MaxOps /\ ops' = ops + 1
Fault == faults < MaxFaults /\ faults' = faults + 1

-----------------------------------------------------------------------------
(* A worker.                                                               *)

\* The domain requests are built against.
effectiveDomain == IF cache.active = None THEN known[1] ELSE cache.active

Ring == known \o cache.custom

\* The domain after the active one, cyclically.
NextInRing ==
    LET at == CHOOSE i \in DOMAIN Ring :
                  Ring[i] = effectiveDomain /\ \A j \in 1..(i - 1) : Ring[j] # effectiveDomain
    IN  Ring[(at % Len(Ring)) + 1]

\* A check, or the download of a pending episode, sends its next request.  Between
\* two requests the check has no domain: plugins ask for it each time.
Request(p) ==
    /\ w[p] = Idle
    /\ w' = [w EXCEPT ![p] = [Idle EXCEPT !.pc = "request", !.domain = effectiveDomain]]
    /\ UNCHANGED <<config, counters, lock, adm, by, dirty, ops, faults>>

\* The request ends without a failure of the network.
Answered(p) ==
    /\ w[p].pc = "request"
    /\ w' = [w EXCEPT ![p] = Idle]
    /\ UNCHANGED <<config, counters, lock, adm, by, dirty, ops, faults>>

\* The failure is counted; a new window starts when the last one is over.
WindowOver == fails.age = None \/ fails.age > Window
Counted == 1 + IF WindowOver THEN 0 ELSE fails.count

\* Nothing to rotate to, or a rotation a moment ago: the failure does not count.
Ignored(p) ==
    /\ Len(Ring) < 2 \/ cooling > 0
    /\ w' = [w EXCEPT ![p] = Idle]
    /\ UNCHANGED <<cache, by, counters>>

Count(p) ==
    /\ Len(Ring) >= 2 /\ cooling = 0 /\ Counted < Threshold
    /\ fails' = [count |-> Counted, age |-> IF WindowOver THEN 0 ELSE fails.age]
    /\ w' = [w EXCEPT ![p] = Idle]
    /\ UNCHANGED <<cache, by, cooling>>

\* Mutant: no cooldown.
RotateHot(p) ==
    /\ Len(Ring) >= 2 /\ cooling = 0 /\ Counted >= Threshold
    /\ cache' = [cache EXCEPT !.active = NextInRing]
    /\ by' = "rotation"
    /\ fails' = NoFails /\ UNCHANGED cooling
    /\ w' = [w EXCEPT ![p] = [Idle EXCEPT !.pc = "rotated"]]

Rotate(p) ==
    /\ Len(Ring) >= 2 /\ cooling = 0 /\ Counted >= Threshold
    /\ cache' = [cache EXCEPT !.active = NextInRing]
    /\ by' = "rotation"
    /\ fails' = NoFails /\ cooling' = Cooldown
    /\ w' = [w EXCEPT ![p] = [Idle EXCEPT !.pc = "rotated"]]

\* The check or the download loop gives up at a failed request and reports it.
ReportFailure(p) ==
    /\ w[p].pc = "request"
    /\ Ignored(p) \/ (/\ Count(p) \/ Rotate(p)
                      /\ blamed' = (IF WindowOver THEN {} ELSE blamed)
                                      \cup (IF w[p].age < Cooldown THEN {w[p].domain} ELSE {}))
    /\ UNCHANGED <<known, row, lock, adm, dirty, ops, faults>>

\* Mutant: nobody takes persistMu.
RereadUnlocked(p) ==
    /\ w[p].pc = "rotated"
    /\ UNCHANGED lock
    /\ w' = [w EXCEPT ![p] = [Idle EXCEPT !.pc = "persist", !.fresh = cache]]
    /\ UNCHANGED <<config, counters, adm, by, dirty, ops, faults>>

\* Persisting the rotation: the whole cached configuration is read again under
\* persistMu.
Reread(p) ==
    /\ w[p].pc = "rotated" /\ lock = None
    /\ lock' = p
    /\ w' = [w EXCEPT ![p] = [Idle EXCEPT !.pc = "persist", !.fresh = cache]]
    /\ UNCHANGED <<config, counters, adm, by, dirty, ops, faults>>

\* Upsert: a statement that reports an error may have been committed.
Upserted(value) == row' = value /\ dirty' = FALSE /\ UNCHANGED faults
UpsertFails(value) == row' \in {row, value} /\ dirty' = TRUE /\ Fault

Persist(p) ==
    /\ w[p].pc = "persist"
    /\ Upserted(w[p].fresh) \/ UpsertFails(w[p].fresh)
    /\ lock' = None
    /\ w' = [w EXCEPT ![p] = Idle]
    /\ UNCHANGED <<known, cache, counters, adm, by, ops>>

-----------------------------------------------------------------------------
(* An administrator.                                                       *)

\* PUT /system/trackers/{name}/domains: the active domain is a known one or one
\* of the mirrors that come with it.
Acceptable(request) ==
    request.active \in {None} \cup Range(known) \cup Range(request.custom)

\* Set writes the row first, and the cache only if that succeeded.
SetRow(request) ==
    /\ Operation /\ Acceptable(request)
    /\ lock = None
    /\ \/ Upserted(request) /\ adm' = request /\ lock' = Admin
       \/ UpsertFails(request) /\ UNCHANGED <<adm, lock>>
    /\ UNCHANGED <<known, cache, counters, w, by>>

\* The failures counted so far and the cooldown stay as they are.
SetCache ==
    /\ adm # None
    /\ cache' = adm /\ by' = "admin"
    /\ adm' = None /\ lock' = None
    /\ UNCHANGED <<known, row, counters, w, dirty, ops, faults>>

-----------------------------------------------------------------------------

\* Load: an active domain that the program no longer knows is dropped.
Loaded(value, domains) ==
    [value EXCEPT !.active = IF @ \in Range(domains) \cup Range(value.custom) THEN @ ELSE None]

\* The process dies and starts, maybe another release of it; without the rows it
\* starts on the defaults.
Restart ==
    /\ Operation
    /\ known' \in Builds
    /\ \/ cache' = Loaded(row, known') /\ UNCHANGED <<dirty, faults>>
       \/ cache' = Empty /\ dirty' = TRUE /\ Fault
    /\ fails' = NoFails /\ cooling' = 0 /\ blamed' = {}
    /\ lock' = None /\ w' = [p \in Workers |-> Idle] /\ adm' = None
    /\ by' = "boot"
    /\ UNCHANGED row

\* The clock; a request does not outlast the deadline of its call.
Tick ==
    /\ \A p \in Workers : w[p].pc = "request" => w[p].age < RequestTime
    /\ w' = [p \in Workers |-> IF w[p].pc = "request" THEN [w[p] EXCEPT !.age = @ + 1] ELSE w[p]]
    /\ cooling' = IF cooling = 0 THEN 0 ELSE cooling - 1
    /\ fails' = [fails EXCEPT !.age = IF @ = None \/ @ > Window THEN @ ELSE @ + 1]
    /\ UNCHANGED <<config, blamed, lock, adm, by, dirty, ops, faults>>

Next ==
    \/ \E p \in Workers : \/ Request(p) \/ Answered(p) \/ ReportFailure(p)
                          \/ Reread(p) \/ Persist(p)
    \/ \E request \in Requests : SetRow(request)
    \/ SetCache
    \/ Restart
    \/ Tick

Spec == Init /\ [][Next]_vars

-----------------------------------------------------------------------------
(* Properties.                                                             *)

WorkerStates == [pc : {"idle", "request", "rotated", "persist"}, domain : Hosts \cup {None},
                 age : 0..RequestTime, fresh : Configs \cup {None}]

\* The types of the variables.
TypeOK ==
    /\ known \in Builds /\ cache \in Configs /\ row \in Configs
    /\ fails \in [count : 0..Threshold, age : {None} \cup 0..(Window + 1)]
    /\ cooling \in 0..Cooldown
    /\ lock \in Workers \cup {Admin, None}
    /\ w \in [Workers -> WorkerStates]
    /\ adm \in Configs \cup {None}
    /\ by \in {"boot", "admin", "rotation"} /\ blamed \subseteq Hosts \cup {None} /\ dirty \in BOOLEAN

\* "the two writers can never interleave and clobber each other's DB row" (Set):
\* when nobody is in the middle of a write, a restart would bring back what is in
\* use, unless a statement failed and none succeeded since.  And what is in use
\* is always a domain the program or the administrator knows, over rotations,
\* saves and upgrades.
ConfigSurvives ==
    /\ cache.active \in {None} \cup Range(Ring)
    /\ adm = None /\ (\A p \in Workers : w[p].pc \notin {"rotated", "persist"}) /\ ~dirty
         => cache = Loaded(row, known)

\* "a burst of failing topics must not spin the ring past the working mirror
\* before it gets a chance to serve a check" (RotateCooldown): after a rotation or
\* a restart, every failure that is counted towards leaving the domain in use is
\* of a request that was sent to that domain, by whichever check, however long
\* the check ran across rotations.  Excepted by name: a domain an administrator
\* chose, as Set does not start the count again, and a request that took a whole
\* Cooldown to fail, which only a TrackerHTTPTimeout of that length allows.
WorkingMirrorStays ==
    [][\A p \in Workers : w[p].pc = "request" /\ w'[p].pc = "rotated" /\ by # "admin"
            => blamed' \subseteq {effectiveDomain}]_vars
=============================================================================
