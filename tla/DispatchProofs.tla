--------------------------- MODULE DispatchProofs ---------------------------
(***************************************************************************)
(* A topic marked in flight is in exactly one place and nothing else is    *)
(* marked: for any number of topics, lanes, workers and slots.  And the    *)
(* goroutines of a lane start their checks no closer together than its     *)
(* tracker asks, for any number of them and any spacing.                   *)
(***************************************************************************)
EXTENDS Dispatch, Spacing, TLAPS

Places == [pc : {"absent", "idle", "turn", "check", "done", "gone"}, topic : Topics \cup {None}]

Runs == [pc : {"idle", "range", "query", "loop", "wait", "returned"}, excluded : SUBSET Topics,
         batch : Seq(Topics)]

\* The types of what is said below.
Types ==
    /\ disp \in Runs /\ inflight \subseteq Topics
    /\ jobs \in Seq(Topics) /\ lane \in [Lanes -> Seq(Topics)] /\ at \in [Goroutines -> Places]
    /\ \A g \in Goroutines : at[g].pc \notin {"turn", "check", "done"} => at[g].topic = None

\* What is queued or held is marked, and the other way round.
Marked ==
    /\ Range(jobs) \subseteq inflight /\ \A l \in Lanes : Range(lane[l]) \subseteq inflight
    /\ \A g \in Goroutines : at[g].topic # None => at[g].topic \in inflight
    /\ \A t \in inflight : \/ t \in Range(jobs)
                           \/ \E l \in Lanes : t \in Range(lane[l])
                           \/ \E g \in Goroutines : at[g].topic = t

\* A queue holds its own topics, once each.
Queued ==
    /\ IsInjective(jobs) /\ \A t \in Range(jobs) : ~Spaced(t)
    /\ \A l \in Lanes : IsInjective(lane[l]) /\ \A t \in Range(lane[l]) : LaneOf[t] = l

\* Who holds a topic holds it alone, and no queue has it.
Held ==
    /\ \A g, h \in Goroutines : at[g].topic = at[h].topic /\ g # h => at[g].topic = None
    /\ \A g \in Goroutines : /\ at[g].topic \notin Range(jobs)
                             /\ \A l \in Lanes : at[g].topic \notin Range(lane[l])

Inv == Types /\ Marked /\ Queued /\ Held

-----------------------------------------------------------------------------
(* Queues                                                                  *)

LEMMA TakeFirst ==
    ASSUME NEW S, NEW s \in Seq(S), s # << >>
    PROVE  /\ Head(s) \in S /\ Tail(s) \in Seq(S) /\ Range(s) = Range(Tail(s)) \cup {Head(s)}
           /\ IsInjective(s) => IsInjective(Tail(s)) /\ Head(s) \notin Range(Tail(s))
  <1>1. Len(s) \in Nat \ {0} /\ Head(s) = s[1] /\ Tail(s) \in Seq(S) /\ Len(Tail(s)) = Len(s) - 1
        /\ \A i \in 1..Len(Tail(s)) : Tail(s)[i] = s[i + 1]
    OBVIOUS
  <1>2. DOMAIN s = 1..Len(s) /\ DOMAIN Tail(s) = 1..Len(Tail(s))
    BY <1>1
  <1>3. Range(s) \subseteq Range(Tail(s)) \cup {Head(s)}
    <2> SUFFICES ASSUME NEW i \in 1..Len(s) PROVE s[i] \in Range(Tail(s)) \cup {Head(s)}
      BY <1>2 DEF Range
    <2>1. CASE i = 1
      BY <1>1, <2>1
    <2>2. CASE i # 1
      <3>1. i - 1 \in 1..Len(Tail(s)) /\ Tail(s)[i - 1] = s[i]
        BY <1>1, <2>2
      <3> QED BY <1>2, <3>1 DEF Range
    <2> QED BY <2>1, <2>2
  <1>4. Range(Tail(s)) \cup {Head(s)} \subseteq Range(s)
    <2>1. 1 \in 1..Len(s) /\ \A i \in 1..Len(Tail(s)) : i + 1 \in 1..Len(s)
      BY <1>1
    <2> QED BY <1>1, <1>2, <2>1 DEF Range
  <1>5. ASSUME IsInjective(s) PROVE IsInjective(Tail(s)) /\ Head(s) \notin Range(Tail(s))
    <2>1. \A i, j \in 1..Len(s) : s[i] = s[j] => i = j
      BY <1>2, <1>5 DEF IsInjective
    <2>2. \A i \in 1..Len(Tail(s)) : i + 1 \in 1..Len(s) /\ i + 1 # 1
      BY <1>1
    <2>3. \A i, j \in 1..Len(Tail(s)) : i + 1 = j + 1 => i = j
      BY <1>1
    <2>4. 1 \in 1..Len(s)
      BY <1>1
    <2>5. IsInjective(Tail(s))
      BY <1>1, <1>2, <2>1, <2>2, <2>3 DEF IsInjective
    <2>6. \A i \in 1..Len(Tail(s)) : Tail(s)[i] # s[1]
      BY <1>1, <2>1, <2>2, <2>4
    <2> QED BY <1>1, <1>2, <2>5, <2>6 DEF Range
  <1> QED BY <1>1, <1>3, <1>4, <1>5

LEMMA PutLast ==
    ASSUME NEW S, NEW s \in Seq(S), NEW e \in S
    PROVE  /\ Append(s, e) \in Seq(S) /\ Range(Append(s, e)) = Range(s) \cup {e}
           /\ IsInjective(s) /\ e \notin Range(s) => IsInjective(Append(s, e))
  <1>1. Len(s) \in Nat /\ Append(s, e) \in Seq(S) /\ Len(Append(s, e)) = Len(s) + 1
        /\ Append(s, e)[Len(s) + 1] = e /\ \A i \in 1..Len(s) : Append(s, e)[i] = s[i]
    OBVIOUS
  <1>2. DOMAIN s = 1..Len(s) /\ DOMAIN Append(s, e) = 1..Len(s) + 1
    BY <1>1
  <1>3. 1..Len(s) + 1 = (1..Len(s)) \cup {Len(s) + 1}
    BY <1>1
  <1>4. Range(Append(s, e)) = Range(s) \cup {e}
    BY <1>1, <1>2, <1>3 DEF Range
  <1>5. ASSUME IsInjective(s), e \notin Range(s) PROVE IsInjective(Append(s, e))
    BY <1>1, <1>2, <1>3, <1>5 DEF IsInjective, Range
  <1> QED BY <1>1, <1>4, <1>5

-----------------------------------------------------------------------------
LEMMA Nobody == None \notin Topics /\ None \notin Lanes /\ LaneOf \in [Topics -> Lanes \cup {None}]
  BY LaneAssumption, TopicAssumption

LEMMA InitInv == Init => Inv
  <1> SUFFICES ASSUME Init PROVE Inv
    OBVIOUS
  <1>1. /\ disp = IdleDisp /\ inflight = {} /\ jobs = << >>
        /\ lane \in [Lanes -> Seq(Topics)] /\ \A l \in Lanes : lane[l] = << >>
    BY DEF Init
  <1>2. at \in [Goroutines -> Places] /\ \A g \in Goroutines : at[g].topic = None
    BY DEF Init, Idle, Places
  <1>3. << >> \in Seq(Topics) /\ Range(<< >>) = {} /\ IsInjective(<< >>) /\ IdleDisp \in Runs
    BY DEF Range, IsInjective, IdleDisp, Runs
  <1>4. Types
    BY <1>1, <1>2, <1>3 DEF Types
  <1>5. Marked /\ Queued /\ Held
    BY <1>1, <1>2, <1>3 DEF Marked, Queued, Held
  <1> QED BY <1>4, <1>5 DEF Inv

\* A goroutine goes on.
LEMMA GoesOn ==
    ASSUME Types, NEW g \in Goroutines, NEW where \in {"idle", "turn", "check", "done", "gone"},
           NEW t \in Topics \cup {None}, Now(g, where, t)
    PROVE  /\ at' \in [Goroutines -> Places] /\ at'[g].topic = t /\ at'[g].pc = where
           /\ \A h \in Goroutines \ {g} : at'[h] = at[h]
  <1>1. at' = [at EXCEPT ![g] = [pc |-> where, topic |-> t]] /\ at \in [Goroutines -> Places]
    BY DEF Now, Types
  <1>2. [pc |-> where, topic |-> t] \in Places
    BY DEF Places
  <1> QED BY <1>1, <1>2

\* No topic moves.
LEMMA NothingMoves ==
    ASSUME Inv, UNCHANGED <<inflight, jobs, lane>>, disp' \in Runs,
           at' \in [Goroutines -> Places],
           \A g \in Goroutines : /\ at'[g].topic = at[g].topic
                                 /\ at'[g].pc \notin {"turn", "check", "done"} => at[g].topic = None
    PROVE  Inv'
  <1>1. Types'
    BY DEF Inv, Types
  <1>2. Marked'
    BY DEF Inv, Marked
  <1>3. Queued'
    BY DEF Inv, Queued
  <1>4. Held'
    BY DEF Inv, Held
  <1> QED BY <1>1, <1>2, <1>3, <1>4 DEF Inv

LEMMA StoreInv == ASSUME Inv, Store PROVE Inv'
  <1> DEFINE t == Head(disp.batch)
  <1>1. t \in Topics /\ Tail(disp.batch) \in Seq(Topics)
    BY TakeFirst DEF Store, Inv, Types, Runs
  <1>2. disp' \in Runs
    <2>1. disp' = [disp EXCEPT !.batch = Tail(disp.batch)]
      BY DEF Store
    <2> QED BY <1>1, <2>1 DEF Inv, Types, Runs
  <1> HIDE DEF t
  <1>3. CASE t \in inflight
    <2>1. UNCHANGED <<inflight, jobs, lane, at>>
      BY <1>3 DEF Store, t
    <2> QED BY <1>2, <2>1, NothingMoves DEF Inv, Types
  <1>4. CASE t \notin inflight /\ ~Spaced(t)
    <2>1. inflight' = inflight \cup {t} /\ jobs' = Append(jobs, t) /\ lane' = lane /\ at' = at
      BY <1>4 DEF Store, t
    <2>2. jobs' \in Seq(Topics) /\ Range(jobs') = Range(jobs) \cup {t}
          /\ (IsInjective(jobs) /\ t \notin Range(jobs) => IsInjective(jobs'))
      BY <1>1, <2>1, PutLast DEF Inv, Types
    <2>3. Types'
      BY <1>1, <1>2, <2>1, <2>2 DEF Inv, Types
    <2>4. Marked'
      BY <2>1, <2>2 DEF Inv, Marked
    <2>5. Queued'
      BY <1>4, <2>1, <2>2 DEF Inv, Marked, Queued, Spaced
    <2>6. Held'
      BY <1>1, <1>4, <2>1, <2>2, Nobody DEF Inv, Marked, Held
    <2> QED BY <2>3, <2>4, <2>5, <2>6 DEF Inv
  <1>5. CASE t \notin inflight /\ Spaced(t)
    <2> DEFINE k == LaneOf[t]
    <2>0. k \in Lanes
      BY <1>1, <1>5, Nobody DEF Spaced
    <2>1. inflight' = inflight \cup {t} /\ jobs' = jobs /\ at' = StartLane(k)
          /\ lane' = [lane EXCEPT ![k] = Append(lane[k], t)]
      BY <1>5 DEF Store, t
    <2>2. lane \in [Lanes -> Seq(Topics)]
      BY DEF Inv, Types
    <2>3. lane' \in [Lanes -> Seq(Topics)] /\ lane'[k] = Append(lane[k], t)
          /\ \A l \in Lanes \ {k} : lane'[l] = lane[l]
      BY <1>1, <2>0, <2>1, <2>2, PutLast
    <2>4. Range(lane'[k]) = Range(lane[k]) \cup {t}
          /\ (IsInjective(lane[k]) /\ t \notin Range(lane[k]) => IsInjective(lane'[k]))
      BY <1>1, <2>0, <2>2, <2>3, PutLast
    <2>5. /\ at' \in [Goroutines -> Places]
          /\ \A g \in Goroutines : /\ at'[g].topic = at[g].topic
                                   /\ at'[g].pc \notin {"turn", "check", "done"} => at[g].topic = None
      <3>1. at \in [Goroutines -> Places] /\ Idle \in Places /\ Idle.topic = None
        BY DEF Inv, Types, Idle, Places
      <3>2. \A g \in Goroutines : at'[g] = at[g] \/ (at'[g] = Idle /\ at[g].pc = "absent")
        BY <2>1 DEF StartLane
      <3>3. \A g \in Goroutines : at[g].pc \notin {"turn", "check", "done"} => at[g].topic = None
        BY DEF Inv, Types
      <3> QED BY <2>1, <3>1, <3>2, <3>3 DEF StartLane
    <2>6. Types'
      BY <1>1, <1>2, <2>1, <2>3, <2>5 DEF Inv, Types
    <2> HIDE DEF k
    <2>7. Marked'
      <3>1. Range(jobs') \subseteq inflight' /\ \A l \in Lanes : Range(lane'[l]) \subseteq inflight'
        BY <2>1, <2>3, <2>4 DEF Inv, Marked
      <3>2. \A g \in Goroutines : at'[g].topic # None => at'[g].topic \in inflight'
        BY <2>1, <2>5 DEF Inv, Marked
      <3>3. ASSUME NEW u \in inflight'
            PROVE  \/ u \in Range(jobs')
                   \/ \E l \in Lanes : u \in Range(lane'[l])
                   \/ \E g \in Goroutines : at'[g].topic = u
        <4>1. CASE u = t
          BY <2>0, <2>4, <4>1
        <4>2. CASE u \in inflight
          <5>1. \A l \in Lanes : Range(lane[l]) \subseteq Range(lane'[l])
            BY <2>3, <2>4
          <5> QED BY <2>1, <2>5, <4>2, <5>1 DEF Inv, Marked
        <4> QED BY <2>1, <3>3, <4>1, <4>2
      <3> QED BY <3>1, <3>2, <3>3 DEF Marked
    <2>8. Queued'
      BY <1>5, <2>0, <2>1, <2>3, <2>4 DEF Inv, Marked, Queued, k, Spaced
    <2>9. Held'
      BY <1>1, <1>5, <2>0, <2>1, <2>3, <2>4, <2>5, Nobody DEF Inv, Marked, Held
    <2> QED BY <2>6, <2>7, <2>8, <2>9 DEF Inv
  <1> QED BY <1>3, <1>4, <1>5

LEMMA TakeInv == ASSUME Inv, NEW g \in Workers, Take(g) PROVE Inv'
  <1> DEFINE t == Head(jobs)
  <1>1. g \in Goroutines /\ jobs # << >> /\ at[g].pc = "idle" /\ at[g].topic = None
        /\ jobs \in Seq(Topics) /\ UNCHANGED <<disp, inflight, lane>>
    BY DEF Take, Goroutines, Inv, Types
  <1>2. /\ t \in Topics /\ jobs' \in Seq(Topics) /\ Range(jobs) = Range(jobs') \cup {t}
        /\ IsInjective(jobs) => IsInjective(jobs') /\ t \notin Range(jobs')
    BY <1>1, TakeFirst DEF Take
  <1> HIDE DEF t
  <1>3. at' \in [Goroutines -> Places] /\ at'[g].topic = t /\ at'[g].pc = "check"
        /\ \A h \in Goroutines \ {g} : at'[h] = at[h]
    BY <1>1, <1>2, GoesOn DEF Take, t, Inv
  <1>4. Types'
    BY <1>1, <1>2, <1>3 DEF Inv, Types
  <1>5. Marked'
    <2>1. ASSUME NEW u \in inflight, u # t
          PROVE  \/ u \in Range(jobs')
                 \/ \E l \in Lanes : u \in Range(lane[l])
                 \/ \E h \in Goroutines : at'[h].topic = u
      <3>1. u # None
        BY Nobody DEF Inv, Types
      <3> QED BY <1>1, <1>2, <1>3, <2>1, <3>1 DEF Inv, Marked
    <2> QED BY <1>1, <1>2, <1>3, <2>1 DEF Inv, Marked
  <1>6. Queued'
    BY <1>1, <1>2 DEF Inv, Queued, Spaced
  <1>7. \A l \in Lanes : t \notin Range(lane[l])
    BY <1>2, Nobody DEF Inv, Queued, Spaced
  <1>8. Held'
    BY <1>1, <1>2, <1>3, <1>7 DEF Inv, Queued, Held
  <1> QED BY <1>4, <1>5, <1>6, <1>8 DEF Inv

LEMMA PopInv == ASSUME Inv, NEW g \in LaneWorkers, Pop(g) PROVE Inv'
  <1> DEFINE k == g[1]
             t == Head(lane[k])
  <1>1. g \in Goroutines /\ k \in Lanes /\ lane[k] # << >> /\ at[g].pc = "idle" /\ at[g].topic = None
        /\ lane \in [Lanes -> Seq(Topics)] /\ UNCHANGED <<disp, inflight, jobs>>
        /\ lane' = [lane EXCEPT ![k] = Tail(lane[k])]
    BY DEF Pop, Goroutines, LaneWorkers, Inv, Types
  <1> HIDE DEF k
  <1>2. /\ t \in Topics /\ Tail(lane[k]) \in Seq(Topics) /\ Range(lane[k]) = Range(Tail(lane[k])) \cup {t}
        /\ IsInjective(lane[k]) => IsInjective(Tail(lane[k])) /\ t \notin Range(Tail(lane[k]))
    BY <1>1, TakeFirst
  <1>3. lane' \in [Lanes -> Seq(Topics)] /\ lane'[k] = Tail(lane[k])
        /\ \A l \in Lanes \ {k} : lane'[l] = lane[l]
    BY <1>1, <1>2
  <1>4. at' \in [Goroutines -> Places] /\ at'[g].topic = t /\ at'[g].pc = "turn"
        /\ \A h \in Goroutines \ {g} : at'[h] = at[h]
    BY <1>1, <1>2, GoesOn DEF Pop, k, Inv
  <1> HIDE DEF t
  <1>5. Types'
    BY <1>1, <1>3, <1>4 DEF Inv, Types
  <1>6. Marked'
    <2>1. ASSUME NEW u \in inflight, u # t
          PROVE  \/ u \in Range(jobs)
                 \/ \E l \in Lanes : u \in Range(lane'[l])
                 \/ \E h \in Goroutines : at'[h].topic = u
      <3>1. u # None
        BY Nobody DEF Inv, Types
      <3> QED BY <1>1, <1>2, <1>3, <1>4, <2>1, <3>1 DEF Inv, Marked
    <2>2. \A l \in Lanes : Range(lane'[l]) \subseteq Range(lane[l])
      BY <1>1, <1>2, <1>3
    <2>3. t \in inflight
      BY <1>1, <1>2 DEF Inv, Marked
    <2> QED BY <1>1, <1>4, <2>1, <2>2, <2>3 DEF Inv, Marked
  <1>7. Queued'
    BY <1>1, <1>2, <1>3 DEF Inv, Queued, Spaced
  <1>8. t \notin Range(jobs) /\ \A l \in Lanes : t \notin Range(lane'[l])
    BY <1>1, <1>2, <1>3, Nobody DEF Inv, Queued, Spaced
  <1>9. Held'
    <2>1. t \in Range(lane[k]) /\ \A l \in Lanes : Range(lane'[l]) \subseteq Range(lane[l])
      BY <1>1, <1>2, <1>3
    <2>2. \A h \in Goroutines \ {g} : at'[h].topic = at[h].topic /\ at[h].topic # t
      BY <1>1, <1>4, <2>1 DEF Inv, Held
    <2>3. \A a, b \in Goroutines : at'[a].topic = at'[b].topic /\ a # b => at'[a].topic = None
      BY <1>4, <2>2 DEF Inv, Held
    <2>4. \A a \in Goroutines : /\ at'[a].topic \notin Range(jobs)
                                /\ \A l \in Lanes : at'[a].topic \notin Range(lane'[l])
      BY <1>4, <1>8, <2>1, <2>2 DEF Inv, Held
    <2> QED BY <1>1, <2>3, <2>4 DEF Held
  <1> QED BY <1>5, <1>6, <1>7, <1>9 DEF Inv

LEMMA ReleaseInv == ASSUME Inv, NEW g \in Goroutines, Release(g) PROVE Inv'
  <1>1. /\ UNCHANGED <<disp, jobs, lane>> /\ inflight' = inflight \ {at[g].topic}
        /\ at' \in [Goroutines -> Places] /\ at'[g].topic = None /\ at'[g].pc = "idle"
        /\ \A h \in Goroutines \ {g} : at'[h] = at[h]
    BY GoesOn DEF Release, Inv
  <1>2. Types'
    BY <1>1 DEF Inv, Types
  <1>3. Marked'
    BY <1>1 DEF Inv, Marked, Held
  <1>4. Queued'
    BY <1>1 DEF Inv, Queued
  <1>5. None \notin Range(jobs) /\ \A l \in Lanes : None \notin Range(lane[l])
    BY Nobody DEF Inv, Types, Marked
  <1>6. Held'
    BY <1>1, <1>5 DEF Inv, Held
  <1> QED BY <1>2, <1>3, <1>4, <1>6 DEF Inv

\* The steps that take no topic anywhere.
LEMMA RestInv ==
    ASSUME Inv, \/ Tick \/ InflightIDs \/ Query \/ QueryFails \/ QueueFull \/ EndRun \/ Shutdown
                \/ (\E t \in Topics : ComeDue(t) \/ Withdraw(t)) \/ Cancel \/ UNCHANGED vars
    PROVE  Inv'
  <1>1. UNCHANGED <<inflight, jobs, lane, at>>
    BY DEF Tick, InflightIDs, Query, QueryFails, QueueFull, EndRun, Shutdown, Stop, Return,
           ComeDue, Withdraw, Cancel, vars
  <1>2. disp' \in Runs
    <2>1. disp \in Runs /\ IdleDisp \in Runs /\ inflight \subseteq Topics
      BY DEF Inv, Types, IdleDisp, Runs
    <2>2. CASE Tick
      BY <2>1, <2>2 DEF Tick, IdleDisp, Runs
    <2>3. CASE InflightIDs
      <3>1. PICK ids \in SUBSET disp.excluded : disp' = [disp EXCEPT !.pc = "query", !.excluded = ids]
        BY <2>3 DEF InflightIDs
      <3> QED BY <2>1, <3>1 DEF Runs
    <2>4. CASE Query
      <3>1. PICK batch \in SeqOf(Topics, Slots) :
               disp' = IF batch = << >> THEN IdleDisp ELSE [disp EXCEPT !.pc = "loop", !.batch = batch]
        BY <2>4 DEF Query
      <3>2. batch \in Seq(Topics)
        BY SlotsAssumption DEF SeqOf
      <3>3. [disp EXCEPT !.pc = "loop", !.batch = batch] \in Runs
        BY <2>1, <3>2 DEF Runs
      <3> QED BY <2>1, <3>1, <3>3
    <2>5. CASE Stop \/ Return
      BY <2>1, <2>5 DEF Stop, Return, Runs
    <2>6. CASE ~Tick /\ ~InflightIDs /\ ~Query /\ ~Stop /\ ~Return
      <3>1. disp' \in {IdleDisp, disp}
        BY <2>6 DEF QueryFails, QueueFull, EndRun, Shutdown, ComeDue, Withdraw, Cancel, vars
      <3> QED BY <2>1, <3>1
    <2> QED BY <2>2, <2>3, <2>4, <2>5, <2>6
  <1> QED BY <1>1, <1>2, NothingMoves DEF Inv, Types

LEMMA GoneOnInv ==
    ASSUME Inv, NEW g \in Goroutines,
           Quit(g) \/ LeaveLane(g) \/ Turn(g) \/ SkipTurn(g) \/ Finish(g) \/ FinishLost(g)
    PROVE  Inv'
  <1>1. UNCHANGED <<disp, inflight, jobs, lane>>
    BY DEF Quit, LeaveLane, Turn, SkipTurn, Finish, FinishLost
  <1>2. PICK where \in {"idle", "turn", "check", "done", "gone"} :
           Now(g, where, at[g].topic) /\ (where \notin {"turn", "check", "done"} => at[g].topic = None)
    BY DEF Quit, LeaveLane, Turn, SkipTurn, Finish, FinishLost, Inv, Types
  <1>3. at[g].topic \in Topics \cup {None}
    BY DEF Inv, Types, Places
  <1>4. at' \in [Goroutines -> Places] /\ at'[g].topic = at[g].topic /\ at'[g].pc = where
        /\ \A h \in Goroutines \ {g} : at'[h] = at[h]
    BY <1>2, <1>3, GoesOn DEF Inv
  <1>5. \A h \in Goroutines : /\ at'[h].topic = at[h].topic
                              /\ at'[h].pc \notin {"turn", "check", "done"} => at[h].topic = None
    BY <1>2, <1>4 DEF Inv, Types
  <1>6. disp' \in Runs
    BY <1>1 DEF Inv, Types
  <1> QED BY <1>1, <1>4, <1>5, <1>6, NothingMoves

LEMMA NextInv == Inv /\ [Next]_vars => Inv'
  <1> SUFFICES ASSUME Inv, [Next]_vars PROVE Inv'
    OBVIOUS
  <1>1. Workers \subseteq Goroutines /\ LaneWorkers \subseteq Goroutines
    BY DEF Goroutines
  <1>2. CASE DispatchOnce \/ QueryFails \/ Shutdown \/ (\E t \in Topics : ComeDue(t) \/ Withdraw(t))
             \/ Cancel \/ UNCHANGED vars
    BY <1>2, StoreInv, RestInv DEF DispatchOnce
  <1>3. ASSUME NEW g \in Workers, SharedWorker(g) PROVE Inv'
    BY <1>1, <1>3, TakeInv, ReleaseInv, GoneOnInv DEF SharedWorker, Check
  <1>4. ASSUME NEW g \in LaneWorkers, LaneWorker(g) PROVE Inv'
    BY <1>1, <1>4, PopInv, ReleaseInv, GoneOnInv DEF LaneWorker, Check
  <1> QED BY <1>2, <1>3, <1>4 DEF Next

LEMMA InvIsOnce == Inv => HandledOnce
  <1> SUFFICES ASSUME Inv PROVE HandledOnce
    OBVIOUS
  <1> DEFINE queues == {jobs} \cup {lane[l] : l \in Lanes}
             queued == UNION {Range(q) : q \in queues}
  <1>1. \A t : t \in queued <=> t \in Range(jobs) \/ \E l \in Lanes : t \in Range(lane[l])
    OBVIOUS
  <1>2. \A q \in queues : IsInjective(q)
    BY DEF Inv, Queued
  <1> HIDE DEF queued, queues
  <1>3. None \notin inflight
    BY Nobody DEF Inv, Types
  <1>4. inflight = queued \cup Running
    BY <1>1, <1>3 DEF Inv, Marked, Running
  <1>5. queued \cap Running = {}
    BY <1>1 DEF Inv, Held, Running
  <1> USE DEF queued, queues
  <1>6. /\ \A g, h \in Goroutines : at[g].topic = at[h].topic /\ g # h => at[g].topic = None
        /\ \A t \in Range(jobs) : ~Spaced(t)
        /\ \A l \in Lanes : \A t \in Range(lane[l]) : LaneOf[t] = l
    BY DEF Inv, Held, Queued
  <1> QED BY <1>2, <1>4, <1>5, <1>6 DEF HandledOnce

\* A topic in flight is queued once or held by one goroutine, in the place of its
\* tracker, and nothing else is marked (dispatchOnce, laneFor, the workers).
THEOREM OneHandler == Spec => []HandledOnce
  <1> QED BY InitInv, NextInv, InvIsOnce, PTL DEF Spec

-----------------------------------------------------------------------------
(* The pace of a lane: its goroutines and the checkSpacer they share.       *)

\* The history agrees with the checkSpacer: every start was claimed.
EveryStartClaimed == quiet = since

PaceInv == LaneTypeOK /\ TurnsInOrder /\ EveryStartClaimed

LEMMA PaceInit == LaneInit => PaceInv
<1> SUFFICES ASSUME LaneInit PROVE PaceInv
  OBVIOUS
<1>1. LaneTypeOK
  <2>1. pc \in [LaneGoroutines -> {"idle", "sleep", "reread", "claim", "refused", "check"}]
    BY Zenon DEF LaneInit
  <2>2. wait \in [LaneGoroutines -> Nat] /\ \A g \in LaneGoroutines : wait[g] = 0
    BY 0 \in Nat, Zenon DEF LaneInit
  <2>3. ahead \in Nat /\ since \in 0..Spacing /\ quiet \in 0..Spacing
    <3>1. ahead = 0 /\ since = Spacing /\ quiet = Spacing
      BY Zenon DEF LaneInit
    <3> QED
      BY <3>1, SpacingAssumption
  <2>4. ended \in BOOLEAN
    BY Zenon DEF LaneInit
  <2> QED
    BY <2>1, <2>2, <2>3, <2>4 DEF LaneTypeOK
<1>2. Asleep = {} /\ ahead = 0 /\ quiet = since
  BY DEF LaneInit, Asleep
<1>3. TurnsInOrder
  BY <1>2, SpacingAssumption DEF TurnsInOrder
<1> QED
  BY <1>1, <1>2, <1>3 DEF PaceInv, EveryStartClaimed

\* Steps that move no slot and nobody who sleeps for one keep the order.
LEMMA OrderKept ==
    ASSUME TurnsInOrder, ahead' = ahead, ended' = ended, Asleep' = Asleep,
           \A g \in Asleep : wait'[g] = wait[g]
    PROVE  TurnsInOrder'
BY DEF TurnsInOrder

LEMMA PaceReserve ==
    ASSUME PaceInv, NEW g \in LaneGoroutines, Reserve(g)
    PROVE  PaceInv'
<1> USE SpacingAssumption DEF PaceInv, EveryStartClaimed
<1>1. /\ pc[g] = "idle" /\ wait[g] = 0 /\ ~ended
      /\ wait' = [wait EXCEPT ![g] = ahead] /\ ahead' = ahead + Spacing
      /\ pc' = [pc EXCEPT ![g] = "sleep"]
      /\ UNCHANGED <<since, ended, quiet>>
  BY DEF Reserve, reserve, Goto, LaneTypeOK
<1>2. LaneTypeOK'
  BY <1>1 DEF LaneTypeOK
<1>3. /\ \A h \in Asleep' : h # g => h \in Asleep /\ wait'[h] = wait[h]
      /\ Asleep \subseteq Asleep' /\ g \notin Asleep
      /\ wait'[g] = ahead /\ (ahead > 0 => g \in Asleep')
  BY <1>1 DEF LaneTypeOK, Asleep
<1>4. ASSUME NEW n \in {ahead'} \cup {wait'[h] : h \in Asleep'}, n > Spacing
      PROVE  \E h \in Asleep' : wait'[h] = n - Spacing
  <2>1. CASE n = ahead'
    BY <1>1, <1>3, <1>4, <2>1 DEF LaneTypeOK
  <2>2. CASE n # ahead'
    <3>1. n \in {ahead} \cup {wait[h] : h \in Asleep}
      BY <1>3, <1>4, <2>2
    <3>2. PICK h \in Asleep : wait[h] = n - Spacing
      BY <1>1, <1>4, <3>1 DEF TurnsInOrder
    <3> QED
      BY <1>3, <3>2
  <2> QED
    BY <2>1, <2>2
<1>5. /\ \A h \in Asleep' : wait'[h] + Spacing <= ahead'
      /\ \A h, k \in Asleep' : h # k => \/ wait'[h] + Spacing <= wait'[k]
                                        \/ wait'[k] + Spacing <= wait'[h]
  <2>1. \A h \in Asleep : wait[h] \in Nat
    BY DEF LaneTypeOK, Asleep
  <2> QED
    BY <1>1, <1>3, <2>1 DEF LaneTypeOK, TurnsInOrder
<1>6. TurnsInOrder'
  BY <1>4, <1>5 DEF TurnsInOrder
<1> QED
  BY <1>1, <1>2, <1>6

LEMMA PaceTick ==
    ASSUME PaceInv, ClockTick
    PROVE  PaceInv'
<1> USE SpacingAssumption DEF PaceInv, EveryStartClaimed, Down, Up
<1>1. LaneTypeOK' /\ quiet' = since'
  BY DEF ClockTick, LaneTypeOK
<1>2. \A g \in Asleep : wait[g] \in Nat /\ wait[g] > 0 /\ wait'[g] = wait[g] - 1
  BY DEF ClockTick, LaneTypeOK, Asleep
<1>3. Asleep' \subseteq Asleep /\ \A g \in Asleep : wait[g] > 1 => g \in Asleep'
  BY DEF ClockTick, LaneTypeOK, Asleep
<1>4. ahead \in Nat /\ ahead' = Down(ahead) /\ ended' = ended
  BY DEF ClockTick, LaneTypeOK
<1>5. ASSUME ~ended, NEW n \in {ahead'} \cup {wait'[h] : h \in Asleep'}, n > Spacing
      PROVE  \E h \in Asleep' : wait'[h] = n - Spacing
  <2>1. n + 1 \in {ahead} \cup {wait[h] : h \in Asleep} /\ n \in Nat
    <3>0. Spacing \in Nat
      OBVIOUS
    <3>1. CASE n = ahead'
      BY <1>4, <1>5, <3>0, <3>1
    <3>2. ASSUME NEW h \in Asleep', n = wait'[h] PROVE n + 1 = wait[h] /\ h \in Asleep /\ n \in Nat
      BY <1>2, <1>3, <3>2
    <3> QED
      BY <1>5, <3>1, <3>2
  <2>2. PICK h \in Asleep : wait[h] = n + 1 - Spacing
    BY <1>5, <2>1 DEF TurnsInOrder
  <2>3. wait[h] \in Nat /\ wait'[h] = wait[h] - 1 /\ wait[h] > 1
    <3>1. Spacing \in Nat /\ n \in Nat /\ n > Spacing
      BY <1>5, <2>1
    <3> QED
      BY <1>2, <2>2, <3>1
  <2>4. wait'[h] = n - Spacing /\ h \in Asleep'
    BY <1>3, <2>1, <2>2, <2>3
  <2> QED
    BY <2>4
<1>6. \A g \in Asleep' : wait'[g] + Spacing <= ahead'
  BY <1>2, <1>3, <1>4 DEF TurnsInOrder
<1>7. \A g, h \in Asleep' : g # h => \/ wait'[g] + Spacing <= wait'[h]
                                     \/ wait'[h] + Spacing <= wait'[g]
  BY <1>2, <1>3 DEF TurnsInOrder
<1>8. TurnsInOrder'
  BY <1>4, <1>5, <1>6, <1>7 DEF TurnsInOrder
<1> QED
  BY <1>1, <1>8

LEMMA PaceNext == PaceInv /\ [LaneNext]_laneVars => PaceInv'
<1> SUFFICES ASSUME PaceInv, [LaneNext]_laneVars PROVE PaceInv'
  OBVIOUS
<1> USE SpacingAssumption DEF PaceInv, EveryStartClaimed
<1>1. ASSUME NEW g \in LaneGoroutines, Reserve(g) PROVE PaceInv'
  BY <1>1, PaceReserve
<1>2. CASE ClockTick
  BY <1>2, PaceTick
<1>3. ASSUME NEW g \in LaneGoroutines,
             Wake(g) \/ Reread(g) \/ Claim(g) \/ WakeRefused(g) \/ CheckEnds(g)
      PROVE  PaceInv'
  <2> USE DEF Wake, Reread, Claim, claim, WakeRefused, CheckEnds, Goto
  <2>1. LaneTypeOK' /\ quiet' = since'
    BY <1>3 DEF LaneTypeOK
  <2>2. ahead' = ahead /\ ended' = ended
    BY <1>3
  <2>3. Asleep' = Asleep /\ \A h \in Asleep : wait'[h] = wait[h]
    BY <1>3 DEF LaneTypeOK, Asleep
  <2> QED
    BY <2>1, <2>2, <2>3, OrderKept
<1>4. ASSUME NEW g \in LaneGoroutines, GiveUp(g) PROVE PaceInv'
  <2>1. LaneTypeOK' /\ quiet' = since'
    BY <1>4 DEF GiveUp, Goto, LaneTypeOK
  <2>2. ended' /\ ahead' = ahead
    BY <1>4 DEF GiveUp
  <2>3. Asleep' \subseteq Asleep /\ \A h \in Asleep' : wait'[h] = wait[h]
    BY <1>4 DEF GiveUp, Goto, LaneTypeOK, Asleep
  <2>4. TurnsInOrder'
    BY <2>2, <2>3 DEF TurnsInOrder
  <2> QED
    BY <2>1, <2>4
<1>5. CASE EndContext
  <2>1. LaneTypeOK' /\ quiet' = since'
    BY <1>5 DEF EndContext, LaneTypeOK
  <2>2. TurnsInOrder'
    BY <1>5 DEF EndContext, TurnsInOrder, Asleep
  <2> QED
    BY <2>1, <2>2
<1>6. CASE UNCHANGED laneVars
  BY <1>6 DEF laneVars, LaneTypeOK, TurnsInOrder, Asleep
<1> QED
  BY <1>1, <1>2, <1>3, <1>4, <1>5, <1>6 DEF LaneNext, TakeTurn

\* The invariant of the lane holds: its types, its order, its history.
LEMMA PaceInductive == LaneSpec => []PaceInv
<1>1. LaneInit => PaceInv
  BY PaceInit
<1>2. PaceInv /\ [LaneNext]_laneVars => PaceInv'
  BY PaceNext
<1> QED
  BY <1>1, <1>2, PTL DEF LaneSpec

\* The reserved slots are in order and every one of them is slept for.
THEOREM SlotsInOrder == LaneSpec => []TurnsInOrder
<1>1. PaceInv => TurnsInOrder
  BY DEF PaceInv
<1> QED
  BY <1>1, PaceInductive, PTL

\* No two checks start closer together than the tracker asks.
THEOREM ChecksStartApart == LaneSpec => StartsApart
<1>1. PaceInv /\ [LaneNext]_laneVars =>
        [(\E g \in LaneGoroutines : Starts(g)) => quiet >= Spacing]_laneVars
  <2> SUFFICES ASSUME PaceInv, LaneNext, NEW g \in LaneGoroutines, Starts(g)
               PROVE  quiet >= Spacing
    BY Zenon
  <2> USE DEF PaceInv, EveryStartClaimed, Starts, Goto
  <2>1. ASSUME NEW h \in LaneGoroutines, Claim(h) PROVE quiet >= Spacing
    BY <2>1, SpacingAssumption DEF Claim, claim, LaneTypeOK
  <2>2. ASSUME NEW h \in LaneGoroutines,
               Reserve(h) \/ Wake(h) \/ Reread(h) \/ WakeRefused(h) \/ GiveUp(h) \/ CheckEnds(h)
        PROVE  FALSE
    BY <2>2 DEF Reserve, Wake, Reread, WakeRefused, GiveUp, CheckEnds, LaneTypeOK
  <2>3. ~ClockTick /\ ~EndContext
    BY DEF ClockTick, EndContext
  <2> QED
    BY <2>1, <2>2, <2>3 DEF LaneNext, TakeTurn
<1> QED
  BY <1>1, PaceInductive, PTL DEF StartsApart, LaneSpec
=============================================================================
