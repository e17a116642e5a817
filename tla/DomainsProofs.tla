---------------------------- MODULE DomainsProofs ----------------------------
(***************************************************************************)
(* The table keeps up with the cache, and the ring does not spin past a    *)
(* working mirror: for any number of workers, any domains, thresholds and  *)
(* times.                                                                  *)
(***************************************************************************)
EXTENDS Domains, WellFoundedInduction, SequenceTheorems, TLAPS

\* The persist lock: who is in the middle of a write.
Locked ==
    /\ lock = Admin <=> adm # None
    /\ \A p \in Workers : w[p].pc = "persist" <=> lock = p

\* What is in use, and what an administrator is about to put in use, is known.
Known ==
    /\ cache.active \in {None} \cup Range(Ring)
    /\ adm # None => adm.active \in {None} \cup Range(known) \cup Range(adm.custom)

Rotated == \E p \in Workers : w[p].pc = "rotated"

\* Whoever writes the row writes what is in use, or somebody will write it later.
Current ==
    /\ adm # None => row = adm
    /\ \A p \in Workers : w[p].pc = "persist" =>
          w[p].fresh \in Configs /\ (Rotated \/ w[p].fresh = cache)
    /\ \/ dirty \/ adm # None \/ Rotated
       \/ \E p \in Workers : w[p].pc = "persist"
       \/ cache = Loaded(row, known)

Inv == TypeOK /\ Locked /\ Known /\ Current

-----------------------------------------------------------------------------
(* The ring.                                                               *)

LEMMA RangeOfConcat ==
    ASSUME NEW s \in Seq(Hosts), NEW t \in Seq(Hosts)
    PROVE  Range(s \o t) = Range(s) \cup Range(t)
  <1>1. /\ s \o t \in Seq(Hosts) /\ Len(s \o t) = Len(s) + Len(t)
        /\ \A i \in 1..(Len(s) + Len(t)) : (s \o t)[i] = IF i <= Len(s) THEN s[i] ELSE t[i - Len(s)]
    BY ConcatProperties
  <1>2. /\ Len(s) \in Nat /\ Len(t) \in Nat /\ Len(s \o t) \in Nat
        /\ DOMAIN s = 1..Len(s) /\ DOMAIN t = 1..Len(t) /\ DOMAIN (s \o t) = 1..Len(s \o t)
    BY <1>1, LenProperties
  <1>3. ASSUME NEW x \in Range(s \o t) PROVE x \in Range(s) \cup Range(t)
    <2>1. PICK i \in 1..Len(s \o t) : x = (s \o t)[i]
      BY <1>2, <1>3 DEF Range
    <2>2. CASE i <= Len(s)
      BY <1>1, <1>2, <2>1, <2>2 DEF Range
    <2>3. CASE i > Len(s)
      <3>1. i - Len(s) \in 1..Len(t) /\ x = t[i - Len(s)]
        BY <1>1, <1>2, <2>1, <2>3
      <3> QED BY <1>2, <3>1 DEF Range
    <2> QED BY <1>2, <2>1, <2>2, <2>3
  <1>4. ASSUME NEW x \in Range(s) PROVE x \in Range(s \o t)
    <2>1. PICK i \in 1..Len(s) : x = s[i]
      BY <1>2, <1>4 DEF Range
    <2>2. i \in 1..Len(s \o t) /\ (s \o t)[i] = x
      BY <1>1, <1>2, <2>1
    <2> QED BY <1>2, <2>2 DEF Range
  <1>5. ASSUME NEW x \in Range(t) PROVE x \in Range(s \o t)
    <2>1. PICK i \in 1..Len(t) : x = t[i]
      BY <1>2, <1>5 DEF Range
    <2>2. i + Len(s) \in 1..Len(s \o t) /\ (s \o t)[i + Len(s)] = x
      BY <1>1, <1>2, <2>1
    <2> QED BY <1>2, <2>2 DEF Range
  <1> QED BY <1>3, <1>4, <1>5

LEMMA RingIsSeq ==
    ASSUME TypeOK
    PROVE  /\ Ring \in Seq(Hosts) /\ DOMAIN Ring = 1..Len(Ring) /\ Len(Ring) \in Nat
           /\ Range(Ring) = Range(known) \cup Range(cache.custom)
           /\ known[1] \in Range(Ring) /\ Range(Ring) \subseteq Hosts
  <1>1. known \in Seq(Hosts) /\ known # <<>> /\ cache.custom \in Seq(Hosts)
    BY DomainsAssumption DEF TypeOK, Configs
  <1>2. Ring \in Seq(Hosts) /\ Range(Ring) = Range(known) \cup Range(cache.custom)
    BY <1>1, RangeOfConcat, ConcatProperties DEF Ring
  <1>3. /\ Len(known) \in Nat \ {0} /\ DOMAIN known = 1..Len(known)
        /\ Len(Ring) \in Nat /\ DOMAIN Ring = 1..Len(Ring)
    BY <1>1, <1>2, EmptySeq, LenProperties
  <1>4. known[1] \in Range(known)
    BY <1>3 DEF Range
  <1>5. Range(Ring) \subseteq Hosts
    BY <1>2, <1>3, ElementOfSeq DEF Range
  <1> QED BY <1>2, <1>3, <1>4, <1>5

\* The loop that looks for the active domain finds it, and what follows it in the
\* ring is a domain of the ring.
LEMMA NextIsInRing ==
    ASSUME TypeOK, Known
    PROVE  effectiveDomain \in Hosts /\ NextInRing \in Range(Ring)
  <1>1. effectiveDomain \in Range(Ring)
    BY RingIsSeq DEF effectiveDomain, Known
  <1> DEFINE At == {i \in DOMAIN Ring : Ring[i] = effectiveDomain}
             First(i) == Ring[i] = effectiveDomain /\ \A j \in 1..(i - 1) : Ring[j] # effectiveDomain
             at == CHOOSE i \in DOMAIN Ring : First(i)
  <1>2. At \subseteq Nat /\ At # {}
    BY <1>1, RingIsSeq DEF Range
  <1>3. PICK i \in At : \A j \in At : ~(<<j, i>> \in OpToRel(<, Nat))
    <2> HIDE DEF At
    <2> QED BY <1>2, WFMin, NatLessThanWellFounded, Zenon
  <1>4. \A j \in At : ~(j < i)
    BY <1>2, <1>3 DEF OpToRel
  <1>5. First(i)
    BY <1>4, RingIsSeq
  <1>6. at \in DOMAIN Ring
    BY <1>5
  <1>7. (at % Len(Ring)) + 1 \in DOMAIN Ring
    <2>1. \A n \in Nat : \A m \in 1..n : (m % n) + 1 \in 1..n
      OBVIOUS
    <2> HIDE DEF at
    <2> QED BY <1>6, <2>1, RingIsSeq
  <1>8. NextInRing = Ring[(at % Len(Ring)) + 1]
    BY DEF NextInRing
  <1> QED BY <1>1, <1>7, <1>8, RingIsSeq DEF Range

-----------------------------------------------------------------------------
(* The inductive invariant.                                                *)

\* What is known already is loaded as it is.
LEMMA LoadedKnown ==
    ASSUME NEW value \in Configs, NEW domains,
           value.active \in {None} \cup Range(domains) \cup Range(value.custom)
    PROVE  Loaded(value, domains) = value
  BY DEF Loaded, Configs

LEMMA LoadedIsKnown ==
    ASSUME NEW value \in Configs, NEW domains \in Builds
    PROVE  /\ Loaded(value, domains) \in Configs
           /\ Loaded(value, domains).active
                 \in {None} \cup Range(domains) \cup Range(Loaded(value, domains).custom)
  BY DEF Loaded, Configs

LEMMA EmptyIsConfig == Empty \in Configs /\ Empty.active = None
  BY EmptySeq DEF Empty, Configs

LEMMA IdleState == Idle \in WorkerStates /\ Idle.pc = "idle"
  BY DomainsAssumption DEF Idle, WorkerStates

LEMMA InitInv == Init => Inv
  <1> SUFFICES ASSUME Init PROVE Inv
    OBVIOUS
  <1>1. TypeOK
    <2>1. w \in [Workers -> WorkerStates]
      BY IdleState DEF Init
    <2>2. fails \in [count : 0..Threshold, age : {None} \cup 0..(Window + 1)] /\ cooling \in 0..Cooldown
      BY DomainsAssumption DEF Init, NoFails
    <2> QED BY <2>1, <2>2, EmptyIsConfig DEF Init, TypeOK
  <1>2. \A p \in Workers : w[p].pc = "idle"
    BY IdleState DEF Init
  <1>3. Locked
    BY <1>2, DomainsAssumption DEF Init, Locked
  <1>4. Known
    BY EmptyIsConfig DEF Init, Known
  <1>5. Loaded(row, known) = cache
    BY EmptyIsConfig, LoadedKnown DEF Init
  <1>6. Current
    BY <1>2, <1>5 DEF Init, Current
  <1> QED BY <1>1, <1>3, <1>4, <1>6 DEF Inv

\* The worker's own step.
LEMMA StepOf ==
    ASSUME w \in [Workers -> WorkerStates], NEW p \in Workers, NEW rec \in WorkerStates,
           w' = [w EXCEPT ![p] = rec]
    PROVE  /\ w' \in [Workers -> WorkerStates] /\ w'[p] = rec
           /\ \A q \in Workers \ {p} : w'[q] = w[q]
  OBVIOUS

\* A worker that only moves between checking and idling.
LEMMA ReadsOnly ==
    ASSUME Inv, NEW p \in Workers, NEW rec \in WorkerStates,
           UNCHANGED <<known, cache, row, lock, adm, dirty>>,
           fails' \in [count : 0..Threshold, age : {None} \cup 0..(Window + 1)],
           UNCHANGED <<cooling, by>>, blamed' \subseteq Hosts \cup {None},
           w[p].pc \notin {"rotated", "persist"},
           w' = [w EXCEPT ![p] = rec], rec.pc \notin {"rotated", "persist"}
    PROVE  Inv'
  <1>1. /\ w' \in [Workers -> WorkerStates] /\ w'[p].pc \notin {"rotated", "persist"}
        /\ \A q \in Workers \ {p} : w'[q] = w[q]
    BY StepOf DEF Inv, TypeOK
  <1>2. TypeOK'
    BY <1>1 DEF Inv, TypeOK
  <1>3. Locked'
    BY <1>1 DEF Inv, Locked
  <1>4. Known'
    BY DEF Inv, Known, Ring
  <1>5. Rotated' = Rotated
    BY <1>1 DEF Rotated
  <1>6. Loaded(row, known)' = Loaded(row, known)
    BY DEF Loaded
  <1>7. Current'
    BY <1>1, <1>5, <1>6 DEF Inv, Current
  <1> QED BY <1>2, <1>3, <1>4, <1>7 DEF Inv

LEMMA BeginInv == ASSUME Inv, NEW p \in Workers, Request(p) PROVE Inv'
  <1> DEFINE rec == [Idle EXCEPT !.pc = "request", !.domain = effectiveDomain]
  <1>1. rec \in WorkerStates /\ rec.pc = "request"
    <2>1. effectiveDomain \in Hosts
      BY NextIsInRing DEF Inv
    <2> QED BY <2>1, IdleState DEF Idle, WorkerStates
  <1>2. w' = [w EXCEPT ![p] = rec] /\ w[p].pc = "idle"
    BY IdleState DEF Request
  <1>3. UNCHANGED <<known, cache, row, fails, cooling, lock, adm, by, blamed, dirty>>
    BY DEF Request, config, counters
  <1> HIDE DEF rec
  <1> QED BY <1>1, <1>2, <1>3, ReadsOnly DEF Inv, TypeOK

LEMMA EndInv == ASSUME Inv, NEW p \in Workers, Answered(p) PROVE Inv'
  <1>1. w' = [w EXCEPT ![p] = Idle] /\ w[p].pc = "request"
    BY DEF Answered
  <1>2. UNCHANGED <<known, cache, row, fails, cooling, lock, adm, by, blamed, dirty>>
    BY DEF Answered, config, counters
  <1> QED BY <1>1, <1>2, IdleState, ReadsOnly DEF Inv, TypeOK

LEMMA CountedInNat == ASSUME TypeOK PROVE Counted \in Nat /\ (WindowOver \/ fails.age \in 0..(Window + 1))
  BY DEF Counted, WindowOver, TypeOK

\* A failure that is ignored or counted changes nothing of the configuration; a
\* rotation puts a domain of the ring in use and leaves a worker that will write it.
LEMMA ReportInv == ASSUME Inv, NEW p \in Workers, ReportFailure(p) PROVE Inv'
  <1>1. w[p].pc = "request" /\ UNCHANGED <<known, row, lock, adm, dirty>>
    BY DEF ReportFailure
  <1>2. w[p].domain \in Hosts \cup {None}
    BY DEF Inv, TypeOK, WorkerStates
  <1>3. CASE Ignored(p)
    <2>1. w' = [w EXCEPT ![p] = Idle] /\ UNCHANGED <<cache, by, fails, cooling, blamed>>
      BY <1>3 DEF Ignored, counters
    <2> QED BY <1>1, <2>1, IdleState, ReadsOnly DEF Inv, TypeOK
  <1>4. ASSUME ~Ignored(p) PROVE blamed' \subseteq Hosts \cup {None}
    BY <1>2, <1>4 DEF ReportFailure, Inv, TypeOK
  <1>5. CASE Count(p) /\ ~Ignored(p)
    <2>1. /\ w' = [w EXCEPT ![p] = Idle] /\ UNCHANGED <<cache, by, cooling>>
          /\ fails' = [count |-> Counted, age |-> IF WindowOver THEN 0 ELSE fails.age]
          /\ Counted < Threshold
      BY <1>5 DEF Count
    <2>2. fails' \in [count : 0..Threshold, age : {None} \cup 0..(Window + 1)]
      BY <2>1, CountedInNat, DomainsAssumption DEF Inv
    <2> QED BY <1>1, <1>4, <1>5, <2>1, <2>2, IdleState, ReadsOnly
  <1>6. CASE Rotate(p) /\ ~Ignored(p)
    <2> DEFINE rec == [Idle EXCEPT !.pc = "rotated"]
    <2>1. rec \in WorkerStates /\ rec.pc = "rotated"
      BY IdleState DEF Idle, WorkerStates
    <2>2. /\ w' = [w EXCEPT ![p] = rec] /\ cache' = [cache EXCEPT !.active = NextInRing]
          /\ by' = "rotation" /\ fails' = NoFails /\ cooling' = Cooldown
      BY <1>6 DEF Rotate
    <2>3. w' \in [Workers -> WorkerStates] /\ w'[p].pc = "rotated"
          /\ \A q \in Workers \ {p} : w'[q] = w[q]
      BY <2>1, <2>2, StepOf DEF Inv, TypeOK
    <2>4. NextInRing \in Range(Ring) /\ Range(Ring) \subseteq Hosts
      BY NextIsInRing, RingIsSeq DEF Inv
    <2>5. cache' \in Configs /\ cache'.active = NextInRing /\ cache'.custom = cache.custom
      BY <2>2, <2>4 DEF Inv, TypeOK, Configs
    <2>6. TypeOK'
      <3>1. fails' \in [count : 0..Threshold, age : {None} \cup 0..(Window + 1)] /\ cooling' \in 0..Cooldown
        BY <2>2, DomainsAssumption DEF NoFails
      <3> QED BY <1>1, <1>4, <1>6, <2>2, <2>3, <2>5, <3>1 DEF Inv, TypeOK
    <2>7. Locked'
      BY <1>1, <2>3 DEF Inv, Locked
    <2>8. Known'
      <3>1. Ring' = Ring
        BY <1>1, <2>5 DEF Ring
      <3> QED BY <1>1, <2>4, <2>5, <3>1 DEF Inv, Known
    <2>9. Rotated'
      BY <2>3 DEF Rotated
    <2>10. Current'
      BY <1>1, <2>3, <2>9 DEF Inv, Current
    <2> QED BY <2>6, <2>7, <2>8, <2>10 DEF Inv
  <1> QED BY <1>3, <1>5, <1>6 DEF ReportFailure

LEMMA RereadInv == ASSUME Inv, NEW p \in Workers, Reread(p) PROVE Inv'
  <1> DEFINE rec == [Idle EXCEPT !.pc = "persist", !.fresh = cache]
  <1>1. rec \in WorkerStates /\ rec.pc = "persist" /\ rec.fresh = cache
    BY IdleState DEF Inv, TypeOK, Idle, WorkerStates
  <1>2. /\ w' = [w EXCEPT ![p] = rec] /\ w[p].pc = "rotated" /\ lock = None /\ lock' = p
        /\ UNCHANGED <<known, cache, row, fails, cooling, adm, by, blamed, dirty>>
    BY DEF Reread, config, counters
  <1> HIDE DEF rec
  <1>3. w' \in [Workers -> WorkerStates] /\ w'[p] = rec /\ \A q \in Workers \ {p} : w'[q] = w[q]
    BY <1>1, <1>2, StepOf DEF Inv, TypeOK
  <1>4. TypeOK'
    BY <1>2, <1>3 DEF Inv, TypeOK
  <1>5. adm = None /\ \A q \in Workers : w[q].pc # "persist"
    BY <1>2, DomainsAssumption DEF Inv, Locked
  <1>6. Locked'
    BY <1>1, <1>2, <1>3, <1>5, DomainsAssumption DEF Locked
  <1>7. Known'
    BY <1>2 DEF Inv, Known, Ring
  <1>8. Current'
    BY <1>1, <1>2, <1>3, <1>5 DEF Current, Inv, TypeOK
  <1> QED BY <1>4, <1>6, <1>7, <1>8 DEF Inv

\* The write that matters: unless somebody is to write again, it makes the row
\* equal to what is in use.
LEMMA PersistInv == ASSUME Inv, NEW p \in Workers, Persist(p) PROVE Inv'
  <1>1. /\ w' = [w EXCEPT ![p] = Idle] /\ w[p].pc = "persist" /\ lock' = None
        /\ UNCHANGED <<known, cache, fails, cooling, adm, by, blamed>>
    BY DEF Persist, counters
  <1>2. w' \in [Workers -> WorkerStates] /\ w'[p] = Idle /\ \A q \in Workers \ {p} : w'[q] = w[q]
    BY <1>1, IdleState, StepOf DEF Inv, TypeOK
  <1>3. lock = p /\ adm = None /\ \A q \in Workers \ {p} : w[q].pc # "persist"
    BY <1>1, DomainsAssumption DEF Inv, Locked
  <1>4. Locked'
    BY <1>1, <1>2, <1>3, IdleState, DomainsAssumption DEF Locked
  <1>5. Known'
    BY <1>1 DEF Inv, Known, Ring
  <1>6. Rotated' = Rotated
    BY <1>1, <1>2, IdleState DEF Rotated
  <1>7. w[p].fresh \in Configs /\ (Rotated \/ w[p].fresh = cache)
    BY <1>1 DEF Inv, Current
  <1>8. row' \in Configs /\ dirty' \in BOOLEAN /\ (dirty' \/ Rotated \/ row' = cache)
    <2>1. CASE Upserted(w[p].fresh)
      <3>1. row' = w[p].fresh /\ dirty' = FALSE
        BY <2>1 DEF Upserted
      <3> QED BY <3>1, <1>7
    <2>2. CASE UpsertFails(w[p].fresh)
      <3>1. row' \in {row, w[p].fresh} /\ dirty' = TRUE
        BY <2>2 DEF UpsertFails
      <3> QED BY <3>1, <1>7 DEF Inv, TypeOK
    <2> QED BY <2>1, <2>2 DEF Persist
  <1>9. TypeOK'
    BY <1>1, <1>2, <1>8 DEF Inv, TypeOK
  <1>10. Loaded(cache, known) = cache
    BY LoadedKnown, RingIsSeq DEF Inv, Known, TypeOK
  <1>11. (Loaded(row, known))' = Loaded(row', known)
    BY <1>1 DEF Loaded
  <1>12. Current'
    BY <1>1, <1>2, <1>3, <1>6, <1>8, <1>10, <1>11, IdleState DEF Current
  <1> QED BY <1>4, <1>5, <1>9, <1>12 DEF Inv

LEMMA SetRowInv == ASSUME Inv, NEW request \in Requests, SetRow(request) PROVE Inv'
  <1>1. /\ UNCHANGED <<known, cache, w, fails, cooling, by, blamed>> /\ lock = None
        /\ Acceptable(request) /\ request \in Configs
    BY DomainsAssumption DEF SetRow, counters
  <1>2. adm = None /\ \A q \in Workers : w[q].pc # "persist"
    BY <1>1, DomainsAssumption DEF Inv, Locked
  <1>3. Rotated' = Rotated
    BY <1>1 DEF Rotated
  <1>4. CASE Upserted(request) /\ adm' = request /\ lock' = Admin
    <2>1. row' = request /\ dirty' = FALSE /\ adm' # None
      BY <1>1, <1>4, DomainsAssumption DEF Upserted
    <2>2. TypeOK'
      BY <1>1, <1>4, <2>1 DEF Inv, TypeOK
    <2>3. Locked'
      BY <1>1, <1>2, <1>4, <2>1, DomainsAssumption DEF Locked
    <2>4. Known'
      BY <1>1, <1>4 DEF Inv, Known, Ring, Acceptable
    <2>5. Current'
      BY <1>1, <1>2, <1>4, <2>1 DEF Current
    <2> QED BY <2>2, <2>3, <2>4, <2>5 DEF Inv
  <1>5. CASE UpsertFails(request) /\ UNCHANGED <<adm, lock>>
    <2>1. row' \in {row, request} /\ dirty' = TRUE
      BY <1>5 DEF UpsertFails
    <2>2. TypeOK'
      BY <1>1, <1>5, <2>1 DEF Inv, TypeOK
    <2>3. Locked'
      BY <1>1, <1>5 DEF Inv, Locked
    <2>4. Known'
      BY <1>1, <1>5 DEF Inv, Known, Ring
    <2>5. Current'
      BY <1>1, <1>2, <1>5, <2>1 DEF Current
    <2> QED BY <2>2, <2>3, <2>4, <2>5 DEF Inv
  <1> QED BY <1>4, <1>5 DEF SetRow

LEMMA SetCacheInv == ASSUME Inv, SetCache PROVE Inv'
  <1>1. /\ adm # None /\ cache' = adm /\ by' = "admin" /\ adm' = None /\ lock' = None
        /\ UNCHANGED <<known, row, w, fails, cooling, blamed, dirty>>
    BY DEF SetCache, counters
  <1>2. lock = Admin /\ row = adm /\ adm \in Configs /\ \A q \in Workers : w[q].pc # "persist"
    BY <1>1, DomainsAssumption DEF Inv, Locked, Current, TypeOK
  <1>3. TypeOK'
    BY <1>1, <1>2 DEF Inv, TypeOK
  <1>4. Locked'
    BY <1>1, <1>2, DomainsAssumption DEF Locked
  <1>5. Known'
    <2>1. adm.active \in {None} \cup Range(known) \cup Range(adm.custom)
      BY <1>1 DEF Inv, Known
    <2>2. known' \in Seq(Hosts) /\ cache'.custom \in Seq(Hosts)
      BY <1>3, DomainsAssumption DEF TypeOK, Configs
    <2>3. Range(Ring') = Range(known') \cup Range(cache'.custom)
      BY <2>2, RangeOfConcat DEF Ring
    <2> QED BY <1>1, <2>1, <2>3 DEF Known
  <1>6. Loaded(adm, known) = adm
    BY <1>1, <1>2, LoadedKnown DEF Inv, Known
  <1>7. Loaded(row, known)' = Loaded(row, known)
    BY <1>1 DEF Loaded
  <1>8. Current'
    BY <1>1, <1>2, <1>6, <1>7 DEF Current
  <1> QED BY <1>3, <1>4, <1>5, <1>8 DEF Inv

LEMMA RestartInv == ASSUME Inv, Restart PROVE Inv'
  <1>1. /\ known' \in Builds /\ fails' = NoFails /\ cooling' = 0 /\ blamed' = {} /\ lock' = None
        /\ w' = [p \in Workers |-> Idle] /\ adm' = None /\ by' = "boot" /\ row' = row
    BY DEF Restart
  <1>2. row \in Configs /\ dirty \in BOOLEAN
    BY DEF Inv, TypeOK
  <1>3. cache' \in Configs /\ dirty' \in BOOLEAN
        /\ cache'.active \in {None} \cup Range(known') \cup Range(cache'.custom)
        /\ (dirty' \/ cache' = Loaded(row, known'))
    <2>1. CASE cache' = Loaded(row, known') /\ UNCHANGED <<dirty, faults>>
      BY <1>1, <1>2, <2>1, LoadedIsKnown
    <2>2. CASE cache' = Empty /\ dirty' = TRUE /\ Fault
      BY <2>2, EmptyIsConfig
    <2> QED BY <2>1, <2>2 DEF Restart
  <1>4. w' \in [Workers -> WorkerStates] /\ \A p \in Workers : w'[p].pc = "idle"
    BY <1>1, IdleState
  <1>5. TypeOK'
    <2>1. fails' \in [count : 0..Threshold, age : {None} \cup 0..(Window + 1)] /\ cooling' \in 0..Cooldown
      BY <1>1, DomainsAssumption DEF NoFails
    <2> QED BY <1>1, <1>2, <1>3, <1>4, <2>1 DEF TypeOK
  <1>6. Locked'
    BY <1>1, <1>4, DomainsAssumption DEF Locked
  <1>7. Known'
    <2>1. known' \in Seq(Hosts) /\ cache'.custom \in Seq(Hosts)
      BY <1>5, DomainsAssumption DEF TypeOK, Configs
    <2>2. Range(Ring') = Range(known') \cup Range(cache'.custom)
      BY <2>1, RangeOfConcat DEF Ring
    <2> QED BY <1>1, <1>3, <2>2 DEF Known
  <1>8. Loaded(row, known)' = Loaded(row, known')
    BY <1>1 DEF Loaded
  <1>9. Current'
    BY <1>1, <1>3, <1>4, <1>8 DEF Current
  <1> QED BY <1>5, <1>6, <1>7, <1>9 DEF Inv

LEMMA TickInv == ASSUME Inv, Tick PROVE Inv'
  <1>1. UNCHANGED <<known, cache, row, lock, adm, by, blamed, dirty>>
    BY DEF Tick, config
  <1>2. w' \in [Workers -> WorkerStates]
        /\ \A p \in Workers : w'[p].pc = w[p].pc /\ w'[p].fresh = w[p].fresh
    <2>1. ASSUME NEW p \in Workers
          PROVE  w'[p] \in WorkerStates /\ w'[p].pc = w[p].pc /\ w'[p].fresh = w[p].fresh
      <3>1. w[p] \in WorkerStates /\ w'[p] = IF w[p].pc = "request" THEN [w[p] EXCEPT !.age = @ + 1] ELSE w[p]
        BY DEF Tick, Inv, TypeOK
      <3>2. CASE w[p].pc = "request"
        <4>1. w[p].age + 1 \in 0..RequestTime
          BY <3>1, <3>2, DomainsAssumption DEF Tick, WorkerStates
        <4> QED BY <3>1, <3>2, <4>1 DEF WorkerStates
      <3> QED BY <3>1, <3>2
    <2> QED BY <2>1 DEF Tick
  <1>3. fails' \in [count : 0..Threshold, age : {None} \cup 0..(Window + 1)]
    BY DomainsAssumption DEF Tick, Inv, TypeOK
  <1>4. cooling' \in 0..Cooldown
    BY DomainsAssumption DEF Tick, Inv, TypeOK
  <1>5. TypeOK'
    BY <1>1, <1>2, <1>3, <1>4 DEF Inv, TypeOK
  <1>6. Locked'
    BY <1>1, <1>2 DEF Inv, Locked
  <1>7. Known'
    BY <1>1 DEF Inv, Known, Ring
  <1>8. Rotated' = Rotated /\ Loaded(row, known)' = Loaded(row, known)
    BY <1>1, <1>2 DEF Rotated, Loaded
  <1>9. Current'
    BY <1>1, <1>2, <1>8 DEF Inv, Current
  <1> QED BY <1>5, <1>6, <1>7, <1>9 DEF Inv

LEMMA StepInv == Inv /\ [Next]_vars => Inv'
  <1> SUFFICES ASSUME Inv, [Next]_vars PROVE Inv'
    OBVIOUS
  <1>1. CASE \E p \in Workers : Request(p) \/ Answered(p) \/ ReportFailure(p) \/ Reread(p) \/ Persist(p)
    BY <1>1, BeginInv, EndInv, ReportInv, RereadInv, PersistInv
  <1>2. CASE \E request \in Requests : SetRow(request)
    BY <1>2, SetRowInv
  <1>3. CASE SetCache \/ Restart \/ Tick
    BY <1>3, SetCacheInv, RestartInv, TickInv
  <1>4. CASE UNCHANGED vars
    BY <1>4 DEF vars, config, counters, Inv, TypeOK, Locked, Known, Current, Rotated, Ring, Loaded
  <1> QED BY <1>1, <1>2, <1>3, <1>4 DEF Next

LEMMA InvHolds == Spec => []Inv
  BY InitInv, StepInv, PTL DEF Spec

\* The configuration survives a restart (domains/store.go, Set and ReportFailure):
\* unless a statement failed, a quiet store and its row say the same, and what is
\* in use is a domain the program or the administrator knows.
THEOREM TableFollowsCache == Spec => []ConfigSurvives
  <1>1. Inv => ConfigSurvives
    BY DEF Inv, Known, Current, Rotated, ConfigSurvives
  <1> QED BY <1>1, InvHolds, PTL

-----------------------------------------------------------------------------
(* The cooldown.                                                           *)

\* Unless an administrator chose the domain: a request to another one was sent
\* before the rotation, so the cooldown outlasts it or it has waited for all of
\* it; and the prompt failures counted since are of the domain in use.
MirrorInv ==
    by # "admin" =>
        /\ \A p \in Workers : w[p].pc = "request" =>
              w[p].domain = effectiveDomain \/ w[p].age + cooling >= Cooldown
        /\ WindowOver \/ blamed \subseteq {effectiveDomain}

LEMMA MirrorInit == Init => MirrorInv
  BY IdleState DEF Init, MirrorInv, WindowOver, NoFails

\* A request that fails within a Cooldown, when no rotation is that recent, was
\* sent to the domain in use.
LEMMA CountedOnActive ==
    ASSUME TypeOK, MirrorInv, by # "admin", NEW p \in Workers, w[p].pc = "request", cooling = 0
    PROVE  (IF w[p].age < Cooldown THEN {w[p].domain} ELSE {}) \subseteq {effectiveDomain}
  <1>1. w[p].age \in Nat
    BY DomainsAssumption DEF TypeOK, WorkerStates
  <1> QED BY <1>1, DomainsAssumption DEF MirrorInv

LEMMA MirrorStep == Inv /\ MirrorInv /\ [Next]_vars => MirrorInv'
  <1> SUFFICES ASSUME Inv, MirrorInv, [Next]_vars, by' # "admin" PROVE MirrorInv'
    BY DEF MirrorInv
  <1>0. TypeOK /\ w \in [Workers -> WorkerStates]
    BY DEF Inv, TypeOK
  <1>1. ASSUME NEW p \in Workers, Request(p) PROVE MirrorInv'
    <2> DEFINE rec == [Idle EXCEPT !.pc = "request", !.domain = effectiveDomain]
    <2>1. w' = [w EXCEPT ![p] = rec] /\ UNCHANGED <<known, cache, fails, cooling, by, blamed>>
      BY <1>1 DEF Request, config, counters
    <2>2. rec.domain = effectiveDomain
      BY DEF Idle
    <2> HIDE DEF rec
    <2>3. w'[p] = rec /\ \A q \in Workers \ {p} : w'[q] = w[q]
      BY <1>0, <2>1
    <2>4. effectiveDomain' = effectiveDomain /\ WindowOver' = WindowOver
      BY <2>1 DEF effectiveDomain, WindowOver
    <2> QED BY <2>1, <2>2, <2>3, <2>4 DEF MirrorInv
  <1>2. ASSUME NEW p \in Workers, NEW rec \in WorkerStates, rec.pc # "request", w' = [w EXCEPT ![p] = rec],
               UNCHANGED <<known, cache, fails, cooling, by, blamed>>
        PROVE  MirrorInv'
    <2>1. w'[p] = rec /\ \A q \in Workers \ {p} : w'[q] = w[q]
      BY <1>0, <1>2
    <2>2. effectiveDomain' = effectiveDomain /\ WindowOver' = WindowOver
      BY <1>2 DEF effectiveDomain, WindowOver
    <2> QED BY <1>2, <2>1, <2>2 DEF MirrorInv
  <1>3. ASSUME NEW p \in Workers, Answered(p) \/ Persist(p) PROVE MirrorInv'
    BY <1>2, <1>3, IdleState DEF Answered, Persist, config, counters
  <1>4. ASSUME NEW p \in Workers, Reread(p) PROVE MirrorInv'
    <2> DEFINE rec == [Idle EXCEPT !.pc = "persist", !.fresh = cache]
    <2>1. rec \in WorkerStates /\ rec.pc = "persist"
      BY <1>0, IdleState DEF TypeOK, Idle, WorkerStates
    <2>2. w' = [w EXCEPT ![p] = rec] /\ UNCHANGED <<known, cache, fails, cooling, by, blamed>>
      BY <1>4 DEF Reread, config, counters
    <2> HIDE DEF rec
    <2> QED BY <1>2, <2>1, <2>2
  <1>5. ASSUME NEW p \in Workers, ReportFailure(p) PROVE MirrorInv'
    <2>1. w[p].pc = "request" /\ known' = known
      BY <1>5 DEF ReportFailure
    <2>2. CASE Ignored(p)
      BY <1>2, <2>1, <2>2, IdleState DEF Ignored, counters
    <2>3. CASE Count(p) /\ ~Ignored(p)
      <3>1. /\ cooling = 0 /\ w' = [w EXCEPT ![p] = Idle] /\ UNCHANGED <<cache, by, cooling>>
            /\ blamed' = (IF WindowOver THEN {} ELSE blamed)
                            \cup (IF w[p].age < Cooldown THEN {w[p].domain} ELSE {})
        BY <1>5, <2>3 DEF Count, ReportFailure
      <3>2. (IF w[p].age < Cooldown THEN {w[p].domain} ELSE {}) \subseteq {effectiveDomain}
        BY <1>0, <2>1, <3>1, CountedOnActive
      <3>3. w'[p].pc = "idle" /\ \A q \in Workers \ {p} : w'[q] = w[q]
        BY <1>0, <3>1, IdleState
      <3>4. effectiveDomain' = effectiveDomain
        BY <2>1, <3>1 DEF effectiveDomain
      <3>5. blamed' \subseteq {effectiveDomain}
        BY <3>1, <3>2 DEF MirrorInv
      <3> QED BY <3>1, <3>3, <3>4, <3>5 DEF MirrorInv
    <2>4. CASE Rotate(p) /\ ~Ignored(p)
      <3>1. /\ w' = [w EXCEPT ![p] = [Idle EXCEPT !.pc = "rotated"]]
            /\ fails' = NoFails /\ cooling' = Cooldown
        BY <2>4 DEF Rotate
      <3>2. WindowOver'
        BY <3>1 DEF WindowOver, NoFails
      <3>3. \A q \in Workers : w'[q].pc = "request" => w'[q] = w[q]
        <4>1. w'[p].pc = "rotated" /\ \A q \in Workers \ {p} : w'[q] = w[q]
          BY <1>0, <3>1 DEF Idle
        <4> QED BY <4>1
      <3>4. \A q \in Workers : w[q].age \in Nat
        BY <1>0, DomainsAssumption DEF WorkerStates
      <3>5. \A q \in Workers : w'[q].pc = "request" => w'[q].age + cooling' >= Cooldown
        BY <3>1, <3>3, <3>4, DomainsAssumption
      <3> QED BY <3>2, <3>5, <3>1 DEF MirrorInv
    <2> QED BY <1>5, <2>2, <2>3, <2>4 DEF ReportFailure
  <1>6. ASSUME NEW request \in Requests, SetRow(request) PROVE MirrorInv'
    BY <1>6 DEF SetRow, counters, MirrorInv, effectiveDomain, WindowOver
  <1>7. CASE SetCache
    BY <1>7 DEF SetCache
  <1>8. CASE Restart
    <2>1. fails' = NoFails /\ \A p \in Workers : w'[p].pc = "idle"
      BY <1>8, IdleState DEF Restart
    <2> QED BY <2>1 DEF MirrorInv, WindowOver, NoFails
  <1>9. CASE Tick
    <2>1. /\ UNCHANGED <<known, cache, by, blamed>>
          /\ cooling' = IF cooling = 0 THEN 0 ELSE cooling - 1
          /\ fails' = [fails EXCEPT !.age = IF @ = None \/ @ > Window THEN @ ELSE @ + 1]
      BY <1>9 DEF Tick, config
    <2>2. effectiveDomain' = effectiveDomain
      BY <2>1 DEF effectiveDomain
    <2>3. WindowOver => WindowOver'
      BY <1>0, <2>1, DomainsAssumption DEF WindowOver, TypeOK
    <2>4. ASSUME NEW p \in Workers, w'[p].pc = "request"
          PROVE  w'[p].domain = effectiveDomain' \/ w'[p].age + cooling' >= Cooldown
      <3>1. w[p].pc = "request" /\ w'[p] = [w[p] EXCEPT !.age = @ + 1] /\ w[p] \in WorkerStates
            /\ w[p].age < RequestTime
        BY <1>0, <1>9, <2>4 DEF Tick
      <3>2. w'[p].domain = w[p].domain /\ w'[p].age = w[p].age + 1 /\ w[p].age \in Nat
        BY <3>1, DomainsAssumption DEF WorkerStates
      <3>3. CASE w[p].domain = effectiveDomain
        BY <2>2, <3>2, <3>3
      <3>4. CASE w[p].age + cooling >= Cooldown
        <4>1. cooling \in Nat
          BY <1>0, DomainsAssumption DEF TypeOK
        <4> QED BY <2>1, <3>1, <3>2, <3>4, <4>1, DomainsAssumption
      <3> QED BY <2>1, <3>1, <3>3, <3>4 DEF MirrorInv
    <2> QED BY <2>1, <2>2, <2>3, <2>4 DEF MirrorInv
  <1>10. CASE UNCHANGED vars
    BY <1>10 DEF vars, config, counters, MirrorInv, effectiveDomain, WindowOver
  <1> QED BY <1>1, <1>3, <1>4, <1>5, <1>6, <1>7, <1>8, <1>9, <1>10 DEF Next

\* A burst of failing topics does not spin the ring past the working mirror
\* (domains/store.go, RotateCooldown): only failures of requests to the domain in
\* use count towards leaving it, unless an administrator chose it or a request
\* took a whole cooldown to fail.
THEOREM RingDoesNotSpin == Spec => WorkingMirrorStays
  <1> DEFINE Kept == \A p \in Workers : w[p].pc = "request" /\ w'[p].pc = "rotated" /\ by # "admin"
                        => blamed' \subseteq {effectiveDomain}
  <1>1. Inv /\ MirrorInv /\ [Next]_vars => [Kept]_vars
    <2> SUFFICES ASSUME Inv, MirrorInv, Next, NEW p \in Workers,
                        w[p].pc = "request", w'[p].pc = "rotated", by # "admin"
                 PROVE  blamed' \subseteq {effectiveDomain}
      OBVIOUS
    <2>0. TypeOK /\ w \in [Workers -> WorkerStates]
      BY DEF Inv, TypeOK
    <2>1. ReportFailure(p) /\ ~Ignored(p)
      <3>1. ASSUME NEW q \in Workers, NEW rec, w' = [w EXCEPT ![q] = rec] PROVE q = p /\ rec.pc = "rotated"
        BY <2>0, <3>1
      <3>2. ASSUME NEW q \in Workers, Request(q) PROVE FALSE
        BY <3>1, <3>2 DEF Request, Idle
      <3>3. ASSUME NEW q \in Workers, Answered(q) \/ Persist(q) \/ Ignored(q) PROVE FALSE
        BY <3>1, <3>3 DEF Answered, Persist, Ignored, Idle
      <3>4. ASSUME NEW q \in Workers, Reread(q) PROVE FALSE
        BY <3>1, <3>4 DEF Reread, Idle
      <3>5. ASSUME NEW request \in Requests, SetRow(request) PROVE FALSE
        BY <3>5 DEF SetRow
      <3>6. ~SetCache
        BY DEF SetCache
      <3>7. ~Restart
        BY IdleState DEF Restart
      <3>8. ~Tick
        BY <2>0 DEF Tick, WorkerStates
      <3>9. PICK q \in Workers : ReportFailure(q)
        BY <3>2, <3>3, <3>4, <3>5, <3>6, <3>7, <3>8 DEF Next
      <3>10. Count(q) \/ Rotate(q)
        BY <3>3, <3>9 DEF ReportFailure
      <3>11. q = p
        BY <3>1, <3>10 DEF Count, Rotate
      <3> QED BY <3>3, <3>9, <3>11
    <2>2. cooling = 0 /\ blamed' = (IF WindowOver THEN {} ELSE blamed)
                                     \cup (IF w[p].age < Cooldown THEN {w[p].domain} ELSE {})
      BY <2>1 DEF ReportFailure, Count, Rotate
    <2>3. (IF w[p].age < Cooldown THEN {w[p].domain} ELSE {}) \subseteq {effectiveDomain}
      BY <2>0, <2>2, CountedOnActive
    <2> QED BY <2>2, <2>3 DEF MirrorInv
  <1>2. Spec => [](Inv /\ MirrorInv)
    BY InvHolds, MirrorInit, MirrorStep, PTL DEF Spec
  <1>3. Spec => [][Kept]_vars
    BY <1>1, <1>2, PTL DEF Spec
  <1> QED BY <1>3 DEF WorkingMirrorStays
=============================================================================
