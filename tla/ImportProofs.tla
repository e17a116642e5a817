---------------------------- MODULE ImportProofs ----------------------------
(***************************************************************************)
(* What becomes of the grabs, for any history, mirrors, settings, edits,   *)
(* failed calls and crashes: the cursor passes only what was handled, a    *)
(* topic follows the newest grab that was applied to it, and the owner's   *)
(* folder setting is left alone.                                           *)
(***************************************************************************)
EXTENDS Import, FiniteSetTheorems, SequenceTheorems, WellFoundedInduction, TLAPS

Working == {"process", "create", "update"}

Todo == Range(poll.todo)

\* The poll under way and the instance's row agree on the cursor, unless the
\* row was made anew meanwhile; nothing is owed while there is no cursor.
Anchored ==
    /\ inst # None => inst.id < nextId
    /\ poll.inst # None => poll.inst.id < nextId
    /\ inst # None /\ poll.inst # None =>
          inst.cursor = IF inst.id = poll.inst.id THEN poll.inst.cursor ELSE None
    /\ poll.pc # "idle" => (poll.pc = "stamp" <=> poll.inst.cursor = None)
    /\ Cursor = None => owed = {}

\* What is left to do comes after the cursor, the oldest record first.
Window ==
    /\ \A a, b \in 1..Len(poll.todo) : a < b => Newer(poll.todo[b], poll.todo[a])
    /\ poll.pc \in Working => \A x \in Todo : grabs[x].date > poll.inst.cursor
    /\ poll.pc \notin Working => poll.todo = <<>> /\ poll.max = 0

\* The poller handles x in place of k.
Stands(x, k) == grabs[x].url = grabs[k].url /\ ~Newer(k, x)

\* An owed grab of the window is still to come itself or by a newer one of its
\* URL, or was handled and is older than all that is still to come.
Covered ==
    poll.pc \in Working =>
        \A k \in owed : grabs[k].date <= poll.max =>
            \/ \E x \in Todo : Stands(x, k)
            \/ Handled(k) /\ \A x \in Todo : Newer(x, k)

\* A topic to be created is missing, unless its owner was faster.
Creating ==
    poll.pc = "create" =>
        topics[Page] = None \/ topics[Page].source = "user" \/ Page \in torn

Follows(p, k, key) ==
    LET from == topics[p].variant[key]
    IN  \/ from # 0 /\ (from = k \/ Newer(from, k))
        \/ \E j \in Grabs : /\ PageOf[grabs[j].url] = p /\ Newer(j, k)
                            /\ CameToNothing(j) \/ key \notin grabs[j].gives

\* The topic has everything the record at hand came with.
Took(row) == \A key \in grabs[Rec].gives : row.variant[key] = Rec

\* Of the grabs in the window a topic follows the newest that was applied, or
\* a newer one of the page is still to come.
Following ==
    poll.pc \in Working =>
        \A p \in Pages \ torn : topics[p] # None /\ topics[p].source = "sonarr" =>
            \A k \in owed : PageOf[grabs[k].url] = p /\ outcome[k] = "done" /\ grabs[k].date <= poll.max =>
                \A key \in grabs[k].gives :
                    Follows(p, k, key) \/ \E x \in Todo : PageOf[grabs[x].url] = p /\ ~Newer(k, x)

Inv == TypeOK /\ Anchored /\ Window /\ Covered /\ Creating /\ Following /\ PassedIsHandled /\ NewestVariant

----------------------------------------------------------------------------
(* The order of the grabs                                                  *)

GrabType == [url : Urls, date : Nat, gives : SUBSET Keys]

LEMMA GrabsAre ==
  ASSUME TypeOK
  PROVE  /\ Len(grabs) \in Nat /\ Grabs = 1..Len(grabs) /\ Grabs \subseteq Nat
         /\ \A i \in Grabs : grabs[i] \in GrabType /\ grabs[i].date \in Nat
                            /\ PageOf[grabs[i].url] \in Pages /\ grabs[i].gives \subseteq Keys
  <1>1. grabs \in Seq(GrabType)
    BY DEF TypeOK, GrabType
  <1>2. Len(grabs) \in Nat /\ \A i \in 1..Len(grabs) : grabs[i] \in GrabType
    BY <1>1, LenProperties, ElementOfSeq
  <1>3. \A i \in Grabs : grabs[i].date \in Nat /\ grabs[i].url \in Urls /\ grabs[i].gives \subseteq Keys
    BY <1>2 DEF GrabType, Grabs
  <1> QED BY <1>2, <1>3 DEF Grabs, Pages

\* Newer orders the grabs.
LEMMA NewerOrders ==
  ASSUME TypeOK, NEW i \in Grabs, NEW j \in Grabs
  PROVE  /\ ~Newer(i, i)
         /\ i = j \/ Newer(i, j) \/ Newer(j, i)
         /\ ~(Newer(i, j) /\ Newer(j, i))
         /\ \A k \in Grabs : Newer(i, j) /\ Newer(j, k) => Newer(i, k)
         /\ \A k \in Grabs : Newer(i, j) /\ ~Newer(k, j) => Newer(i, k)
         /\ \A k \in Grabs : ~Newer(j, i) /\ Newer(j, k) => Newer(i, k)
         /\ \A k \in Grabs : ~Newer(j, i) /\ ~Newer(k, j) => ~Newer(k, i)
  BY GrabsAre DEF Newer

LEMMA Least == ASSUME NEW S \in SUBSET Nat, S # {} PROVE \E m \in S : \A x \in S : m <= x
  <1>1. PICK m \in S : \A y \in S : ~(<<y, m>> \in OpToRel(<, Nat))
    BY WFMin, NatLessThanWellFounded, Zenon
  <1>2. \A y \in S : ~(y < m)
    BY <1>1 DEF OpToRel
  <1> QED BY <1>2

LEMMA Greatest == ASSUME NEW n \in Nat, NEW S \in SUBSET (0..n), S # {} PROVE \E m \in S : \A x \in S : x <= m
  <1> DEFINE T == {n - x : x \in S}
  <1>1. T \in SUBSET Nat /\ T # {}
    <2>1. \A x \in S : n - x \in Nat
      OBVIOUS
    <2> QED BY <2>1
  <1>2. PICK m \in T : \A y \in T : m <= y
    <2> HIDE DEF T
    <2> QED BY <1>1, Least
  <1>3. PICK x \in S : m = n - x
    OBVIOUS
  <1>4. ASSUME NEW y \in S PROVE y <= x
    <2>1. n - x <= n - y
      BY <1>2, <1>3
    <2> QED BY <2>1
  <1> QED BY <1>4

\* Of any grabs one is the oldest, ...
LEMMA Oldest ==
  ASSUME TypeOK, NEW S \in SUBSET Grabs, S # {}
  PROVE  \E m \in S : \A x \in S : x = m \/ Newer(x, m)
  <1> DEFINE D == {grabs[x].date : x \in S}
  <1>1. D \in SUBSET Nat /\ D # {}
    BY GrabsAre
  <1>2. PICK d \in D : \A e \in D : d <= e
    <2> HIDE DEF D
    <2> QED BY <1>1, Least
  <1> DEFINE F == {x \in S : grabs[x].date = d}
  <1>3. F \in SUBSET Nat /\ F # {}
    BY GrabsAre
  <1>4. PICK m \in F : \A x \in F : m <= x
    <2> HIDE DEF F
    <2> QED BY <1>3, Least
  <1>5. m \in S /\ grabs[m].date = d /\ m \in Nat
    BY <1>3, <1>4
  <1>6. ASSUME NEW x \in S PROVE x = m \/ Newer(x, m)
    <2>1. /\ x \in Nat /\ grabs[x].date \in Nat /\ d \in Nat /\ d <= grabs[x].date
          /\ grabs[x].date = d => m <= x
      BY <1>1, <1>2, <1>4, GrabsAre
    <2> QED BY <1>5, <2>1 DEF Newer
  <1> QED BY <1>5, <1>6

\* ... and one is the newest.
LEMMA Newest ==
  ASSUME TypeOK, NEW S \in SUBSET Grabs, S # {}
  PROVE  \E m \in S : \A x \in S : ~Newer(x, m)
  <1> DEFINE D == {grabs[x].date : x \in S}
  <1>1. D \in SUBSET (0..now) /\ now \in Nat /\ D # {}
    BY GrabsAre DEF TypeOK
  <1>2. PICK d \in D : \A e \in D : e <= d
    <2> HIDE DEF D
    <2> QED BY <1>1, Greatest
  <1> DEFINE F == {x \in S : grabs[x].date = d}
  <1>3. F \in SUBSET (0..Len(grabs)) /\ F # {} /\ Len(grabs) \in Nat
    BY GrabsAre
  <1>4. PICK m \in F : \A x \in F : x <= m
    <2> HIDE DEF F
    <2> QED BY <1>3, Greatest
  <1>5. m \in S /\ grabs[m].date = d /\ m \in Nat
    BY <1>3, <1>4
  <1>6. ASSUME NEW x \in S PROVE ~Newer(x, m)
    <2>1. /\ x \in Nat /\ grabs[x].date \in Nat /\ d \in Nat /\ grabs[x].date <= d
          /\ grabs[x].date = d => x <= m
      BY <1>1, <1>2, <1>4, GrabsAre
    <2> QED BY <1>5, <2>1 DEF Newer
  <1> QED BY <1>5, <1>6

----------------------------------------------------------------------------
(* Sorting                                                                 *)

Sortable(n) ==
    \A S \in SUBSET Grabs :
        IsFiniteSet(S) /\ Cardinality(S) = n
            => \E s \in [1..n -> S] : \A a, b \in 1..n : a < b => Newer(s[b], s[a])

LEMMA AllSortable == ASSUME TypeOK PROVE \A n \in Nat : Sortable(n)
  <1> DEFINE Bad == {n \in Nat : ~Sortable(n)}
  <1> SUFFICES ASSUME Bad # {} PROVE FALSE
    OBVIOUS
  <1>1. PICK n \in Bad : \A m \in Bad : n <= m
    <2>1. Bad \in SUBSET Nat
      OBVIOUS
    <2> HIDE DEF Bad
    <2> QED BY <2>1, Least
  <1>2. n \in Nat /\ ~Sortable(n) /\ \A m \in Nat : m < n => Sortable(m)
    BY <1>1
  <1> HIDE DEF Bad
  <1>3. PICK S \in SUBSET Grabs :
           /\ IsFiniteSet(S) /\ Cardinality(S) = n
           /\ ~\E s \in [1..n -> S] : \A a, b \in 1..n : a < b => Newer(s[b], s[a])
    BY <1>2 DEF Sortable
  <1>4. n # 0
    <2> SUFFICES ASSUME n = 0 PROVE FALSE
      OBVIOUS
    <2> DEFINE s == [a \in 1..n |-> 0]
    <2>1. s \in [1..n -> S] /\ \A a, b \in 1..n : a < b => Newer(s[b], s[a])
      OBVIOUS
    <2> QED BY <1>3, <2>1
  <1>5. S # {}
    BY <1>3, <1>4, FS_EmptySet
  <1>6. PICK m \in S : \A x \in S : x = m \/ Newer(x, m)
    BY <1>5, Oldest
  <1>7. IsFiniteSet(S \ {m}) /\ Cardinality(S \ {m}) = n - 1 /\ S \ {m} \in SUBSET Grabs
    BY <1>3, FS_RemoveElement
  <1>8. n - 1 \in Nat /\ n - 1 < n
    BY <1>2, <1>4
  <1>9. PICK t \in [1..(n - 1) -> S \ {m}] : \A a, b \in 1..(n - 1) : a < b => Newer(t[b], t[a])
    BY <1>2, <1>7, <1>8 DEF Sortable
  <1> DEFINE s == [a \in 1..n |-> IF a = 1 THEN m ELSE t[a - 1]]
  <1>10. \A a \in 1..n : a # 1 => a - 1 \in 1..(n - 1) /\ t[a - 1] \in S \ {m}
    BY <1>2, <1>9
  <1>11. s \in [1..n -> S]
    BY <1>10
  <1>12. ASSUME NEW a \in 1..n, NEW b \in 1..n, a < b PROVE Newer(s[b], s[a])
    <2>1. b # 1 /\ s[b] = t[b - 1] /\ b - 1 \in 1..(n - 1) /\ t[b - 1] \in S \ {m}
      BY <1>2, <1>10, <1>12
    <2>2. CASE a = 1
      <3>1. s[a] = m
        BY <2>2
      <3> HIDE DEF s
      <3> QED BY <1>6, <2>1, <3>1
    <2>3. CASE a # 1
      <3>1. s[a] = t[a - 1] /\ a - 1 \in 1..(n - 1) /\ a - 1 < b - 1
        BY <1>2, <1>10, <1>12, <2>3
      <3> HIDE DEF s
      <3> QED BY <1>9, <2>1, <3>1
    <2> QED BY <2>2, <2>3
  <1> HIDE DEF s
  <1> QED BY <1>3, <1>11, <1>12

\* The sort of the batch keeps every record, the oldest first.
LEMMA OldestFirstIs ==
  ASSUME TypeOK, NEW S \in SUBSET Grabs
  PROVE  /\ OldestFirst(S) \in Seq(Nat) /\ Range(OldestFirst(S)) = S
         /\ \A a, b \in 1..Len(OldestFirst(S)) : a < b => Newer(OldestFirst(S)[b], OldestFirst(S)[a])
  <1> DEFINE n == Cardinality(S)
             P(r) == \A a, b \in DOMAIN r : a < b => Newer(r[b], r[a])
             s == OldestFirst(S)
  <1>0. IsFiniteSet(S) /\ S \subseteq Nat
    <2>1. IsFiniteSet(1..Len(grabs))
      BY GrabsAre, FS_Interval
    <2> QED BY <2>1, GrabsAre, FS_Subset
  <1>1. n \in Nat
    BY <1>0, FS_CardinalityType
  <1>2. \E r \in [1..n -> S] : P(r)
    <2>1. PICK r \in [1..n -> S] : \A a, b \in 1..n : a < b => Newer(r[b], r[a])
      BY <1>0, <1>1, AllSortable DEF Sortable
    <2>2. DOMAIN r = 1..n
      OBVIOUS
    <2> QED BY <2>1, <2>2
  <1>3. s \in [1..n -> S] /\ P(s)
    BY <1>2 DEF OldestFirst
  <1> HIDE DEF n, s
  <1>4. s \in Seq(Nat) /\ Len(s) = n /\ DOMAIN s = 1..n /\ \A a \in 1..n : s[a] \in S
    <2>1. s \in Seq(S)
      BY <1>1, <1>3, SeqDef, Zenon
    <2>2. s \in Seq(Nat)
      BY <1>0, <2>1, SeqMonotonic
    <2> QED BY <1>1, <1>3, <2>1, <2>2, LenProperties
  <1>5. Range(s) = S
    <2>1. \A a, b \in 1..n : s[a] = s[b] => a = b
      <3> SUFFICES ASSUME NEW a \in 1..n, NEW b \in 1..n, s[a] = s[b], a # b PROVE FALSE
        OBVIOUS
      <3>1. a < b \/ b < a
        BY <1>1
      <3>2. Newer(s[b], s[a]) \/ Newer(s[a], s[b])
        BY <1>3, <1>4, <3>1
      <3> QED BY <1>4, <3>2, NewerOrders
    <2>2. s \in Injection(1..n, S)
      BY <1>3, <2>1 DEF Injection, IsInjective
    <2>3. IsFiniteSet(1..n) /\ Cardinality(1..n) = n
      BY <1>1, FS_Interval
    <2>4. s \in Surjection(1..n, S)
      BY <1>0, <2>2, <2>3, FS_Injection DEF n
    <2>5. \A x \in S : \E a \in 1..n : s[a] = x
      BY <2>4 DEF Surjection
    <2> QED BY <1>4, <2>5 DEF Range
  <1> QED BY <1>3, <1>4, <1>5 DEF s

LEMMA LatestStands ==
  ASSUME TypeOK, NEW B \in SUBSET Grabs, NEW k \in B
  PROVE  \E x \in Latest(B) : Stands(x, k)
  <1> DEFINE S == {x \in B : grabs[x].url = grabs[k].url}
  <1>1. S \in SUBSET Grabs /\ S # {} /\ k \in S
    OBVIOUS
  <1>2. PICK m \in S : \A x \in S : ~Newer(x, m)
    <2> HIDE DEF S
    <2> QED BY <1>1, Newest
  <1>3. m \in Latest(B)
    BY <1>2 DEF Latest
  <1> QED BY <1>1, <1>2, <1>3 DEF Stands

----------------------------------------------------------------------------
(* What is left to do                                                      *)

LEMMA Taken ==
  ASSUME TypeOK, poll.todo # <<>>
  PROVE  /\ Rec \in Todo /\ Rec \in Grabs /\ Page \in Pages
         /\ Tail(poll.todo) \in Seq(Nat) /\ Range(Tail(poll.todo)) \subseteq Todo
         /\ Todo = Range(Tail(poll.todo)) \cup {Rec}
         /\ Window => \A x \in Range(Tail(poll.todo)) : Newer(x, Rec)
         /\ Window => \A a, b \in 1..Len(Tail(poll.todo)) :
                          a < b => Newer(Tail(poll.todo)[b], Tail(poll.todo)[a])
  <1> DEFINE s == poll.todo
             t == Tail(s)
  <1>1. s \in Seq(Nat) /\ s # <<>>
    BY DEF TypeOK, PollType
  <1>2. /\ Len(s) \in Nat \ {0} /\ DOMAIN s = 1..Len(s) /\ Head(s) = s[1]
        /\ t \in Seq(Nat) /\ Len(t) = Len(s) - 1 /\ DOMAIN t = 1..Len(t)
        /\ \A a \in 1..Len(t) : t[a] = s[a + 1]
    BY <1>1, LenProperties, EmptySeq, HeadTailProperties
  <1> HIDE DEF s, t
  <1>3. \A a \in 1..Len(t) : a + 1 \in 1..Len(s)
    BY <1>2
  <1>4. Range(t) \subseteq Range(s)
    BY <1>2, <1>3 DEF Range
  <1>5. Rec = s[1] /\ 1 \in 1..Len(s) /\ Todo = Range(s)
    BY <1>2 DEF Rec, Todo, s
  <1>6. Rec \in Todo
    BY <1>2, <1>5 DEF Range
  <1>7. Rec \in Grabs /\ Page \in Pages
    BY <1>6, GrabsAre DEF TypeOK, Todo, Page
  <1>8. Range(s) \subseteq Range(t) \cup {Rec}
    <2> SUFFICES ASSUME NEW a \in 1..Len(s) PROVE s[a] \in Range(t) \cup {Rec}
      BY <1>2 DEF Range
    <2>1. CASE a = 1
      BY <1>5, <2>1
    <2>2. CASE a # 1
      <3>1. a - 1 \in 1..Len(t) /\ t[a - 1] = s[a]
        BY <1>2, <2>2
      <3> QED BY <1>2, <3>1 DEF Range
    <2> QED BY <2>1, <2>2
  <1>9. ASSUME Window, NEW x \in Range(t) PROVE Newer(x, Rec)
    <2>1. PICK a \in 1..Len(t) : x = t[a]
      BY <1>2 DEF Range
    <2>2. x = s[a + 1] /\ a + 1 \in 1..Len(s) /\ 1 < a + 1
      BY <1>2, <1>3, <2>1
    <2> QED BY <1>5, <1>9, <2>2 DEF Window, s
  <1>10. ASSUME Window, NEW a \in 1..Len(t), NEW b \in 1..Len(t), a < b PROVE Newer(t[b], t[a])
    <2>1. a + 1 \in 1..Len(s) /\ b + 1 \in 1..Len(s) /\ a + 1 < b + 1
      BY <1>2, <1>3, <1>10
    <2> QED BY <1>2, <1>10, <2>1 DEF Window, s
  <1> QED BY <1>2, <1>4, <1>5, <1>6, <1>7, <1>8, <1>9, <1>10 DEF s, t

----------------------------------------------------------------------------
(* Types                                                                   *)

LEMMA IdleIs ==
  /\ Idle \in PollType /\ Idle.pc = "idle" /\ Idle.inst = None /\ Idle.seen = None
  /\ Idle.todo = <<>> /\ Idle.max = 0 /\ Range(Idle.todo) = {}
  <1>1. <<>> \in Seq(Nat) /\ Range(<<>>) = {}
    BY DEF Range
  <1> QED BY <1>1 DEF Idle, PollType

LEMMA NoEditIs == NoEdit \notin EditType
  BY NoneAssumption DEF NoEdit, EditType

LEMMA InitType == ASSUME Init PROVE TypeOK
  <1>1. grabs = <<>> /\ outcome = <<>> /\ Len(grabs) = 0 /\ Grabs = {}
    BY DEF Init, Grabs
  <1> QED BY <1>1, IdleIs, ImportAssumption DEF Init, TypeOK

\* The policy of a new topic is one, and so is an edited one.
LEMMA PolicyIs ==
  ASSUME NEW request, request = <<>> \/ request \in Requests, NEW inherited \in Defaults
  PROVE  Policy(request, inherited) \in PolicyType
  <1>1. inherited.replace \in BOOLEAN /\ inherited.delete \in BOOLEAN
    BY ImportAssumption
  <1>2. \A flag \in {"only", "folder", "replace", "delete"} \cap DOMAIN request : request[flag] \in BOOLEAN
    <2>1. CASE request = <<>>
      BY <2>1
    <2>2. CASE request \in Requests
      BY <2>2, ImportAssumption
    <2> QED BY <2>1, <2>2
  <1> QED BY <1>1, <1>2 DEF Policy, PolicyType

LEMMA EditedIs ==
  ASSUME NEW read \in TopicType, NEW request \in Requests
  PROVE  Edited(read, request) \in PolicyType /\ ("folder" \in DOMAIN request => request.folder \in BOOLEAN)
  <1>1. \A flag \in {"only", "folder", "replace", "delete"} \cap DOMAIN request : request[flag] \in BOOLEAN
    BY ImportAssumption
  <1>2. read.policy \in PolicyType
    BY DEF TopicType
  <1> QED BY <1>1, <1>2 DEF Edited, PolicyType

LEMMA NoVariantIs == NoVariant \in [Keys -> Nat]
  BY DEF NoVariant

\* Inserted leaves every other page alone, and a page that has a topic.
LEMMA InsertedIs ==
  ASSUME TypeOK, NEW page \in Pages, NEW policy \in PolicyType, NEW client \in Clients \cup {None},
         NEW source \in {"user", "sonarr"}, NEW variant \in [Keys -> Nat],
         Inserted(page, policy, client, source, variant)
  PROVE  /\ topics' \in [Pages -> TopicType \cup {None}] /\ nextId' \in Nat \ {0} /\ nextId <= nextId'
         /\ \A p \in Pages \ {page} : topics'[p] = topics[p]
         /\ topics[page] # None => topics' = topics
         /\ topics[page] = None => topics'[page] \in TopicType /\ topics'[page].source = source
                                   /\ topics'[page].variant = variant
  <1>1. topics \in [Pages -> TopicType \cup {None}] /\ nextId \in Nat \ {0}
    BY DEF TypeOK
  <1>2. CASE topics[page] # None
    BY <1>1, <1>2 DEF Inserted
  <1>3. CASE topics[page] = None
    <2> DEFINE row == [id |-> nextId, policy |-> policy, client |-> client,
                       source |-> source, variant |-> variant]
    <2>1. topics' = [topics EXCEPT ![page] = row] /\ nextId' = nextId + 1
      BY <1>3 DEF Inserted
    <2>2. row \in TopicType /\ row.source = source /\ row.variant = variant
      BY <1>1 DEF TopicType
    <2> HIDE DEF row
    <2> QED BY <1>1, <1>3, <2>1, <2>2
  <1> QED BY <1>2, <1>3

\* Update leaves every other page alone; a row written from another one than
\* was read is torn.
LEMMA UpdateIs ==
  ASSUME TypeOK, NEW page \in Pages, NEW read \in TopicType, NEW policy \in PolicyType,
         NEW folder \in BOOLEAN \cup {None}, NEW client \in Clients \cup {None}, NEW variant \in [Keys -> Nat],
         topics[page] # None, Update(page, read, policy, folder, client, variant)
  PROVE  /\ topics' \in [Pages -> TopicType \cup {None}] /\ torn' \subseteq Pages /\ torn \subseteq torn'
         /\ \A p \in Pages \ {page} : topics'[p] = topics[p]
         /\ topics'[page] \in TopicType /\ topics'[page].source = read.source
         /\ topics'[page].variant = variant
         /\ folder = None => topics'[page].policy.folder = topics[page].policy.folder
         /\ topics[page] = read \/ page \in torn'
  <1>1. topics \in [Pages -> TopicType \cup {None}] /\ torn \subseteq Pages
    BY DEF TypeOK
  <1> DEFINE old == topics[page]
             kept == IF folder = None THEN old.policy.folder ELSE folder
             row == [old EXCEPT !.policy = [policy EXCEPT !.folder = kept],
                                !.client = client, !.source = read.source, !.variant = variant]
  <1>2. old \in TopicType
    BY <1>1
  <1>3. topics' = [topics EXCEPT ![page] = row]
    BY DEF Update
  <1>4. kept \in BOOLEAN /\ read.source \in {"user", "sonarr"}
    BY <1>2 DEF TopicType, PolicyType
  <1> HIDE DEF kept
  <1>5. [policy EXCEPT !.folder = kept] \in PolicyType /\ [policy EXCEPT !.folder = kept].folder = kept
    BY <1>4 DEF PolicyType
  <1>6. /\ row \in TopicType /\ row.source = read.source /\ row.variant = variant
        /\ row.policy.folder = kept
    BY <1>2, <1>4, <1>5 DEF TopicType
  <1> HIDE DEF row
  <1>7. torn' = IF topics[page] # read THEN torn \cup {page} ELSE torn
    BY DEF Update
  <1> QED BY <1>1, <1>3, <1>6, <1>7 DEF kept

\* A PUT writes the row it read, or tears the page; the variant it wrote is the
\* one it read.
LEMMA EditWriteIs ==
  ASSUME TypeOK, EditWrite
  PROVE  /\ edit \in EditType /\ edit.page \in Pages
         /\ topics' \in [Pages -> TopicType \cup {None}] /\ torn' \subseteq Pages /\ torn \subseteq torn'
         /\ \A p \in Pages : (topics[p] = None <=> topics'[p] = None)
         /\ \A p \in Pages \ torn' : topics[p] # None =>
                topics'[p].source = topics[p].source /\ topics'[p].variant = topics[p].variant
         /\ \A p \in Pages : topics'[p] = topics[p] \/
                (topics'[p].source = edit.seen.source /\ topics'[p].variant = edit.seen.variant)
  <1> DEFINE read == edit.seen
             request == edit.request
             policy == Edited(read, request)
             folder == IF "folder" \in DOMAIN request THEN request.folder ELSE None
             page == edit.page
  <1>1. edit \in EditType /\ page \in Pages /\ read \in TopicType /\ request \in Requests
    BY DEF EditWrite, TypeOK, EditType
  <1>2. policy \in PolicyType /\ folder \in BOOLEAN \cup {None}
    BY <1>1, EditedIs
  <1>3. request.client \in Clients \cup {None} /\ read.variant \in [Keys -> Nat]
    BY <1>1, ImportAssumption DEF TopicType
  <1>4. CASE ValidUpdatePolicy(policy) /\ Found(page, read)
    <2>1. Update(page, read, policy, folder, request.client, read.variant) /\ topics[page] # None
      BY <1>4 DEF EditWrite, Found
    <2> HIDE DEF read, request, policy, folder, page
    <2>2. /\ topics' \in [Pages -> TopicType \cup {None}] /\ torn' \subseteq Pages /\ torn \subseteq torn'
          /\ \A p \in Pages \ {page} : topics'[p] = topics[p]
          /\ topics'[page] \in TopicType /\ topics'[page].source = read.source
          /\ topics'[page].variant = read.variant
          /\ topics[page] = read \/ page \in torn'
      BY <1>1, <1>2, <1>3, <2>1, UpdateIs
    <2>3. topics'[page] # None
      BY <2>2, NoneAssumption
    <2>4. \A p \in Pages : p = page \/ topics'[p] = topics[p]
      BY <2>2
    <2> QED BY <1>1, <2>1, <2>2, <2>3, <2>4 DEF page, read
  <1>5. CASE ~(ValidUpdatePolicy(policy) /\ Found(page, read))
    <2>1. UNCHANGED <<topics, torn>>
      BY <1>5 DEF EditWrite
    <2> QED BY <1>1, <2>1 DEF TypeOK
  <1> QED BY <1>4, <1>5

\* The conjuncts that speak of the grabs, where nothing was grabbed.
LEMMA SameGrabs ==
  ASSUME TypeOK, UNCHANGED <<now, grabs>>
  PROVE  /\ Grabs' = Grabs /\ now' \in Nat \ {0}
         /\ grabs' \in Seq([url : Urls, date : Nat, gives : SUBSET Keys]) /\ Len(grabs') <= MaxGrabs
         /\ \A i \in Grabs' : grabs'[i].date <= now'
         /\ \A i, j \in Grabs : Newer(i, j)' = Newer(i, j)
  BY DEF TypeOK, Grabs, Newer

PollOK ==
    /\ poll \in PollType
    /\ poll.inst = None <=> poll.pc = "idle"
    /\ poll.seen = None <=> poll.pc # "update"
    /\ poll.pc \in {"create", "update"} => poll.todo # <<>>
    /\ Range(poll.todo) \subseteq Grabs

LEMMA IdlePoll == ASSUME poll' = Idle PROVE PollOK'
  BY IdleIs DEF PollOK

LEMMA OwnerType ==
  ASSUME TypeOK,
         \/ \E page \in Pages, request \in Requests : CreateTopic(page, request) \/ EditRead(page, request)
         \/ \E page \in Pages : DeleteTopic(page)
         \/ EditWrite
  PROVE  TypeOK'
  <1>1. CASE \E page \in Pages, request \in Requests : CreateTopic(page, request)
    <2>1. PICK page \in Pages, request \in Requests : CreateTopic(page, request)
      BY <1>1
    <2>2. PICK inherited \in Defaults : Inserted(page, Policy(request, inherited), request.client, "user", NoVariant)
      BY <2>1 DEF CreateTopic
    <2>3. topics' \in [Pages -> TopicType \cup {None}] /\ nextId' \in Nat \ {0}
      <3>1. Policy(request, inherited) \in PolicyType /\ request.client \in Clients \cup {None}
        BY PolicyIs, ImportAssumption
      <3> QED BY <2>2, <3>1, InsertedIs, NoVariantIs
    <2> QED BY <2>1, <2>3, SameGrabs, ImportAssumption DEF CreateTopic, ghost, Operation, TypeOK
  <1>2. CASE \E page \in Pages, request \in Requests : EditRead(page, request)
    <2>1. PICK page \in Pages, request \in Requests : EditRead(page, request)
      BY <1>2
    <2>2. edit' \in EditType
      BY <2>1 DEF EditRead, EditType, TypeOK
    <2> QED BY <2>1, <2>2, SameGrabs, ImportAssumption DEF EditRead, ghost, Operation, TypeOK
  <1>3. CASE \E page \in Pages : DeleteTopic(page)
    <2>1. PICK page \in Pages : DeleteTopic(page)
      BY <1>3
    <2>2. topics' \in [Pages -> TopicType \cup {None}]
      BY <2>1 DEF DeleteTopic, TypeOK
    <2> QED BY <2>1, <2>2, SameGrabs, ImportAssumption DEF DeleteTopic, Operation, TypeOK
  <1>4. CASE EditWrite
    <2>1. edit \in EditType
      BY <1>4 DEF EditWrite, TypeOK
    <2>2. topics' \in [Pages -> TopicType \cup {None}] /\ torn' \subseteq Pages
      BY <1>4, <2>1, EditWriteIs
    <2> QED BY <1>4, <2>2, SameGrabs DEF EditWrite, TypeOK
  <1> QED BY <1>1, <1>2, <1>3, <1>4

LEMMA CreateIs ==
  ASSUME TypeOK, NEW form \in Forms, CreateInstance(form)
  PROVE  inst' \in InstanceType /\ inst'.id = nextId /\ inst'.cursor = None
  <1>1. form \in FormType /\ nextId \in Nat
    BY ImportAssumption DEF TypeOK
  <1> QED BY <1>1 DEF CreateInstance, CreatedRow, InstanceRow, InstanceType, FormType

LEMMA ChangeIs ==
  ASSUME TypeOK, NEW form \in Forms, UpdateInstance(form)
  PROVE  inst' \in InstanceType /\ inst'.id = inst.id /\ inst'.cursor = inst.cursor
  <1>1. inst \in InstanceType
    BY DEF UpdateInstance, TypeOK
  <1>2. form \in FormType
    BY ImportAssumption
  <1> QED BY <1>1, <1>2 DEF UpdateInstance, UpdatedRow, InstanceRow, InstanceType, FormType

LEMMA AdminType ==
  ASSUME TypeOK,
         \/ \E form \in Forms : CreateInstance(form) \/ UpdateInstance(form)
         \/ DeleteInstance
  PROVE  TypeOK'
  <1>1. ASSUME NEW form \in Forms, CreateInstance(form) PROVE TypeOK'
    <2>1. inst' \in InstanceType
      BY <1>1, CreateIs
    <2> QED BY <1>1, <2>1, SameGrabs, ImportAssumption DEF CreateInstance, ghost, Operation, TypeOK
  <1>2. ASSUME NEW form \in Forms, UpdateInstance(form) PROVE TypeOK'
    <2>1. inst' \in InstanceType
      BY <1>2, ChangeIs
    <2> QED BY <1>2, <2>1, SameGrabs, ImportAssumption DEF UpdateInstance, ghost, Operation, TypeOK
  <1>3. CASE DeleteInstance
    BY <1>3, SameGrabs, ImportAssumption DEF DeleteInstance, Operation, TypeOK
  <1> QED BY <1>1, <1>2, <1>3

\* A new grab changes nothing about the others.
LEMMA GrabIs ==
  ASSUME TypeOK, NEW url \in Urls, NEW date \in {now, now + 1}, NEW gives \in Gives[url], Grab(url, date, gives)
  PROVE  /\ Grabs' = Grabs \cup {Len(grabs) + 1} /\ Len(grabs) + 1 \notin Grabs
         /\ \A i \in Grabs : grabs'[i] = grabs[i] /\ outcome'[i] = outcome[i]
         /\ grabs'[Len(grabs) + 1] = [url |-> url, date |-> date, gives |-> gives] /\ outcome'[Len(grabs) + 1] = "none"
         /\ \A i, j \in Grabs : Newer(i, j)' = Newer(i, j)
         /\ TypeOK'
  <1>1. /\ grabs \in Seq(GrabType) /\ outcome \in Seq({"none", "skip", "done", "lost"})
        /\ Len(outcome) = Len(grabs) /\ now \in Nat \ {0} /\ date \in Nat \ {0} /\ now <= date
    BY DEF TypeOK, GrabType
  <1>2. [url |-> url, date |-> date, gives |-> gives] \in GrabType
    BY <1>1, ImportAssumption DEF GrabType
  <1>3. /\ grabs' \in Seq(GrabType) /\ Len(grabs') = Len(grabs) + 1
        /\ \A i \in 1..Len(grabs) : grabs'[i] = grabs[i]
        /\ grabs'[Len(grabs) + 1] = [url |-> url, date |-> date, gives |-> gives]
    BY <1>1, <1>2, AppendProperties DEF Grab
  <1>4. /\ outcome' \in Seq({"none", "skip", "done", "lost"}) /\ Len(outcome') = Len(grabs) + 1
        /\ \A i \in 1..Len(grabs) : outcome'[i] = outcome[i]
        /\ outcome'[Len(grabs) + 1] = "none"
    BY <1>1, AppendProperties DEF Grab
  <1>5. Grabs = 1..Len(grabs) /\ Grabs' = 1..(Len(grabs) + 1) /\ Len(grabs) \in Nat
    BY <1>3, GrabsAre DEF Grabs
  <1>6. Grabs' = Grabs \cup {Len(grabs) + 1} /\ Len(grabs) + 1 \notin Grabs
    BY <1>5
  <1>7. \A i, j \in Grabs : Newer(i, j)' = Newer(i, j)
    BY <1>3, <1>5 DEF Newer
  <1>8. \A i \in Grabs' : grabs'[i].date <= now'
    <2>1. \A i \in Grabs : grabs'[i].date <= date
      BY <1>1, <1>3, <1>5, GrabsAre DEF TypeOK
    <2>2. grabs'[Len(grabs) + 1].date <= date
      BY <1>1, <1>3
    <2> QED BY <1>6, <2>1, <2>2 DEF Grab
  <1>9. Len(grabs') <= MaxGrabs
    BY <1>3, <1>5, ImportAssumption DEF Grab
  <1>10. Range(poll'.todo) \subseteq Grabs' /\ owed' \subseteq Grabs'
    BY <1>6 DEF Grab, TypeOK
  <1>11. TypeOK'
    BY <1>1, <1>3, <1>4, <1>8, <1>9, <1>10 DEF Grab, human, TypeOK, GrabType
  <1> QED BY <1>3, <1>4, <1>5, <1>6, <1>7, <1>11

LEMMA CursorIs ==
  ASSUME TypeOK, poll.inst # None, NEW date \in Nat, UpdateCursor(date)
  PROVE  /\ inst' \in InstanceType \cup {None} /\ (inst' = None <=> inst = None)
         /\ inst # None => /\ inst'.id = inst.id
                           /\ inst'.cursor = IF inst.id = poll.inst.id THEN date ELSE inst.cursor
  <1>1. inst \in InstanceType \cup {None} /\ None \notin InstanceType
    BY NoneAssumption DEF TypeOK
  <1> QED BY <1>1 DEF UpdateCursor, InstanceType

LEMMA MaxIs ==
  ASSUME TypeOK, NEW B \in SUBSET Grabs
  PROVE  LET max == Max({0} \cup {grabs[i].date : i \in B})
         IN  max \in Nat /\ \A i \in B : grabs[i].date <= max
  <1> DEFINE D == {0} \cup {grabs[i].date : i \in B}
  <1>1. D \in SUBSET (0..now) /\ now \in Nat /\ D # {}
    BY GrabsAre DEF TypeOK
  <1>2. \A i \in B : grabs[i].date \in D
    OBVIOUS
  <1> HIDE DEF D
  <1>0. \A x \in D : x \in Nat
    BY <1>1
  <1>3. \E m \in D : \A x \in D : x <= m
    BY <1>1, Greatest
  <1>4. \E m \in D : \A x \in D : m >= x
    BY <1>1, <1>3
  <1>5. Max(D) \in D /\ \A x \in D : Max(D) >= x
    BY <1>4 DEF Max
  <1>6. Max(D) \in Nat
    BY <1>0, <1>5
  <1>7. ASSUME NEW i \in B PROVE grabs[i].date <= Max(D)
    <2>1. grabs[i].date \in D /\ grabs[i].date \in Nat
      BY <1>0, <1>2
    <2> QED BY <1>0, <1>5, <1>6, <2>1
  <1> QED BY <1>6, <1>7 DEF D

\* What a fetch brings.
LEMMA FetchIs ==
  ASSUME TypeOK, Fetch
  PROVE  LET batch == Since(poll.inst.cursor)
         IN  /\ batch \subseteq Grabs
             /\ poll'.pc = "process" /\ poll'.inst = poll.inst /\ poll'.seen = None
             /\ poll'.todo \in Seq(Nat) /\ Range(poll'.todo) = Latest(batch)
             /\ Latest(batch) \subseteq batch
             /\ \A a, b \in 1..Len(poll'.todo) : a < b => Newer(poll'.todo[b], poll'.todo[a])
             /\ poll'.max \in Nat /\ \A i \in batch : grabs[i].date <= poll'.max
             /\ poll' \in PollType
  <1> DEFINE batch == Since(poll.inst.cursor)
             todo == OldestFirst(Latest(batch))
             max == Max({0} \cup {grabs[i].date : i \in batch})
  <1>1. batch \subseteq Grabs /\ Latest(batch) \subseteq batch
    BY DEF Since, Latest
  <1>2. poll \in PollType /\ poll.pc = "fetch" /\ poll.inst # None /\ poll.seen = None
    BY DEF TypeOK, Fetch
  <1>3. poll' = [poll EXCEPT !.pc = "process", !.todo = todo, !.max = max]
    BY DEF Fetch, LatestByURL
  <1>4. todo \in Seq(Nat) /\ Range(todo) = Latest(batch)
        /\ \A a, b \in 1..Len(todo) : a < b => Newer(todo[b], todo[a])
    BY <1>1, OldestFirstIs
  <1>5. max \in Nat /\ \A i \in batch : grabs[i].date <= max
    BY <1>1, MaxIs
  <1> HIDE DEF todo, max
  <1>6. /\ poll'.pc = "process" /\ poll'.inst = poll.inst /\ poll'.seen = None
        /\ poll'.todo = todo /\ poll'.max = max /\ poll' \in PollType
    BY <1>2, <1>3, <1>4, <1>5 DEF PollType
  <1> HIDE DEF batch
  <1>7. /\ batch \subseteq Grabs
        /\ poll'.pc = "process" /\ poll'.inst = poll.inst /\ poll'.seen = None
        /\ poll'.todo \in Seq(Nat) /\ Range(poll'.todo) = Latest(batch)
        /\ Latest(batch) \subseteq batch
        /\ \A a, b \in 1..Len(poll'.todo) : a < b => Newer(poll'.todo[b], poll'.todo[a])
        /\ poll'.max \in Nat /\ \A i \in batch : grabs[i].date <= poll'.max
        /\ poll' \in PollType
    BY <1>1, <1>4, <1>5, <1>6
  <1> QED BY <1>7 DEF batch

\* The record at hand is done with.
LEMMA LeaveIs ==
  ASSUME TypeOK, poll.todo # <<>>, poll.inst # None, NEW result \in {"skip", "done", "lost"}, Leave(result)
  PROVE  /\ outcome' \in Seq({"none", "skip", "done", "lost"}) /\ Len(outcome') = Len(outcome)
         /\ outcome'[Rec] = result /\ \A i \in Grabs \ {Rec} : outcome'[i] = outcome[i]
         /\ poll'.pc = "process" /\ poll'.inst = poll.inst /\ poll'.max = poll.max /\ poll'.seen = None
         /\ poll'.todo = Tail(poll.todo) /\ poll' \in PollType
  <1>1. outcome \in Seq({"none", "skip", "done", "lost"}) /\ Len(outcome) = Len(grabs) /\ poll \in PollType
    BY DEF TypeOK
  <1>2. Rec \in 1..Len(outcome) /\ Tail(poll.todo) \in Seq(Nat) /\ Grabs = 1..Len(outcome)
    BY <1>1, Taken, GrabsAre
  <1>3. /\ outcome' \in Seq({"none", "skip", "done", "lost"}) /\ Len(outcome') = Len(outcome)
        /\ outcome'[Rec] = result /\ \A i \in Grabs \ {Rec} : outcome'[i] = outcome[i]
    BY <1>1, <1>2, ExceptSeq DEF Leave
  <1>4. /\ poll'.pc = "process" /\ poll'.inst = poll.inst /\ poll'.max = poll.max /\ poll'.seen = None
        /\ poll'.todo = Tail(poll.todo) /\ poll' \in PollType
    BY <1>1, <1>2 DEF Leave, PollType
  <1> QED BY <1>3, <1>4

\* Goto keeps the record at hand.
LEMMA GotoIs ==
  ASSUME TypeOK, poll.inst # None, NEW pc \in {"create", "update"}, NEW seen \in TopicType \cup {None},
         Goto(pc, seen)
  PROVE  /\ poll'.pc = pc /\ poll'.inst = poll.inst /\ poll'.max = poll.max /\ poll'.seen = seen
         /\ poll'.todo = poll.todo /\ poll' \in PollType /\ outcome' = outcome
  BY DEF Goto, TypeOK, PollType

LEMMA TickIs ==
  ASSUME TypeOK, Tick
  PROVE  /\ inst \in InstanceType /\ poll'.inst = inst /\ poll'.seen = None /\ poll'.todo = <<>> /\ poll'.max = 0
         /\ poll'.pc = IF inst.cursor = None THEN "stamp" ELSE "fetch"
         /\ poll' \in PollType
  <1>1. inst \in InstanceType /\ poll = Idle
    BY DEF Tick, Running, TypeOK
  <1>2. poll' = [Idle EXCEPT !.pc = IF inst.cursor = None THEN "stamp" ELSE "fetch", !.inst = inst]
    BY DEF Tick
  <1>3. <<>> \in Seq(Nat)
    OBVIOUS
  <1> QED BY <1>1, <1>2, <1>3 DEF Idle, PollType

\* The record at hand is done with: types.
LEMMA LeaveType ==
  ASSUME TypeOK, poll.todo # <<>>, poll.inst # None, NEW result \in {"skip", "done", "lost"}, Leave(result),
         UNCHANGED <<now, grabs, inst, edit, ops, owed>>,
         topics' \in [Pages -> TopicType \cup {None}], nextId' \in Nat \ {0}, torn' \subseteq Pages,
         faults' \in 0..MaxFaults
  PROVE  TypeOK'
  <1>1. /\ outcome' \in Seq({"none", "skip", "done", "lost"}) /\ Len(outcome') = Len(outcome)
        /\ poll'.pc = "process" /\ poll'.inst = poll.inst /\ poll'.seen = None
        /\ poll'.todo = Tail(poll.todo) /\ poll' \in PollType
    BY LeaveIs
  <1>2. Range(poll'.todo) \subseteq Grabs /\ Grabs' = Grabs
    BY <1>1, Taken, SameGrabs DEF TypeOK, Todo
  <1> QED BY <1>1, <1>2, SameGrabs DEF TypeOK

LEMMA FaultsAre == ASSUME TypeOK, NoFault \/ Fault PROVE faults' \in 0..MaxFaults
  BY ImportAssumption DEF TypeOK, NoFault, Fault

LEMMA UnderWay ==
  ASSUME TypeOK
  PROVE  /\ Processing => poll.todo # <<>> /\ poll.inst # None /\ poll.seen = None /\ poll.pc = "process"
         /\ poll.pc = "create" => poll.todo # <<>> /\ poll.inst # None /\ poll.seen = None
         /\ poll.pc = "update" => poll.todo # <<>> /\ poll.inst # None /\ poll.seen \in TopicType
         /\ poll.inst # None => poll.inst \in InstanceType
  BY DEF TypeOK, Processing, PollType

\* The merge takes all that a grab comes with.
LEMMA MergedIs ==
  ASSUME TypeOK, poll.todo # <<>>, NEW variant \in [Keys -> Nat]
  PROVE  /\ Merged(variant, Rec) \in [Keys -> Nat]
         /\ \A key \in grabs[Rec].gives : Merged(variant, Rec)[key] = Rec
         /\ \A key \in Keys : Merged(variant, Rec)[key] \in {variant[key], Rec}
  <1>1. Rec \in Nat /\ grabs[Rec].gives \subseteq Keys
    BY Taken, GrabsAre
  <1> HIDE DEF Rec
  <1> QED BY <1>1 DEF Merged

\* What BuildAndCreate inserts.
LEMMA BuildIs ==
  ASSUME TypeOK, poll.pc = "create", NEW inherited \in Defaults,
         Inserted(Page, Policy(<<>>, inherited), poll.inst.client, "sonarr", Merged(NoVariant, Rec))
  PROVE  /\ topics' \in [Pages -> TopicType \cup {None}] /\ nextId' \in Nat \ {0} /\ nextId <= nextId'
         /\ \A p \in Pages \ {Page} : topics'[p] = topics[p]
         /\ topics[Page] # None => topics' = topics
         /\ topics[Page] = None => topics'[Page] \in TopicType /\ topics'[Page].source = "sonarr"
                                   /\ topics'[Page].variant = Merged(NoVariant, Rec)
  <1>1. Page \in Pages /\ Merged(NoVariant, Rec) \in [Keys -> Nat]
    BY UnderWay, Taken, MergedIs, NoVariantIs
  <1>2. poll.inst.client \in Clients \cup {None}
    BY UnderWay DEF InstanceType
  <1> QED BY <1>1, <1>2, PolicyIs, InsertedIs

\* What HandleExisting writes.
HandledVariant == IF poll.seen.source = "sonarr" THEN Merged(poll.seen.variant, Rec) ELSE poll.seen.variant
HandledClient == IF poll.inst.update THEN poll.inst.client ELSE poll.seen.client

LEMMA HandleIs ==
  ASSUME TypeOK, poll.pc = "update", Found(Page, poll.seen),
         Update(Page, poll.seen, poll.seen.policy, None, HandledClient, HandledVariant)
  PROVE  /\ topics' \in [Pages -> TopicType \cup {None}] /\ torn' \subseteq Pages /\ torn \subseteq torn'
         /\ \A p \in Pages \ {Page} : topics'[p] = topics[p]
         /\ topics'[Page] \in TopicType
         /\ topics'[Page].source = poll.seen.source /\ topics'[Page].variant = HandledVariant
         /\ topics'[Page].source = "user" \/ Took(topics'[Page])
         /\ topics'[Page].policy.folder = topics[Page].policy.folder
  <1>1. Page \in Pages /\ poll.todo # <<>>
    BY UnderWay, Taken
  <1>2. /\ poll.seen \in TopicType /\ poll.seen.policy \in PolicyType /\ poll.seen.variant \in [Keys -> Nat]
        /\ poll.seen.source \in {"user", "sonarr"} /\ topics[Page] # None
    BY UnderWay DEF TopicType, Found
  <1>3. HandledClient \in Clients \cup {None} /\ HandledVariant \in [Keys -> Nat]
    BY <1>1, <1>2, MergedIs, UnderWay DEF InstanceType, TopicType, HandledClient, HandledVariant
  <1>4. poll.seen.source = "user" \/ \A key \in grabs[Rec].gives : HandledVariant[key] = Rec
    BY <1>1, <1>2, MergedIs DEF HandledVariant
  <1> HIDE DEF HandledVariant, HandledClient
  <1>5. /\ topics' \in [Pages -> TopicType \cup {None}] /\ torn' \subseteq Pages /\ torn \subseteq torn'
        /\ \A p \in Pages \ {Page} : topics'[p] = topics[p]
        /\ topics'[Page] \in TopicType
        /\ topics'[Page].source = poll.seen.source /\ topics'[Page].variant = HandledVariant
        /\ topics'[Page].policy.folder = topics[Page].policy.folder
    <2> DEFINE read == poll.seen
               policy == poll.seen.policy
               client == HandledClient
               variant == HandledVariant
               page == Page
    <2>1. /\ page \in Pages /\ read \in TopicType /\ policy \in PolicyType /\ None \in BOOLEAN \cup {None}
          /\ client \in Clients \cup {None} /\ variant \in [Keys -> Nat]
          /\ topics[page] # None /\ Update(page, read, policy, None, client, variant)
      BY <1>1, <1>2, <1>3
    <2> HIDE DEF read, policy, client, variant, page
    <2>2. /\ topics' \in [Pages -> TopicType \cup {None}] /\ torn' \subseteq Pages /\ torn \subseteq torn'
          /\ \A p \in Pages \ {page} : topics'[p] = topics[p]
          /\ topics'[page] \in TopicType
          /\ topics'[page].source = read.source /\ topics'[page].variant = variant
          /\ topics'[page].policy.folder = topics[page].policy.folder
      BY <2>1, UpdateIs
    <2> QED BY <2>2 DEF read, variant, page
  <1>6. topics'[Page].source = "user" \/ Took(topics'[Page])
    BY <1>4, <1>5, Zenon DEF Took
  <1> QED BY <1>5, <1>6

LEMMA WindowType ==
  ASSUME TypeOK, Tick \/ Stamp \/ Fetch \/ FetchFails \/ Advance \/ Crash
  PROVE  TypeOK'
  <1>1. CASE Tick
    <2>1. PollOK'
      <3>1. Range(<<>>) = {}
        BY DEF Range
      <3> QED BY <1>1, <3>1, TickIs, NoneAssumption DEF PollOK
    <2> QED BY <1>1, <2>1, SameGrabs DEF Tick, human, ghost, TypeOK, PollOK
  <1>2. CASE Stamp
    <2>1. inst' \in InstanceType \cup {None}
      BY <1>2, CursorIs DEF Stamp, TypeOK
    <2> QED BY <1>2, <2>1, SameGrabs, IdlePoll, FaultsAre DEF Stamp, human, ghost, TypeOK, PollOK
  <1>3. CASE Fetch
    <2>1. PollOK'
      <3>1. poll.inst # None
        BY <1>3 DEF Fetch, TypeOK
      <3>2. Grabs' = Grabs
        BY <1>3, SameGrabs DEF Fetch
      <3> QED BY <1>3, <3>1, <3>2, FetchIs DEF PollOK
    <2> QED BY <1>3, <2>1, SameGrabs DEF Fetch, human, ghost, TypeOK, PollOK
  <1>4. CASE FetchFails
    BY <1>4, SameGrabs, IdlePoll, FaultsAre DEF FetchFails, human, ghost, TypeOK, PollOK
  <1>5. CASE Advance
    <2>1. inst' \in InstanceType \cup {None} /\ faults' \in 0..MaxFaults
      <3>1. poll.inst # None /\ poll.max \in Nat
        BY <1>5 DEF Advance, TypeOK, PollType
      <3> QED BY <1>5, <3>1, CursorIs, FaultsAre DEF Advance, TypeOK
    <2> QED BY <1>5, <2>1, SameGrabs, IdlePoll DEF Advance, human, ghost, TypeOK, PollOK
  <1>6. CASE Crash
    BY <1>6, SameGrabs, IdlePoll, FaultsAre DEF Crash, ghost, TypeOK, PollOK
  <1> QED BY <1>1, <1>2, <1>3, <1>4, <1>5, <1>6

LEMMA RecordType ==
  ASSUME TypeOK, Skip \/ Lookup \/ BuildAndCreate \/ HandleExisting
  PROVE  TypeOK'
  <1> USE UnderWay
  <1>1. CASE Skip
    BY <1>1, LeaveType DEF Skip, human, TypeOK
  <1>2. CASE Lookup
    <2> DEFINE topic == topics[Page]
    <2>1. faults' \in 0..MaxFaults /\ poll.todo # <<>> /\ poll.inst # None
      BY <1>2, FaultsAre DEF Lookup
    <2>2. ASSUME NEW result \in {"skip", "done", "lost"}, Leave(result) PROVE TypeOK'
      BY <1>2, <2>1, <2>2, LeaveType DEF Lookup, human, TypeOK
    <2>3. topic \in TopicType \cup {None}
      BY <2>1, Taken DEF TypeOK
    <2>4. ASSUME topic = None, Goto("create", None) PROVE TypeOK'
      <3>1. PollOK'
        <4>1. Grabs' = Grabs
          BY <1>2, SameGrabs DEF Lookup
        <4> QED BY <2>1, <2>4, <4>1, GotoIs, NoneAssumption DEF PollOK, TypeOK
      <3> QED BY <1>2, <2>1, <2>4, <3>1, SameGrabs, GotoIs DEF Lookup, human, TypeOK, PollOK
    <2>5. ASSUME topic # None, Goto("update", topic) PROVE TypeOK'
      <3>1. PollOK'
        <4>1. Grabs' = Grabs
          BY <1>2, SameGrabs DEF Lookup
        <4>2. topic \in TopicType /\ topic # None
          BY <2>3, <2>5
        <4> QED BY <2>1, <2>3, <2>5, <4>1, <4>2, GotoIs, NoneAssumption DEF PollOK, TypeOK
      <3> QED BY <1>2, <2>1, <2>3, <2>5, <3>1, SameGrabs, GotoIs DEF Lookup, human, TypeOK, PollOK
    <2> QED BY <1>2, <2>2, <2>4, <2>5 DEF Lookup
  <1>3. CASE BuildAndCreate
    <2>1. faults' \in 0..MaxFaults /\ poll.pc = "create" /\ poll.todo # <<>> /\ poll.inst # None
      BY <1>3, FaultsAre DEF BuildAndCreate
    <2>2. topics' \in [Pages -> TopicType \cup {None}] /\ nextId' \in Nat \ {0}
      BY <1>3, <2>1, BuildIs DEF BuildAndCreate, TypeOK
    <2>3. \E result \in {"skip", "done", "lost"} : Leave(result)
      BY <1>3 DEF BuildAndCreate
    <2> QED BY <1>3, <2>1, <2>2, <2>3, LeaveType DEF BuildAndCreate, human, TypeOK
  <1>4. CASE HandleExisting
    <2>1. faults' \in 0..MaxFaults /\ poll.pc = "update" /\ poll.todo # <<>> /\ poll.inst # None
      BY <1>4, FaultsAre DEF HandleExisting
    <2>2. topics' \in [Pages -> TopicType \cup {None}] /\ torn' \subseteq Pages
      BY <1>4, <2>1, HandleIs DEF HandleExisting, TypeOK, HandledVariant, HandledClient
    <2>3. \E result \in {"skip", "done", "lost"} : Leave(result)
      BY <1>4 DEF HandleExisting
    <2> QED BY <1>4, <2>1, <2>2, <2>3, LeaveType DEF HandleExisting, human, TypeOK
  <1> QED BY <1>1, <1>2, <1>3, <1>4

LEMMA NextType == ASSUME TypeOK, [Next]_vars PROVE TypeOK'
  <1>1. CASE UNCHANGED vars
    BY <1>1, SameGrabs DEF vars, human, ghost, TypeOK
  <1>2. ASSUME NEW url \in Urls, NEW date \in {now, now + 1}, NEW gives \in Gives[url], Grab(url, date, gives) PROVE TypeOK'
    BY <1>2, GrabIs
  <1> QED BY <1>1, <1>2, OwnerType, AdminType, WindowType, RecordType DEF Next, PollSteps

\* The types of the variables.
THEOREM TypeCorrect == Spec => []TypeOK
  BY InitType, NextType, PTL DEF Spec

----------------------------------------------------------------------------
(* The owner and the administrator                                         *)

Open(p) == topics[p] = None \/ topics[p].source = "user" \/ p \in torn

LEMMA AnchoredStays ==
  ASSUME TypeOK, Anchored, nextId' \in Nat, nextId <= nextId', UNCHANGED <<inst, owed>>, poll'.inst = poll.inst,
         poll'.pc # "idle" => poll.pc # "idle" /\ (poll'.pc = "stamp" <=> poll.pc = "stamp")
  PROVE  Anchored'
  <1>1. /\ inst # None => inst.id \in Nat
        /\ poll.inst # None => poll.inst.id \in Nat
        /\ nextId \in Nat
    BY DEF TypeOK, PollType, InstanceType
  <1> QED BY <1>1 DEF Anchored, Cursor

\* A page the invariants say nothing about stays one, and of any other the
\* source and the variant stay.
LEMMA OnlyTopics ==
  ASSUME Inv, TypeOK', Anchored', UNCHANGED <<now, grabs, poll, owed, outcome>>, Cursor' = Cursor,
         \A p \in Pages : Open(p) => Open(p)',
         \A p \in Pages : ~Open(p) =>
             Open(p)' \/ (topics'[p].source = topics[p].source /\ topics'[p].variant = topics[p].variant)
  PROVE  Inv'
  <1>1. TypeOK /\ Grabs' = Grabs /\ \A i, j \in Grabs : Newer(i, j)' = Newer(i, j)
    BY SameGrabs DEF Inv
  <1>2. Todo' = Todo /\ \A i \in Grabs : Passed(i)' = Passed(i)
    BY DEF Todo, Passed
  <1>3. \A i \in Grabs : Handled(i)' = Handled(i) /\ CameToNothing(i)' = CameToNothing(i)
    BY <1>1 DEF Handled, CameToNothing
  <1>4. owed \subseteq Grabs /\ Todo \subseteq Grabs 
    BY <1>1 DEF TypeOK, Todo
  <1>6. Window'
    <2>1. \A a \in 1..Len(poll.todo) : poll.todo[a] \in Grabs
      BY <1>1 DEF TypeOK, PollType, Range
    <2> QED BY <1>1, <1>2, <2>1 DEF Inv, Window
  <1>7. Covered'
    <2>1. \A x, k \in Grabs : Stands(x, k)' = Stands(x, k)
      BY <1>1 DEF Stands
    <2> QED BY <1>1, <1>2, <1>3, <1>4, <2>1 DEF Inv, Covered
  <1>8. Creating'
    <2> SUFFICES ASSUME poll.pc = "create" PROVE Open(Page)'
      BY DEF Creating, Open, Page, Rec
    <2>1. Page \in Pages /\ Page' = Page
      BY <1>1, UnderWay, Taken DEF Page, Rec
    <2>2. Open(Page)
      BY DEF Inv, Creating, Open
    <2> QED BY <2>1, <2>2
  <1>9. PassedIsHandled'
    BY <1>2, <1>3, <1>4 DEF Inv, PassedIsHandled
  <1>10. ASSUME NEW p \in Pages, ~Open(p)'
         PROVE  /\ p \in Pages \ torn /\ topics[p] # None /\ topics[p].source = "sonarr"
                /\ topics'[p].variant = topics[p].variant /\ topics[p].variant \in [Keys -> Nat]
    <2>1. ~Open(p) /\ topics'[p].variant = topics[p].variant
      BY <1>10
    <2> QED BY <1>1, <2>1 DEF TypeOK, TopicType, Open
  <1>11. \A v \in Nat, i \in Grabs : Newer(v, i)' = Newer(v, i)
    BY DEF Newer
  <1>12. Following'
    <2> SUFFICES ASSUME poll.pc \in Working, NEW p \in Pages, ~Open(p)', NEW k \in owed,
                        PageOf[grabs[k].url] = p, outcome[k] = "done", grabs[k].date <= poll.max,
                        NEW key \in grabs[k].gives
                 PROVE  Follows(p, k, key)' \/ \E x \in Todo : PageOf[grabs[x].url] = p /\ ~Newer(k, x)
      BY <1>1, <1>2, <1>4 DEF Following, Open
    <2>1. Follows(p, k, key) \/ \E x \in Todo : PageOf[grabs[x].url] = p /\ ~Newer(k, x)
      BY <1>10 DEF Inv, Following
    <2>2. topics[p].variant[key] \in Nat
      BY <1>1, <1>4, <1>10, GrabsAre
    <2> QED BY <1>1, <1>3, <1>4, <1>10, <1>11, <2>1, <2>2 DEF Follows
  <1>13. NewestVariant'
    <2> SUFFICES ASSUME NEW p \in Pages, ~Open(p)', NEW k \in owed,
                        PageOf[grabs[k].url] = p, outcome[k] = "done", Passed(k),
                        NEW key \in grabs[k].gives
                 PROVE  Follows(p, k, key)'
      BY <1>2, <1>4 DEF NewestVariant, Open, Follows
    <2>1. Follows(p, k, key)
      BY <1>10 DEF Inv, NewestVariant, Follows
    <2>2. topics[p].variant[key] \in Nat
      BY <1>1, <1>4, <1>10, GrabsAre
    <2> QED BY <1>1, <1>3, <1>4, <1>10, <1>11, <2>1, <2>2 DEF Follows
  <1> QED BY <1>6, <1>7, <1>8, <1>9, <1>12, <1>13 DEF Inv

LEMMA OwnerInv ==
  ASSUME Inv, TypeOK',
         \/ \E page \in Pages, request \in Requests : CreateTopic(page, request) \/ EditRead(page, request)
         \/ \E page \in Pages : DeleteTopic(page)
         \/ EditWrite
  PROVE  Inv'
  <1>0. TypeOK /\ Anchored /\ nextId \in Nat /\ nextId' \in Nat
    BY DEF Inv, TypeOK
  <1>1. ASSUME NEW page \in Pages, NEW request \in Requests, CreateTopic(page, request) PROVE Inv'
    <2>1. PICK inherited \in Defaults : Inserted(page, Policy(request, inherited), request.client, "user", NoVariant)
      BY <1>1 DEF CreateTopic
    <2>2. Policy(request, inherited) \in PolicyType /\ request.client \in Clients \cup {None}
      BY PolicyIs, ImportAssumption
    <2>3. /\ nextId <= nextId' /\ \A p \in Pages \ {page} : topics'[p] = topics[p]
          /\ topics[page] # None => topics' = topics
          /\ topics[page] = None => topics'[page].source = "user"
      BY <1>0, <2>1, <2>2, InsertedIs, NoVariantIs
    <2>4. UNCHANGED <<now, grabs, inst, poll, owed, outcome, torn>>
      BY <1>1 DEF CreateTopic, ghost
    <2>5. Anchored' /\ Cursor' = Cursor
      BY <1>0, <2>3, <2>4, AnchoredStays DEF Cursor
    <2>6. ASSUME NEW p \in Pages PROVE topics'[p] = topics[p] \/ (topics[p] = None /\ Open(p)')
      <3>1. CASE p = page
        BY <2>3, <3>1 DEF Open
      <3>2. CASE p # page
        BY <2>3, <3>2
      <3> QED BY <3>1, <3>2
    <2> QED BY <2>4, <2>5, <2>6, OnlyTopics DEF Open
  <1>2. ASSUME NEW page \in Pages, NEW request \in Requests, EditRead(page, request) PROVE Inv'
    <2>1. UNCHANGED <<now, grabs, inst, topics, nextId, poll, owed, outcome, torn>>
      BY <1>2 DEF EditRead, ghost
    <2>2. Anchored' /\ Cursor' = Cursor
      BY <1>0, <2>1, AnchoredStays DEF Cursor
    <2> QED BY <2>1, <2>2, OnlyTopics DEF Open
  <1>3. ASSUME NEW page \in Pages, DeleteTopic(page) PROVE Inv'
    <2>1. /\ UNCHANGED <<now, grabs, inst, nextId, poll, owed, outcome>>
          /\ topics' = [topics EXCEPT ![page] = None] /\ torn' = torn \ {page}
      BY <1>3 DEF DeleteTopic
    <2>2. Anchored' /\ Cursor' = Cursor
      BY <1>0, <2>1, AnchoredStays DEF Cursor
    <2>3. topics'[page] = None /\ \A p \in Pages \ {page} : topics'[p] = topics[p]
      BY <1>0, <2>1 DEF TypeOK
    <2>4. \A p \in Pages \ {page} : (p \in torn' <=> p \in torn)
      BY <2>1
    <2> QED BY <2>1, <2>2, <2>3, <2>4, OnlyTopics DEF Open
  <1>4. CASE EditWrite
    <2>1. UNCHANGED <<now, grabs, inst, nextId, poll, owed, outcome>>
      BY <1>4 DEF EditWrite
    <2>2. Anchored' /\ Cursor' = Cursor
      BY <1>0, <2>1, AnchoredStays DEF Cursor
    <2>3. /\ torn \subseteq torn' /\ \A p \in Pages : (topics[p] = None <=> topics'[p] = None)
          /\ \A p \in Pages \ torn' : topics[p] # None =>
                 topics'[p].source = topics[p].source /\ topics'[p].variant = topics[p].variant
      BY <1>0, <1>4, EditWriteIs
    <2> QED BY <2>1, <2>2, <2>3, OnlyTopics DEF Open
  <1> QED BY <1>1, <1>2, <1>3, <1>4

LEMMA NothingOwed ==
  ASSUME TypeOK', owed' = {}
  PROVE  Covered' /\ Following' /\ PassedIsHandled' /\ NewestVariant'
  BY DEF Covered, Following, PassedIsHandled, NewestVariant

LEMMA AdminInv ==
  ASSUME Inv, TypeOK',
         \/ \E form \in Forms : CreateInstance(form) \/ UpdateInstance(form)
         \/ DeleteInstance
  PROVE  Inv'
  <1>0. TypeOK /\ Anchored /\ Window /\ nextId \in Nat
        /\ (inst # None => inst.id \in Nat) /\ (poll.inst # None => poll.inst.id \in Nat)
        /\ None \notin InstanceType
    BY NoneAssumption DEF Inv, TypeOK, PollType, InstanceType
  <1>1. ASSUME UNCHANGED <<now, grabs, topics, poll, torn>> PROVE Creating' /\ Window'
    <2>1. /\ \A a \in 1..Len(poll.todo) : poll.todo[a] \in Grabs
          /\ \A i, j \in Grabs : Newer(i, j)' = Newer(i, j)
      BY <1>0, <1>1, SameGrabs DEF TypeOK, PollType, Range
    <2> QED BY <1>0, <1>1, <2>1 DEF Inv, Creating, Window, Page, Rec, Todo
  <1>2. ASSUME NEW form \in Forms, CreateInstance(form) PROVE Inv'
    <2>1. UNCHANGED <<now, grabs, topics, poll, owed, outcome, torn>> /\ nextId' = nextId + 1 /\ inst = None
      BY <1>2 DEF CreateInstance, ghost
    <2>2. inst' \in InstanceType /\ inst'.id = nextId /\ inst'.cursor = None
      BY <1>0, <1>2, CreateIs
    <2>3. owed' = {}
      BY <1>0, <2>1 DEF Anchored, Cursor
    <2>4. Anchored'
      BY <1>0, <2>1, <2>2, <2>3 DEF Anchored, Cursor
    <2> QED BY <1>1, <2>1, <2>3, <2>4, NothingOwed DEF Inv
  <1>3. ASSUME NEW form \in Forms, UpdateInstance(form) PROVE Inv'
    <2>1. UNCHANGED <<now, grabs, topics, nextId, poll, owed, outcome, torn>> /\ inst # None
      BY <1>3 DEF UpdateInstance, ghost
    <2>2. inst' \in InstanceType /\ inst'.id = inst.id /\ inst'.cursor = inst.cursor
      BY <1>0, <1>3, ChangeIs
    <2>3. Anchored' /\ Cursor' = Cursor
      BY <1>0, <2>1, <2>2 DEF Anchored, Cursor
    <2> QED BY <2>1, <2>3, OnlyTopics DEF Open
  <1>4. CASE DeleteInstance
    <2>1. UNCHANGED <<now, grabs, topics, nextId, poll, torn>> /\ inst' = None /\ owed' = {}
      BY <1>4 DEF DeleteInstance
    <2>2. Anchored'
      BY <1>0, <2>1 DEF Anchored
    <2> QED BY <1>1, <2>1, <2>2, NothingOwed DEF Inv
  <1> QED BY <1>2, <1>3, <1>4

----------------------------------------------------------------------------
(* The grab a topic follows was made                                       *)

Told(row, ids) == row # None /\ row.source = "sonarr" => \A key \in Keys : row.variant[key] \in ids \cup {0}

Known ==
    /\ \A p \in Pages : Told(topics[p], Grabs)
    /\ edit # NoEdit => Told(edit.seen, Grabs)
    /\ poll.pc = "update" => Told(poll.seen, Grabs)

LEMMA KnownKept ==
  ASSUME Known, Grabs \subseteq Grabs', \A p \in Pages : Told(topics'[p], Grabs),
         edit' = edit \/ edit' = NoEdit \/ Told(edit'.seen, Grabs),
         poll' = poll \/ poll'.pc # "update" \/ Told(poll'.seen, Grabs)
  PROVE  Known'
  <1>1. \A row : Told(row, Grabs) => Told(row, Grabs')
    BY DEF Told
  <1>2. edit' # NoEdit => Told(edit'.seen, Grabs)
    BY DEF Known, NoEdit
  <1> QED BY <1>1, <1>2 DEF Known, NoEdit

LEMMA InitKnown == ASSUME Init PROVE Known
  BY DEF Init, Known, Told, Idle

LEMMA NextKnown == ASSUME TypeOK, Known, [Next]_vars PROVE Known'
  <1> USE UnderWay
  <1>0. ASSUME UNCHANGED grabs PROVE Grabs' = Grabs
    BY <1>0 DEF Grabs
  <1>1. ASSUME NEW url \in Urls, NEW date \in {now, now + 1}, NEW gives \in Gives[url], Grab(url, date, gives) PROVE Known'
    BY <1>1, GrabIs, KnownKept DEF Grab, human, Known
  <1>2. ASSUME NEW page \in Pages, NEW request \in Requests, CreateTopic(page, request) PROVE Known'
    <2>1. PICK inherited \in Defaults : Inserted(page, Policy(request, inherited), request.client, "user", NoVariant)
      BY <1>2 DEF CreateTopic
    <2>2. Policy(request, inherited) \in PolicyType /\ request.client \in Clients \cup {None}
      BY PolicyIs, ImportAssumption
    <2>3. \A p \in Pages : Told(topics'[p], Grabs)
      BY <2>1, <2>2, InsertedIs, NoVariantIs DEF Known, Told
    <2> QED BY <1>0, <1>2, <2>3, KnownKept DEF CreateTopic
  <1>3. ASSUME NEW page \in Pages, NEW request \in Requests, EditRead(page, request) PROVE Known'
    <2>1. edit'.seen = topics[page]
      BY <1>3 DEF EditRead
    <2> QED BY <1>0, <1>3, <2>1, KnownKept DEF EditRead, Known
  <1>4. ASSUME NEW page \in Pages, DeleteTopic(page) PROVE Known'
    <2>1. \A p \in Pages : topics'[p] = topics[p] \/ topics'[p] = None
      BY <1>4 DEF DeleteTopic, TypeOK
    <2>2. \A p \in Pages : Told(topics'[p], Grabs)
      BY <2>1 DEF Known, Told
    <2> QED BY <1>0, <1>4, <2>2, KnownKept DEF DeleteTopic
  <1>5. CASE EditWrite
    <2>1. edit.seen # None /\ edit # NoEdit
      BY <1>5, EditWriteIs, NoneAssumption DEF EditWrite, EditType
    <2>2. \A p \in Pages : Told(topics'[p], Grabs)
      BY <1>5, <2>1, EditWriteIs DEF Known, Told
    <2> QED BY <1>0, <1>5, <2>2, KnownKept DEF EditWrite
  <1>6. CASE Lookup
    <2>1. poll'.pc # "update" \/ Told(poll'.seen, Grabs)
      <3>1. ASSUME NEW result \in {"skip", "done", "lost"}, Leave(result) PROVE poll'.pc # "update"
        BY <1>6, <3>1, LeaveIs DEF Lookup
      <3>2. Page \in Pages /\ topics[Page] \in TopicType \cup {None}
        BY <1>6, Taken DEF Lookup, TypeOK
      <3>3. ASSUME NEW pc \in {"create", "update"}, NEW seen \in TopicType \cup {None}, Goto(pc, seen)
            PROVE  poll'.pc = pc /\ poll'.seen = seen
        BY <1>6, <3>3, GotoIs DEF Lookup
      <3> QED BY <1>6, <3>1, <3>2, <3>3 DEF Lookup, Known
    <2> QED BY <1>0, <1>6, <2>1, KnownKept DEF Lookup, human, Known
  <1>7. CASE BuildAndCreate
    <2>1. poll'.pc # "update" /\ Rec \in Grabs /\ Page \in Pages
      BY <1>7, LeaveIs, Taken DEF BuildAndCreate
    <2>2. \A p \in Pages : Told(topics'[p], Grabs)
      BY <1>7, <2>1, BuildIs, MergedIs, NoVariantIs DEF BuildAndCreate, Known, Told, NoVariant
    <2> QED BY <1>0, <1>7, <2>1, <2>2, KnownKept DEF BuildAndCreate, human
  <1>8. CASE HandleExisting
    <2>1. poll'.pc # "update" /\ Rec \in Grabs /\ Page \in Pages
      BY <1>8, LeaveIs, Taken DEF HandleExisting
    <2>2. poll.seen # None /\ (poll.seen.source = "sonarr" => \A key \in Keys : HandledVariant[key] \in Grabs \cup {0})
      <3>1. poll.seen \in TopicType /\ poll.todo # <<>> /\ Told(poll.seen, Grabs)
        BY <1>8 DEF HandleExisting, Known
      <3>2. poll.seen.variant \in [Keys -> Nat] /\ poll.seen # None
        BY <3>1, NoneAssumption DEF TopicType
      <3> QED BY <2>1, <3>1, <3>2, MergedIs DEF Told, HandledVariant
    <2>3. \A p \in Pages : Told(topics'[p], Grabs)
      <3>1. CASE UNCHANGED topics
        BY <3>1 DEF Known
      <3>2. CASE Found(Page, poll.seen) /\ Update(Page, poll.seen, poll.seen.policy, None, HandledClient, HandledVariant)
        <4>1. topics'[Page].source = poll.seen.source /\ topics'[Page].variant = HandledVariant
              /\ \A p \in Pages \ {Page} : topics'[p] = topics[p]
          BY <1>8, <3>2, HandleIs DEF HandleExisting
        <4> QED BY <2>2, <4>1 DEF Known, Told
      <3> QED BY <1>8, <3>1, <3>2 DEF HandleExisting, HandledVariant, HandledClient
    <2> QED BY <1>0, <1>8, <2>1, <2>3, KnownKept DEF HandleExisting, human
  <1>9. CASE Skip
    BY <1>0, <1>9, LeaveIs, KnownKept DEF Skip, human, Known
  <1>10. CASE Tick
    BY <1>0, <1>10, TickIs, KnownKept DEF Tick, human, Known
  <1>11. CASE Fetch
    BY <1>0, <1>11, FetchIs, KnownKept DEF Fetch, human, Known
  <1>12. CASE Stamp \/ FetchFails \/ Advance \/ Crash
    BY <1>0, <1>12, IdleIs, KnownKept DEF Stamp, FetchFails, Advance, Crash, human, Known
  <1>13. CASE \E form \in Forms : CreateInstance(form) \/ UpdateInstance(form)
    BY <1>0, <1>13, KnownKept DEF CreateInstance, UpdateInstance, Known
  <1>14. CASE DeleteInstance
    BY <1>0, <1>14, KnownKept DEF DeleteInstance, Known
  <1>15. CASE UNCHANGED vars
    BY <1>0, <1>15, KnownKept DEF vars, human, Known
  <1> QED BY <1>1, <1>2, <1>3, <1>4, <1>5, <1>6, <1>7, <1>8, <1>9, <1>10, <1>11, <1>12, <1>13, <1>14, <1>15
          DEF Next, PollSteps

----------------------------------------------------------------------------
(* A grab                                                                  *)

LEMMA GrabInv ==
  ASSUME Inv, Known, NEW url \in Urls, NEW date \in {now, now + 1}, NEW gives \in Gives[url], Grab(url, date, gives)
  PROVE  Inv'
  <1> DEFINE n == Len(grabs) + 1
  <1>1. /\ TypeOK /\ TypeOK' /\ UNCHANGED <<inst, topics, nextId, poll, edit, torn>>
        /\ Cursor' = Cursor /\ Todo' = Todo
    BY GrabIs DEF Inv, Grab, human, Cursor, Todo
  <1>2. /\ Grabs' = Grabs \cup {n} /\ n \notin Grabs
        /\ \A i \in Grabs : grabs'[i] = grabs[i] /\ outcome'[i] = outcome[i]
        /\ grabs'[n].date = date /\ date \in Nat
        /\ \A i, j \in Grabs : Newer(i, j)' = Newer(i, j)
    <2>1. date \in Nat
      BY <1>1 DEF TypeOK
    <2>2. grabs'[n] = [url |-> url, date |-> date, gives |-> gives]
      BY <1>1, GrabIs
    <2>3. grabs'[n].date = date
      BY <2>2
    <2>4. /\ Grabs' = Grabs \cup {n} /\ n \notin Grabs
          /\ \A i \in Grabs : grabs'[i] = grabs[i] /\ outcome'[i] = outcome[i]
      BY <1>1, GrabIs
    <2>5. \A i, j \in Grabs : Newer(i, j)' = Newer(i, j)
      BY <1>1, GrabIs, Zenon
    <2> QED BY <2>1, <2>3, <2>4, <2>5
  <1> HIDE DEF n
  <1>3. /\ owed \subseteq Grabs /\ Todo \subseteq Grabs /\ poll.max \in Nat
        /\ Cursor \in Nat \cup {None}
    BY <1>1 DEF TypeOK, Todo, PollType, Cursor, InstanceType
  <1>4. \A k \in owed' : k \in owed \/ (k = n /\ Cursor # None /\ date > poll.max /\ date > Cursor)
    <2> SUFFICES ASSUME NEW k \in owed', k \notin owed
                 PROVE  k = n /\ Cursor # None /\ date > poll.max /\ date > Cursor
      OBVIOUS
    <2>1. k = n /\ Cursor # None /\ date > Horizon
      BY DEF Grab, n
    <2> QED BY <1>2, <1>3, <2>1 DEF Horizon
  <1>5. \A i \in Grabs : /\ Handled(i) => Handled(i)'
                         /\ CameToNothing(i) => CameToNothing(i)'
                         /\ Passed(i)' = Passed(i)
    BY <1>1, <1>2 DEF Handled, CameToNothing, Passed
  <1>6. Anchored'
    <2>1. Cursor = None => owed' = owed
      BY DEF Grab
    <2> QED BY <1>1, <2>1 DEF Inv, Anchored
  <1>7. Window'
    <2>1. \A a \in 1..Len(poll.todo) : poll.todo[a] \in Grabs
      BY <1>1 DEF TypeOK, PollType, Range
    <2> QED BY <1>1, <1>2, <1>3, <2>1 DEF Inv, Window
  <1>8. Covered'
    <2> SUFFICES ASSUME poll.pc \in Working, NEW k \in owed', grabs'[k].date <= poll.max
                 PROVE  \/ \E x \in Todo : Stands(x, k)'
                        \/ Handled(k)' /\ \A x \in Todo : Newer(x, k)'
      BY <1>1 DEF Covered
    <2>1. k \in owed
      BY <1>2, <1>3, <1>4
    <2>2. \/ \E x \in Todo : Stands(x, k)
          \/ Handled(k) /\ \A x \in Todo : Newer(x, k)
      BY <1>2, <1>3, <2>1 DEF Inv, Covered
    <2>3. \A x \in Grabs : Stands(x, k)' = Stands(x, k)
      BY <1>2, <1>3, <2>1 DEF Stands
    <2> QED BY <1>2, <1>3, <1>5, <2>1, <2>2, <2>3
  <1>9. Creating'
    <2> SUFFICES ASSUME poll.pc = "create" PROVE Page' = Page
      BY <1>1 DEF Inv, Creating
    <2> QED BY <1>1, <1>2, UnderWay, Taken DEF Page, Rec
  <1>10. \A p \in Pages \ torn, k \in Grabs, key \in Keys : topics[p] # None /\ topics[p].source = "sonarr" =>
            (Follows(p, k, key) => Follows(p, k, key)')
    <2>1. \A p \in Pages, key \in Keys : topics[p] # None /\ topics[p].source = "sonarr" =>
              topics[p].variant[key] \in Grabs \cup {0}
      BY DEF Known, Told
    <2> QED BY <1>1, <1>2, <1>5, <2>1 DEF Follows
  <1>11. Following'
    <2> SUFFICES ASSUME poll.pc \in Working, NEW p \in Pages \ torn, topics[p] # None, topics[p].source = "sonarr",
                        NEW k \in owed', PageOf[grabs'[k].url] = p, outcome'[k] = "done",
                        grabs'[k].date <= poll.max, NEW key \in grabs'[k].gives
                 PROVE  Follows(p, k, key)' \/ \E x \in Todo : PageOf[grabs'[x].url] = p /\ ~Newer(k, x)'
      BY <1>1 DEF Following
    <2>1. k \in owed /\ k \in Grabs /\ key \in grabs[k].gives /\ key \in Keys
      BY <1>1, <1>2, <1>3, <1>4, GrabsAre
    <2>2. Follows(p, k, key) \/ \E x \in Todo : PageOf[grabs[x].url] = p /\ ~Newer(k, x)
      BY <1>2, <2>1 DEF Inv, Following
    <2> QED BY <1>2, <1>3, <1>10, <2>1, <2>2
  <1>12. PassedIsHandled'
    <2> SUFFICES ASSUME NEW i \in owed', Passed(i)' PROVE Handled(i)'
      BY DEF PassedIsHandled
    <2>1. i \in owed
      BY <1>1, <1>2, <1>3, <1>4 DEF Passed
    <2> QED BY <1>3, <1>5, <2>1 DEF Inv, PassedIsHandled
  <1>13. NewestVariant'
    <2> SUFFICES ASSUME NEW p \in Pages \ torn, topics[p] # None, topics[p].source = "sonarr",
                        NEW k \in owed', PageOf[grabs'[k].url] = p, outcome'[k] = "done", Passed(k)',
                        NEW key \in grabs'[k].gives
                 PROVE  Follows(p, k, key)'
      BY <1>1 DEF NewestVariant, Follows
    <2>0. k \in owed /\ k \in Grabs
      BY <1>1, <1>2, <1>3, <1>4 DEF Passed
    <2>1. k \in owed /\ k \in Grabs /\ key \in grabs[k].gives /\ key \in Keys
      BY <1>1, <1>2, <2>0, GrabsAre
    <2>2. Follows(p, k, key)
      BY <1>2, <1>5, <2>1 DEF Inv, NewestVariant, Follows
    <2> QED BY <1>10, <2>1, <2>2
  <1> QED BY <1>1, <1>6, <1>7, <1>8, <1>9, <1>11, <1>12, <1>13 DEF Inv

----------------------------------------------------------------------------
(* The window                                                              *)

\* Between two windows there is nothing to do.
LEMMA NoWindow ==
  ASSUME Inv, TypeOK', Anchored', UNCHANGED <<now, grabs, topics, owed, outcome, torn>>,
         poll'.pc \notin Working, poll'.todo = <<>>, poll'.max = 0, PassedIsHandled', NewestVariant'
  PROVE  Inv'
  <1>1. Window'
    <2>1. Len(poll'.todo) = 0
      BY EmptySeq
    <2> QED BY <2>1 DEF Window
  <1>2. poll'.pc # "create"
    BY DEF Working
  <1> QED BY <1>1, <1>2 DEF Inv, Covered, Creating, Following

LEMMA CursorStays ==
  ASSUME Inv, UNCHANGED <<now, grabs, topics, owed, outcome, torn>>, Cursor' = Cursor
  PROVE  PassedIsHandled' /\ NewestVariant'
  BY DEF Inv, PassedIsHandled, NewestVariant, Passed, Handled, Newer, Grabs, CameToNothing

LEMMA TickInv == ASSUME Inv, TypeOK', Tick PROVE Inv'
  <1>1. TypeOK /\ UNCHANGED <<now, grabs, inst, topics, nextId, owed, outcome, torn>>
    BY DEF Tick, ghost, Inv
  <1>2. /\ inst \in InstanceType /\ inst # None /\ poll'.inst = inst /\ poll'.todo = <<>> /\ poll'.max = 0
        /\ poll'.pc = IF inst.cursor = None THEN "stamp" ELSE "fetch"
    BY <1>1, TickIs, NoneAssumption DEF Tick
  <1>3. Anchored'
    BY <1>1, <1>2 DEF Inv, Anchored, Cursor
  <1>4. poll'.pc \notin Working
    BY <1>2 DEF Working
  <1> QED BY <1>1, <1>2, <1>3, <1>4, NoWindow, CursorStays DEF Cursor

\* The poll ends and the cursor is where it was.
LEMMA IdleInv ==
  ASSUME Inv, TypeOK', UNCHANGED <<now, grabs, inst, topics, nextId, owed, outcome, torn>>, poll' = Idle
  PROVE  Inv'
  <1>1. Anchored'
    BY IdleIs DEF Inv, Anchored, Cursor
  <1> QED BY <1>1, IdleIs, NoWindow, CursorStays DEF Cursor, Working

LEMMA StampInv == ASSUME Inv, TypeOK', Stamp PROVE Inv'
  <1>1. TypeOK /\ poll.inst # None /\ poll.inst.cursor = None /\ now \in Nat
    BY DEF Stamp, Inv, Anchored, TypeOK
  <1>2. Cursor = None
    BY <1>1 DEF Inv, Anchored, Cursor
  <1>3. owed = {}
    BY <1>2 DEF Inv, Anchored
  <1>4. UNCHANGED <<now, grabs, topics, nextId, owed, outcome, torn>> /\ poll' = Idle
        /\ (UpdateCursor(now) \/ UNCHANGED inst)
    BY DEF Stamp, ghost
  <1>5. inst' # None => inst # None /\ inst'.id = inst.id
    BY <1>1, <1>4, CursorIs
  <1>6. Anchored'
    BY <1>3, <1>4, <1>5, IdleIs DEF Inv, Anchored
  <1>7. PassedIsHandled' /\ NewestVariant'
    BY <1>3, <1>4, NothingOwed
  <1> QED BY <1>4, <1>6, <1>7, IdleIs, NoWindow DEF Working

\* The cursor moves to the newest date of the window when nothing is left to do.
LEMMA AdvanceInv == ASSUME Inv, TypeOK', Advance PROVE Inv'
  <1>1. TypeOK /\ poll.inst # None /\ poll.max \in Nat /\ poll.pc = "process" /\ poll.todo = <<>>
    BY DEF Advance, Inv, TypeOK, PollType
  <1>2. UNCHANGED <<now, grabs, topics, nextId, owed, outcome, torn>> /\ poll' = Idle
        /\ (UpdateCursor(poll.max) \/ UNCHANGED inst)
    BY DEF Advance, ghost
  <1>3. CASE UNCHANGED inst
    BY <1>2, <1>3, IdleInv
  <1>4. CASE UpdateCursor(poll.max)
    <2>1. /\ inst' = None <=> inst = None
          /\ inst # None => /\ inst'.id = inst.id
                            /\ inst'.cursor = IF inst.id = poll.inst.id THEN poll.max ELSE inst.cursor
      BY <1>1, <1>4, CursorIs
    <2>2. Cursor' = None => owed' = {}
      BY <1>1, <1>2, <2>1, NoneAssumption DEF Inv, Anchored, Cursor
    <2>3. Anchored'
      BY <1>2, <2>1, <2>2, IdleIs DEF Inv, Anchored
    <2>4. CASE owed = {}
      <3>1. PassedIsHandled' /\ NewestVariant'
        BY <1>2, <2>4, NothingOwed
      <3> QED BY <1>2, <2>3, <3>1, IdleIs, NoWindow DEF Working
    <2>5. CASE owed # {}
      <3>1. Cursor # None /\ inst # None /\ Cursor = inst.cursor
        BY <2>5 DEF Inv, Anchored, Cursor
      <3>2. inst.id = poll.inst.id /\ Cursor' = poll.max
        BY <1>1, <2>1, <3>1 DEF Inv, Anchored, Cursor
      <3>3. Todo = {} /\ poll.pc \in Working /\ owed \subseteq Grabs
        <4>1. Range(<<>>) = {}
          BY DEF Range
        <4> QED BY <1>1, <4>1 DEF Todo, Working, TypeOK
      <3>4. \A k \in owed : Passed(k)' => grabs[k].date <= poll.max
        BY <1>2, <3>2 DEF Passed
      <3>5. PassedIsHandled'
        <4>1. \A k \in owed : Handled(k)' = Handled(k)
          BY <1>2 DEF Handled, Grabs, Newer
        <4> QED BY <1>2, <3>3, <3>4, <4>1 DEF Inv, Covered, PassedIsHandled
      <3>6. NewestVariant'
        <4> SUFFICES ASSUME NEW p \in Pages \ torn, topics[p] # None, topics[p].source = "sonarr", NEW k \in owed,
                            PageOf[grabs[k].url] = p, outcome[k] = "done", Passed(k)', NEW key \in grabs[k].gives
                     PROVE  Follows(p, k, key)'
          BY <1>2 DEF NewestVariant, Follows
        <4>1. Follows(p, k, key)
          BY <3>3, <3>4 DEF Inv, Following
        <4> QED BY <1>2, <4>1 DEF Follows, Newer, Grabs, CameToNothing
      <3> QED BY <1>2, <2>3, <3>5, <3>6, IdleIs, NoWindow DEF Working
    <2> QED BY <2>4, <2>5
  <1> QED BY <1>2, <1>3, <1>4

\* Every record of the window is to be handled itself or by a newer one, and
\* what is not in the window was handled before.
LEMMA FetchInv == ASSUME Inv, TypeOK', Fetch PROVE Inv'
  <1> DEFINE batch == Since(poll.inst.cursor)
  <1>1. TypeOK /\ UNCHANGED <<now, grabs, inst, topics, nextId, owed, outcome, torn>> /\ poll.pc = "fetch"
    BY DEF Fetch, ghost, Inv
  <1>2. /\ batch \subseteq Grabs
        /\ poll'.pc = "process" /\ poll'.inst = poll.inst
        /\ Range(poll'.todo) = Latest(batch) /\ Latest(batch) \subseteq batch
        /\ \A a, b \in 1..Len(poll'.todo) : a < b => Newer(poll'.todo[b], poll'.todo[a])
        /\ poll'.max \in Nat /\ \A i \in batch : grabs[i].date <= poll'.max
    BY <1>1, FetchIs
  <1>3. batch = {i \in Grabs : grabs[i].date > poll.inst.cursor}
    BY DEF Since
  <1> HIDE DEF batch
  <1>4. poll.inst # None /\ poll.inst.cursor \in Nat
    BY <1>1 DEF Inv, Anchored, TypeOK, PollType, InstanceType
  <1>5. /\ Grabs' = Grabs /\ owed \subseteq Grabs /\ \A i, j : Newer(i, j)' = Newer(i, j)
        /\ Todo' = Latest(batch)
    BY <1>1, <1>2 DEF Grabs, Newer, Todo, TypeOK
  <1>6. Anchored'
    BY <1>1, <1>2 DEF Inv, Anchored, Cursor
  <1>7. Window'
    <2>1. \A x \in Latest(batch) : grabs[x].date > poll.inst.cursor
      BY <1>2, <1>3
    <2> QED BY <1>1, <1>2, <1>5, <2>1 DEF Window, Working
  <1>8. \A k \in owed : k \notin batch => Passed(k) /\ grabs[k].date <= poll.inst.cursor
    <2> SUFFICES ASSUME NEW k \in owed, k \notin batch PROVE Passed(k) /\ grabs[k].date <= poll.inst.cursor
      OBVIOUS
    <2>1. grabs[k].date \in Nat /\ grabs[k].date <= poll.inst.cursor
      BY <1>1, <1>3, <1>4, <1>5, GrabsAre
    <2>2. Cursor # None
      BY DEF Inv, Anchored
    <2>3. Cursor = poll.inst.cursor
      BY <1>4, <2>2 DEF Inv, Anchored, Cursor
    <2> QED BY <2>1, <2>2, <2>3 DEF Passed
  <1>9. Covered'
    <2> SUFFICES ASSUME NEW k \in owed
                 PROVE  \/ \E x \in Latest(batch) : Stands(x, k)'
                        \/ Handled(k)' /\ \A x \in Latest(batch) : Newer(x, k)'
      BY <1>1, <1>5 DEF Covered
    <2>1. \A x : Stands(x, k)' = Stands(x, k)
      BY <1>1, <1>5 DEF Stands
    <2>2. CASE k \in batch
      BY <1>1, <1>2, <2>1, <2>2, LatestStands
    <2>3. CASE k \notin batch
      <3>1. Handled(k)
        BY <1>8, <2>3 DEF Inv, PassedIsHandled
      <3>2. Handled(k)'
        BY <1>1, <1>5, <3>1 DEF Handled
      <3>3. \A x \in Latest(batch) : Newer(x, k)
        <4>1. grabs[k].date \in Nat
          BY <1>1, <1>5, GrabsAre
        <4>2. ASSUME NEW x \in Latest(batch) PROVE grabs[x].date \in Nat /\ grabs[x].date > grabs[k].date
          <5>1. grabs[x].date \in Nat /\ grabs[x].date > poll.inst.cursor
            BY <1>1, <1>2, <1>3, GrabsAre
          <5> QED BY <1>4, <1>8, <2>3, <4>1, <5>1
        <4> QED BY <4>2 DEF Newer
      <3> QED BY <1>5, <3>2, <3>3
    <2> QED BY <2>2, <2>3
  <1>10. Creating'
    BY <1>2 DEF Creating
  <1>11. Following'
    <2> SUFFICES ASSUME NEW p \in Pages \ torn, topics[p] # None, topics[p].source = "sonarr",
                        NEW k \in owed, PageOf[grabs[k].url] = p, outcome[k] = "done",
                        NEW key \in grabs[k].gives
                 PROVE  Follows(p, k, key)' \/ \E x \in Latest(batch) : PageOf[grabs[x].url] = p /\ ~Newer(k, x)'
      BY <1>1, <1>5 DEF Following
    <2>1. CASE k \in batch
      <3>1. PICK x \in Latest(batch) : Stands(x, k)
        BY <1>1, <1>2, <2>1, LatestStands
      <3> QED BY <1>5, <3>1 DEF Stands
    <2>2. CASE k \notin batch
      <3>1. Follows(p, k, key)
        BY <1>8, <2>2 DEF Inv, NewestVariant, Follows
      <3> QED BY <1>1, <1>5, <3>1 DEF Follows, CameToNothing
    <2> QED BY <2>1, <2>2
  <1>12. PassedIsHandled' /\ NewestVariant'
    BY <1>1, CursorStays DEF Cursor
  <1> QED BY <1>6, <1>7, <1>9, <1>10, <1>11, <1>12 DEF Inv

LEMMA WindowInv ==
  ASSUME Inv, TypeOK', Tick \/ Stamp \/ Fetch \/ FetchFails \/ Advance \/ Crash
  PROVE  Inv'
  <1>1. CASE FetchFails
    BY <1>1, IdleInv DEF FetchFails, ghost
  <1>2. CASE Crash
    BY <1>2, IdleInv DEF Crash, ghost
  <1> QED BY <1>1, <1>2, TickInv, StampInv, FetchInv, AdvanceInv

----------------------------------------------------------------------------
(* One record                                                              *)

\* Whatever becomes of the record at hand: it is handled, what was covered by
\* it is older than the rest, and a topic that took it follows it.
LEMMA LeaveInv ==
  ASSUME Inv, TypeOK', poll.pc \in Working, poll.todo # <<>>,
         NEW result \in {"skip", "done", "lost"}, Leave(result),
         UNCHANGED <<now, grabs, inst, owed>>, nextId <= nextId', torn \subseteq torn',
         \A p \in Pages \ {Page} : topics'[p] = topics[p],
         result = "done" => \/ Page \in torn' \/ topics'[Page].source = "user"
                            \/ Took(topics'[Page]),
         result # "done" => topics' = topics
  PROVE  Inv'
  <1>1. TypeOK /\ Window /\ poll.inst # None
    BY DEF Inv, TypeOK, Working
  <1>2. /\ Rec \in Todo /\ Rec \in Grabs /\ Page \in Pages /\ Page = PageOf[grabs[Rec].url]
        /\ Todo \subseteq Grabs /\ owed \subseteq Grabs
    BY <1>1, Taken DEF TypeOK, Todo, Page
  <1>3. /\ outcome'[Rec] = result /\ \A i \in Grabs \ {Rec} : outcome'[i] = outcome[i]
        /\ poll'.pc = "process" /\ poll'.inst = poll.inst /\ poll'.max = poll.max
        /\ poll'.todo = Tail(poll.todo)
    BY <1>1, LeaveIs
  <1>4. /\ Todo = Todo' \cup {Rec} /\ \A x \in Todo' : Newer(x, Rec)
        /\ \A a, b \in 1..Len(poll'.todo) : a < b => Newer(poll'.todo[b], poll'.todo[a])
    BY <1>1, <1>3, Taken DEF Todo
  <1>5. /\ Grabs' = Grabs /\ Cursor' = Cursor
        /\ \A i, j : Newer(i, j)' = Newer(i, j) /\ Stands(i, j)' = Stands(i, j)
        /\ \A i : Passed(i)' = Passed(i)
    BY DEF Grabs, Cursor, Newer, Stands, Passed
  <1>6. Anchored'
    <2>1. nextId' \in Nat
      BY DEF TypeOK
    <2>2. poll.pc # "idle" /\ poll.pc # "stamp"
      BY DEF Working
    <2> QED BY <1>1, <1>3, <2>1, <2>2, AnchoredStays DEF Inv
  <1>7. Window'
    BY <1>3, <1>4, <1>5 DEF Inv, Window, Working
  <1>8. \A i \in Grabs : Handled(i) => Handled(i)'
    BY <1>2, <1>3, <1>5 DEF Handled
  <1>9. Covered'
    <2> SUFFICES ASSUME NEW k \in owed, grabs[k].date <= poll.max
                 PROVE  \/ \E x \in Todo' : Stands(x, k)
                        \/ Handled(k)' /\ \A x \in Todo' : Newer(x, k)
      BY <1>3, <1>5 DEF Covered
    <2>1. \/ \E x \in Todo : Stands(x, k)
          \/ Handled(k) /\ \A x \in Todo : Newer(x, k)
      BY DEF Inv, Covered
    <2>2. ASSUME Stands(Rec, k) PROVE Handled(k)' /\ \A x \in Todo' : Newer(x, k)
      <3>1. Handled(k)'
        BY <1>2, <1>3, <1>5, <2>2 DEF Handled, Stands
      <3>2. ASSUME NEW x \in Todo' PROVE Newer(x, k)
        BY <1>1, <1>2, <1>4, <2>2, NewerOrders DEF Stands
      <3> QED BY <3>1, <3>2
    <2> QED BY <1>2, <1>4, <1>8, <2>1, <2>2
  <1>10. Creating'
    BY <1>3 DEF Creating
  <1>11. PassedIsHandled'
    BY <1>2, <1>5, <1>8 DEF Inv, PassedIsHandled
  \* A grab the invariants of the topics speak of now, and did before.
  <1> DEFINE Spoken(p, k, key) == /\ p \in Pages \ torn' /\ topics'[p] # None /\ topics'[p].source = "sonarr"
                                  /\ k \in owed /\ PageOf[grabs[k].url] = p /\ outcome'[k] = "done"
                                  /\ key \in grabs[k].gives
  <1>12. ASSUME NEW p, NEW k, NEW key, Spoken(p, k, key), topics' = topics \/ p # Page, result # "done" \/ p # Page
         PROVE  /\ topics[p] # None /\ topics[p].source = "sonarr" /\ p \in Pages \ torn
                /\ topics'[p] = topics[p]
                /\ k \in owed /\ k \in Grabs /\ k # Rec /\ PageOf[grabs[k].url] = p /\ outcome[k] = "done"
                /\ key \in grabs[k].gives
    BY <1>2, <1>3, <1>12
  <1>13. ASSUME NEW p, NEW k, NEW key, Spoken(p, k, key), topics' = topics \/ p # Page,
                result # "done" \/ p # Page, Follows(p, k, key)
         PROVE  Follows(p, k, key)'
    <2>1. CASE topics[p].variant[key] # 0 /\ (topics[p].variant[key] = k \/ Newer(topics[p].variant[key], k))
      BY <1>5, <1>12, <1>13, <2>1 DEF Follows
    <2>2. ASSUME NEW j \in Grabs, PageOf[grabs[j].url] = p, Newer(j, k), CameToNothing(j) \/ key \notin grabs[j].gives
          PROVE  Follows(p, k, key)'
      <3>1. CameToNothing(j)' \/ key \notin grabs[j].gives
        BY <1>2, <1>3, <1>13, <2>2 DEF CameToNothing
      <3> QED BY <1>5, <2>2, <3>1 DEF Follows
    <2> QED BY <1>13, <2>1, <2>2 DEF Follows
  \* The topic that took the record.
  <1>14. ASSUME NEW p, NEW k, NEW key, Spoken(p, k, key), p = Page, result = "done", ~Newer(k, Rec)
         PROVE  Follows(p, k, key)'
    <2>1. Took(topics'[p]) /\ k \in Grabs /\ key \in grabs[k].gives /\ PageOf[grabs[Rec].url] = p
      BY <1>2, <1>14
    <2>2. k = Rec \/ Newer(Rec, k)
      BY <1>1, <1>2, <1>14, <2>1, NewerOrders
    <2>3. CASE key \in grabs[Rec].gives
      <3>1. topics'[p].variant[key] = Rec /\ Rec # 0
        BY <1>1, <1>2, <2>1, <2>3, GrabsAre DEF Took
      <3> QED BY <1>5, <2>2, <3>1 DEF Follows
    <2>4. CASE key \notin grabs[Rec].gives
      <3>1. Newer(Rec, k)
        BY <2>1, <2>2, <2>4
      <3> QED BY <1>2, <1>5, <2>1, <2>4, <3>1 DEF Follows
    <2> QED BY <2>3, <2>4
  <1>15. Following'
    <2> SUFFICES ASSUME NEW p, NEW k, NEW key, Spoken(p, k, key), grabs[k].date <= poll.max
                 PROVE  Follows(p, k, key)' \/ \E x \in Todo' : PageOf[grabs[x].url] = p /\ ~Newer(k, x)
      BY <1>3, <1>5 DEF Following
    <2>1. CASE p = Page /\ result = "done"
      <3>1. ASSUME Newer(k, Rec) PROVE \E x \in Todo' : PageOf[grabs[x].url] = p /\ ~Newer(k, x)
        <4>1. k \in owed /\ k \in Grabs /\ ~Newer(Rec, k)
          BY <1>1, <1>2, <3>1, NewerOrders
        <4>2. PICK x \in Todo : Stands(x, k)
          BY <1>2, <4>1 DEF Inv, Covered
        <4>3. x \in Todo'
          BY <1>4, <3>1, <4>2 DEF Stands
        <4> QED BY <4>2, <4>3 DEF Stands
      <3> QED BY <1>14, <2>1, <3>1
    <2>2. CASE ~(p = Page /\ result = "done")
      <3>1. /\ topics[p] # None /\ topics[p].source = "sonarr" /\ p \in Pages \ torn
            /\ k \in owed /\ k \in Grabs /\ k # Rec /\ PageOf[grabs[k].url] = p /\ outcome[k] = "done"
            /\ key \in grabs[k].gives
        BY <1>12, <2>2
      <3>2. CASE Follows(p, k, key)
        BY <1>13, <2>2, <3>2
      <3>3. ASSUME NEW x \in Todo, PageOf[grabs[x].url] = p, ~Newer(k, x)
            PROVE  Follows(p, k, key)' \/ \E y \in Todo' : PageOf[grabs[y].url] = p /\ ~Newer(k, y)
        <4>1. CASE x # Rec
          BY <1>4, <3>3, <4>1
        <4>2. CASE x = Rec
          <5>1. p = Page /\ result \in {"skip", "lost"} /\ Newer(Rec, k)
            BY <1>1, <1>2, <2>2, <3>1, <3>3, <4>2, NewerOrders
          <5>2. CameToNothing(x)'
            BY <1>3, <4>2, <5>1 DEF CameToNothing
          <5>3. x \in Grabs' /\ Newer(x, k)'
            BY <1>2, <1>5, <4>2, <5>1
          <5> QED BY <3>3, <5>2, <5>3 DEF Follows
        <4> QED BY <4>1, <4>2
      <3> QED BY <3>1, <3>2, <3>3 DEF Inv, Following
    <2> QED BY <2>1, <2>2
  <1>16. NewestVariant'
    <2> SUFFICES ASSUME NEW p, NEW k, NEW key, Spoken(p, k, key), Passed(k) PROVE Follows(p, k, key)'
      BY <1>5 DEF NewestVariant, Follows
    <2>1. CASE p = Page /\ result = "done"
      <3>1. k \in Grabs /\ grabs[k].date \in Nat /\ grabs[Rec].date \in Nat /\ Cursor # None /\ grabs[k].date <= Cursor
        BY <1>1, <1>2, GrabsAre DEF Passed
      <3>2. Cursor = poll.inst.cursor /\ Cursor \in Nat
        BY <1>1, <3>1, NoneAssumption DEF Inv, Anchored, Cursor, TypeOK, InstanceType
      <3>3. grabs[Rec].date > poll.inst.cursor
        BY <1>1, <1>2 DEF Window
      <3>4. ~Newer(k, Rec)
        BY <3>1, <3>2, <3>3 DEF Newer
      <3> QED BY <1>14, <2>1, <3>4
    <2>2. CASE ~(p = Page /\ result = "done")
      <3>1. Follows(p, k, key)
        BY <1>12, <2>2 DEF Inv, NewestVariant, Follows
      <3> QED BY <1>13, <2>2, <3>1
    <2> QED BY <2>1, <2>2
  <1> QED BY <1>6, <1>7, <1>9, <1>10, <1>11, <1>15, <1>16 DEF Inv

LEMMA RecordInv ==
  ASSUME Inv, TypeOK', Skip \/ Lookup \/ BuildAndCreate \/ HandleExisting
  PROVE  Inv'
  <1> USE UnderWay
  <1>0. TypeOK /\ nextId \in Nat /\ TypeOK'
    BY DEF Inv, TypeOK
  <1>1. CASE Skip
    <2>1. poll.pc \in Working /\ poll.todo # <<>> /\ Leave("skip")
          /\ UNCHANGED <<now, grabs, inst, topics, nextId, owed, torn>>
      BY <1>1 DEF Skip, Processing, Working
    <2> QED BY <1>0, <2>1, LeaveInv
  <1>2. CASE Lookup
    <2>1. poll.pc \in Working /\ poll.todo # <<>> /\ poll.pc = "process" /\ poll.inst # None
          /\ UNCHANGED <<now, grabs, inst, topics, nextId, owed, torn>>
      BY <1>0, <1>2 DEF Lookup, Processing, Working
    <2>2. Page \in Pages /\ topics[Page] \in TopicType \cup {None}
      BY <1>0, <2>1, Taken DEF TypeOK
    <2>3. CASE Leave("lost")
      BY <1>0, <2>1, <2>3, LeaveInv
    <2>4. CASE Leave("done") /\ topics[Page] # None /\ ~VariantChanged(topics[Page])
      <3>0. topics[Page].source = "user" \/ (topics[Page].variant = Merged(topics[Page].variant, Rec)
                                             /\ topics[Page].variant \in [Keys -> Nat])
        BY <2>2, <2>4 DEF VariantChanged, TopicType
      <3>1. topics[Page].source = "user" \/ Took(topics[Page])
        BY <1>0, <2>1, <3>0, MergedIs DEF Took
      <3>2. topics'[Page].source = "user" \/ Took(topics'[Page])
        BY <2>1, <3>1
      <3> QED BY <1>0, <2>1, <2>4, <3>2, LeaveInv
    <2>5. ASSUME NEW pc \in {"create", "update"}, NEW seen \in TopicType \cup {None}, Goto(pc, seen),
                 pc = "create" => topics[Page] = None
          PROVE  Inv'
      <3>1. /\ poll'.pc = pc /\ poll'.inst = poll.inst /\ poll'.max = poll.max
            /\ poll'.todo = poll.todo /\ outcome' = outcome
        BY <1>0, <2>1, <2>5, GotoIs
      <3>2. /\ Grabs' = Grabs /\ Todo' = Todo /\ Page' = Page /\ Cursor' = Cursor
            /\ \A i, j : Newer(i, j)' = Newer(i, j) /\ Stands(i, j)' = Stands(i, j)
            /\ \A i : Passed(i)' = Passed(i) /\ Handled(i)' = Handled(i)
                      /\ CameToNothing(i)' = CameToNothing(i)
        BY <2>1, <3>1 DEF Grabs, Todo, Page, Rec, Cursor, Newer, Stands, Passed, Handled, CameToNothing
      <3>3. Anchored'
        BY <1>0, <2>1, <3>1, AnchoredStays DEF Inv
      <3>4. Window' /\ Covered'
        BY <2>1, <3>1, <3>2 DEF Inv, Window, Covered, Working
      <3>5. Creating'
        BY <2>1, <2>5, <3>1, <3>2 DEF Creating
      <3>6. \A p, k, key : Follows(p, k, key)' = Follows(p, k, key)
        BY <2>1, <3>2 DEF Follows
      <3>7. Following'
        BY <2>1, <3>1, <3>2, <3>6 DEF Inv, Following, Working
      <3>8. PassedIsHandled' /\ NewestVariant'
        BY <2>1, <3>1, <3>2, CursorStays DEF Inv
      <3> QED BY <1>0, <3>3, <3>4, <3>5, <3>7, <3>8 DEF Inv
    <2>6. \/ topics[Page] = None /\ Goto("create", None)
          \/ topics[Page] # None /\ Goto("update", topics[Page])
          \/ topics[Page] # None /\ ~VariantChanged(topics[Page]) /\ Leave("done")
          \/ Leave("lost")
      BY <1>2 DEF Lookup
    <2> QED BY <2>2, <2>3, <2>4, <2>5, <2>6
  <1>3. CASE BuildAndCreate
    <2>1. poll.pc \in Working /\ poll.pc = "create" /\ poll.todo # <<>> /\ poll.inst # None
          /\ UNCHANGED <<now, grabs, inst, owed, torn>>
      BY <1>0, <1>3 DEF BuildAndCreate, Working
    <2>2. CASE Leave("lost") /\ UNCHANGED <<topics, nextId>>
      BY <1>0, <2>1, <2>2, LeaveInv
    <2>3. ASSUME Leave("done"), NEW inherited \in Defaults,
                 Inserted(Page, Policy(<<>>, inherited), poll.inst.client, "sonarr", Merged(NoVariant, Rec))
          PROVE  Inv'
      <3>1. /\ nextId <= nextId' /\ \A p \in Pages \ {Page} : topics'[p] = topics[p]
            /\ topics[Page] # None => topics' = topics
            /\ topics[Page] = None => topics'[Page].variant = Merged(NoVariant, Rec)
        BY <1>0, <2>1, <2>3, BuildIs
      <3>2. topics[Page] = None \/ topics[Page].source = "user" \/ Page \in torn
        BY <2>1 DEF Inv, Creating
      <3>3. Page \in torn' \/ topics'[Page].source = "user" \/ Took(topics'[Page])
        BY <1>0, <2>1, <3>1, <3>2, MergedIs, NoVariantIs DEF Took
      <3> QED BY <1>0, <2>1, <2>3, <3>1, <3>3, LeaveInv
    <2> QED BY <1>3, <2>2, <2>3 DEF BuildAndCreate
  <1>4. CASE HandleExisting
    <2>1. poll.pc \in Working /\ poll.pc = "update" /\ poll.todo # <<>> /\ poll.inst # None
          /\ UNCHANGED <<now, grabs, inst, nextId, owed>>
      BY <1>0, <1>4 DEF HandleExisting, Working
    <2>2. CASE Leave("lost") /\ UNCHANGED <<topics, torn>>
      BY <1>0, <2>1, <2>2, LeaveInv
    <2>3. CASE /\ Leave("done") /\ Found(Page, poll.seen)
               /\ Update(Page, poll.seen, poll.seen.policy, None, HandledClient, HandledVariant)
      <3>1. /\ torn \subseteq torn' /\ \A p \in Pages \ {Page} : topics'[p] = topics[p]
            /\ topics'[Page].source = "user" \/ Took(topics'[Page])
        BY <1>0, <2>1, <2>3, HandleIs
      <3> QED BY <1>0, <2>1, <2>3, <3>1, LeaveInv
    <2> QED BY <1>4, <2>2, <2>3 DEF HandleExisting, HandledClient, HandledVariant
  <1> QED BY <1>1, <1>2, <1>3, <1>4

LEMMA InitInv == ASSUME Init PROVE Inv
  <1>1. TypeOK /\ poll = Idle /\ owed = {} /\ inst = None
    BY InitType DEF Init
  <1>2. Window
    BY <1>1, IdleIs, EmptySeq DEF Window, Working
  <1>3. Anchored /\ Covered /\ Creating /\ Following /\ PassedIsHandled /\ NewestVariant
    BY <1>1, IdleIs DEF Anchored, Covered, Creating, Following, PassedIsHandled, NewestVariant
  <1> QED BY <1>1, <1>2, <1>3 DEF Inv

LEMMA NextInv == ASSUME Inv, Known, [Next]_vars PROVE Inv'
  <1>1. TypeOK /\ TypeOK'
    BY NextType DEF Inv
  <1>2. CASE UNCHANGED vars
    <2>1. /\ UNCHANGED <<now, grabs, inst, topics, nextId, poll, owed, outcome, torn>>
          /\ nextId' \in Nat /\ nextId <= nextId'
      BY <1>1, <1>2 DEF vars, ghost, TypeOK
    <2>2. Anchored' /\ Cursor' = Cursor
      BY <1>1, <2>1, AnchoredStays DEF Inv, Cursor
    <2> QED BY <1>1, <2>1, <2>2, OnlyTopics DEF Open
  <1>3. ASSUME NEW url \in Urls, NEW date \in {now, now + 1}, NEW gives \in Gives[url], Grab(url, date, gives) PROVE Inv'
    BY <1>3, GrabInv
  <1> QED BY <1>1, <1>2, <1>3, OwnerInv, AdminInv, WindowInv, RecordInv DEF Next, PollSteps

LEMMA Inductive == Spec => [](Inv /\ Known)
  <1>1. Init => Inv /\ Known
    BY InitInv, InitKnown
  <1>2. Inv /\ Known /\ [Next]_vars => (Inv /\ Known)'
    <2>1. Inv => TypeOK
      BY DEF Inv
    <2> QED BY <2>1, NextInv, NextKnown
  <1> QED BY <1>1, <1>2, PTL DEF Spec

\* The cursor never passes a grab the poller has not handled, whatever fails.
THEOREM NothingIsPassedOver == Spec => []PassedIsHandled
  <1>1. Inv /\ Known => PassedIsHandled
    BY DEF Inv
  <1> QED BY <1>1, Inductive, PTL

\* Once the cursor is past it, the title and the hash of a grab that was applied
\* are its topic's, or a newer grab's are: a window that is processed again undoes
\* nothing for good.
THEOREM TheNewestIsFollowed == Spec => []NewestVariant
  <1>1. Inv /\ Known => NewestVariant
    BY DEF Inv
  <1> QED BY <1>1, Inductive, PTL

\* The poller leaves the folder setting of a topic as its owner saved it.
THEOREM FolderIsKept == Spec => FolderIsTheUsers
  <1>1. TypeOK /\ [Next]_vars =>
            [\A p \in Pages : poll # poll' /\ topics[p] # None /\ topics'[p] # None
                 => topics'[p].policy.folder = topics[p].policy.folder]_vars
    <2> SUFFICES ASSUME TypeOK, Next, poll # poll', NEW p \in Pages, topics[p] # None, topics'[p] # None
                 PROVE  topics'[p].policy.folder = topics[p].policy.folder
      BY Zenon
    <2>1. CASE Tick \/ Stamp \/ Fetch \/ FetchFails \/ Skip \/ Lookup \/ Advance \/ Crash
      BY <2>1 DEF Tick, Stamp, Fetch, FetchFails, Skip, Lookup, Advance, Crash
    <2>2. CASE BuildAndCreate
      BY <2>2, BuildIs, UnderWay, Taken DEF BuildAndCreate
    <2>3. CASE HandleExisting
      BY <2>3, HandleIs, UnderWay, Taken DEF HandleExisting, HandledClient, HandledVariant
    <2>4. ~(\E url \in Urls, date \in {now, now + 1} : \E gives \in Gives[url] : Grab(url, date, gives)) /\ ~EditWrite /\ ~DeleteInstance
          /\ ~(\E form \in Forms : CreateInstance(form) \/ UpdateInstance(form))
          /\ ~(\E page \in Pages, request \in Requests : CreateTopic(page, request) \/ EditRead(page, request))
          /\ ~(\E page \in Pages : DeleteTopic(page))
      BY DEF Grab, EditWrite, DeleteInstance, CreateInstance, UpdateInstance, CreateTopic, EditRead, DeleteTopic
    <2> QED BY <2>1, <2>2, <2>3, <2>4 DEF Next, PollSteps
  <1> QED BY <1>1, TypeCorrect, PTL DEF Spec, FolderIsTheUsers
=============================================================================
