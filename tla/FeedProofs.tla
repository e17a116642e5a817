----------------------------- MODULE FeedProofs -----------------------------
(***************************************************************************)
(* For any number of workers, deliveries, torrents, rows, queue and replay *)
(* lengths, polls, reconnects, crashes and failed statements: a completion *)
(* is announced once per delivery row, and the page misses no event of the *)
(* history unless one of the five losses has occurred.                     *)
(***************************************************************************)
EXTENDS Feed, FiniteSetTheorems, SequenceTheorems, WellFoundedInduction, TLAPS

\* The variables of the deliveries and of the watcher's announcements.
watch == <<rows, rowId, completed, todo, told>>

RowTypes ==
    /\ rows \in [Deliveries -> {"none", "inflight", "old", "done"}]
    /\ rowId \in [Deliveries -> 0..MaxRowIds]
    /\ completed \subseteq RowIds
    /\ told \in [RowIds -> {0, 1}]
    /\ \A t \in todo : t[1] \in RowIds

\* A row in flight has an id, which was not completed yet, and no later id is
\* taken: the serial of the table only grows.
InFlightIsNew ==
    \A d \in Deliveries :
        /\ rows[d] # "none" => rowId[d] \in 1..MaxRowIds
        /\ rows[d] \in {"inflight", "old"} => Current(d) \notin completed
        /\ \A n \in 1..MaxRowIds : n > rowId[d] => <<d, n>> \notin completed

\* Only a completed row is announced.
ToldIsCompleted == \A r \in RowIds : told[r] = 1 => r \in completed

Inv == RowTypes /\ InFlightIsNew /\ ToldIsCompleted

-----------------------------------------------------------------------------
LEMMA InitInv == Init => Inv
  BY FeedAssumption
  DEF FeedAssumption, Init, Inv, RowTypes, InFlightIsNew, ToldIsCompleted, RowIds

LEMMA Untouched == Inv /\ UNCHANGED watch => Inv'
  BY DEF Inv, RowTypes, InFlightIsNew, ToldIsCompleted, Current, RowIds, watch

\* A new row gets a new id.
LEMMA SubmitInv == ASSUME Inv, NEW d \in Deliveries, Submit(d) PROVE Inv'
  <1>1. /\ rows' = [rows EXCEPT ![d] = "inflight"] /\ rowId' = [rowId EXCEPT ![d] = rowId[d] + 1]
        /\ completed' = completed /\ todo' = todo /\ told' = told /\ rowId[d] < MaxRowIds
        /\ rowId[d] \in 0..MaxRowIds /\ MaxRowIds \in Nat
    BY FeedAssumption DEF Submit, Inv, RowTypes, FeedAssumption, poller
  <1>2. rowId[d] + 1 \in 1..MaxRowIds
    BY <1>1
  <1>3. RowTypes'
    BY <1>1, <1>2 DEF Inv, RowTypes, RowIds
  <1>4. ASSUME NEW c \in Deliveries
        PROVE  /\ rows'[c] # "none" => rowId'[c] \in 1..MaxRowIds
               /\ rows'[c] \in {"inflight", "old"} => <<c, rowId'[c]>> \notin completed'
               /\ \A n \in 1..MaxRowIds : n > rowId'[c] => <<c, n>> \notin completed'
    <2>1. CASE c = d
      <3>1. rowId'[c] = rowId[d] + 1
        BY <1>1, <2>1 DEF Inv, RowTypes
      <3> QED BY <1>1, <1>2, <2>1, <3>1 DEF Inv, InFlightIsNew
    <2>2. CASE c # d
      <3>1. rows'[c] = rows[c] /\ rowId'[c] = rowId[c]
        BY <1>1, <2>2 DEF Inv, RowTypes
      <3> QED BY <1>1, <3>1 DEF Inv, InFlightIsNew, Current
    <2> QED BY <2>1, <2>2
  <1>5. ToldIsCompleted'
    BY <1>1 DEF Inv, ToldIsCompleted, RowIds
  <1> QED BY <1>3, <1>4, <1>5 DEF Inv, InFlightIsNew, Current

LEMMA RemoveRowInv == ASSUME Inv, NEW d \in Deliveries, RemoveRow(d) PROVE Inv'
  <1>1. /\ rows' = [rows EXCEPT ![d] = "none"] /\ UNCHANGED <<rowId, completed, todo, told>>
    BY DEF RemoveRow, poller
  <1>2. RowTypes' /\ ToldIsCompleted'
    BY <1>1 DEF Inv, RowTypes, ToldIsCompleted, RowIds
  <1>3. InFlightIsNew'
    BY <1>1 DEF Inv, RowTypes, InFlightIsNew, Current
  <1> QED BY <1>2, <1>3 DEF Inv

LEMMA AgeInv == ASSUME Inv, NEW d \in Deliveries, Age(d) PROVE Inv'
  <1>1. /\ rows[d] = "inflight" /\ rows' = [rows EXCEPT ![d] = "old"]
        /\ UNCHANGED <<rowId, completed, todo, told>>
    BY DEF Age, poller
  <1>2. RowTypes' /\ ToldIsCompleted'
    BY <1>1 DEF Inv, RowTypes, ToldIsCompleted, RowIds
  <1>3. InFlightIsNew'
    BY <1>1 DEF Inv, RowTypes, InFlightIsNew, Current
  <1> QED BY <1>2, <1>3 DEF Inv

\* The poll lists rows of the table.
LEMMA PollInv == ASSUME Inv, Poll PROVE Inv'
  <1>1. \A d \in InFlight : Current(d) \in RowIds
    BY DEF Inv, InFlightIsNew, InFlight, Current, RowIds
  <1>2. UNCHANGED <<rows, rowId, completed, told>> /\ \A t \in todo' : t[1] \in RowIds
    BY <1>1 DEF Poll, table
  <1> QED BY <1>2 DEF Inv, RowTypes, InFlightIsNew, ToldIsCompleted, Current, RowIds

\* A mark leaves a row that is no longer in flight, if there is a row.
LEMMA MarkInv ==
    ASSUME Inv, NEW r \in RowIds, rowId' = rowId, todo' \subseteq todo,
           told' \in [RowIds -> {0, 1}], ToldIsCompleted',
           MarkCompleted(r) \/ UNCHANGED <<rows, completed>>
    PROVE  Inv'
  <1>1. PICK d \in Deliveries, n \in 1..MaxRowIds : r = <<d, n>>
    BY DEF RowIds
  <1>2. RowTypes'
    BY <1>1 DEF Inv, RowTypes, MarkCompleted, InTable, RowIds
  <1>3. CASE UNCHANGED <<rows, completed>>
    BY <1>2, <1>3 DEF Inv, InFlightIsNew, Current
  <1>4. CASE /\ rows[d] # "none" /\ rowId[d] = n
             /\ rows' = [rows EXCEPT ![d] = "done"] /\ completed' = completed \cup {r}
    <2>1. ASSUME NEW c \in Deliveries
          PROVE  /\ rows'[c] # "none" => rowId'[c] \in 1..MaxRowIds
                 /\ rows'[c] \in {"inflight", "old"} => <<c, rowId'[c]>> \notin completed'
                 /\ \A m \in 1..MaxRowIds : m > rowId'[c] => <<c, m>> \notin completed'
      <3>1. CASE c = d
        BY <1>1, <1>4, <3>1 DEF Inv, RowTypes, InFlightIsNew
      <3>2. CASE c # d
        BY <1>1, <1>4, <3>2 DEF Inv, RowTypes, InFlightIsNew, Current
      <3> QED BY <3>1, <3>2
    <2> QED BY <1>2, <2>1 DEF Inv, InFlightIsNew, Current
  <1> QED BY <1>1, <1>3, <1>4 DEF MarkCompleted, InTable

\* The announcement follows the transition this call made.
LEMMA CompleteInv == ASSUME Inv, NEW r \in RowIds, Complete(r) PROVE Inv'
  <1>1. rowId' = rowId /\ todo' \subseteq todo /\ MarkCompleted(r)
    BY DEF Complete
  <1>2. told' \in [RowIds -> {0, 1}] /\ ToldIsCompleted'
    <2>1. PICK d \in Deliveries, n \in 1..MaxRowIds : r = <<d, n>>
      BY DEF RowIds
    <2>2. CASE Won(r)
      <3>1. /\ rows[d] \in {"inflight", "old"} /\ rowId[d] = n /\ told' = [told EXCEPT ![r] = told[r] + 1]
            /\ completed' = completed \cup {r}
        BY <1>1, <2>1, <2>2 DEF Complete, Won, InTable, MarkCompleted, Inv, RowTypes
      <3>2. told[r] = 0
        BY <2>1, <3>1 DEF Inv, RowTypes, InFlightIsNew, ToldIsCompleted, Current
      <3>3. told' = [told EXCEPT ![r] = 1]
        BY <3>1, <3>2
      <3> QED BY <3>1, <3>3 DEF Inv, RowTypes, ToldIsCompleted, RowIds
    <2>3. CASE ~Won(r)
      <3>1. told' = told /\ completed \subseteq completed'
        BY <1>1, <2>3 DEF Complete, MarkCompleted
      <3> QED BY <3>1 DEF Inv, RowTypes, ToldIsCompleted, RowIds
    <2> QED BY <2>2, <2>3
  <1> QED BY <1>1, <1>2, MarkInv

LEMMA MarkFailsInv == ASSUME Inv, NEW r \in RowIds, MarkFails(r) PROVE Inv'
  <1>1. /\ rowId' = rowId /\ todo' \subseteq todo /\ told' = told /\ completed \subseteq completed'
        /\ MarkCompleted(r) \/ UNCHANGED <<rows, completed>>
    BY DEF MarkFails, MarkCompleted
  <1>2. told' \in [RowIds -> {0, 1}] /\ ToldIsCompleted'
    BY <1>1 DEF Inv, RowTypes, ToldIsCompleted, RowIds
  <1> QED BY <1>1, <1>2, MarkInv

LEMMA CheckOneInv == Inv /\ CheckOne => Inv'
  <1> SUFFICES ASSUME Inv, CheckOne PROVE Inv'
    OBVIOUS
  <1>1. PICK t \in todo : Complete(t[1]) \/ MarkFails(t[1]) \/ Progress(t[1], t[2])
    BY DEF CheckOne
  <1>2. t[1] \in RowIds
    BY DEF Inv, RowTypes
  <1>3. CASE Progress(t[1], t[2])
    <2>1. UNCHANGED <<rows, rowId, completed, told>> /\ todo' \subseteq todo
      BY <1>3 DEF Progress, table
    <2> QED BY <2>1 DEF Inv, RowTypes, InFlightIsNew, ToldIsCompleted, Current, RowIds
  <1> QED BY <1>1, <1>2, <1>3, CompleteInv, MarkFailsInv

LEMMA NextInv == Inv /\ [Next]_vars => Inv'
  <1> SUFFICES ASSUME Inv, [Next]_vars PROVE Inv'
    OBVIOUS
  <1>1. CASE \E w \in Workers, type \in WorkerEvents : EmitBegin(w, type)
    BY <1>1, Untouched DEF EmitBegin, watch, table, poller
  <1>2. CASE \E e \in Emitters : Emission(e)
    BY <1>2, Untouched DEF Emission, Record, Notify, Publish, Send, watch, table, poller
  <1>3. CASE Prune
    BY <1>3, Untouched DEF Prune, watch, table, poller
  <1>4. CASE Server
    BY <1>4, Untouched DEF Server, ListSince, ListFails, Replay, GoLive, LiveFrame,
                           watch, table, poller
  <1>5. CASE Browser
    BY <1>5, Untouched DEF Browser, Ticket, Refused, Stream, Break, watch, table, poller
  <1>6. CASE \E d \in Deliveries : Submit(d) \/ RemoveRow(d) \/ Age(d)
    BY <1>6, SubmitInv, RemoveRowInv, AgeInv
  <1>7. CASE (\E h \in Hashes : Download(h)) \/ LoseClient \/ PollFails
    BY <1>7, Untouched DEF Download, LoseClient, PollFails, watch, table, poller
  <1>8. CASE Crash
    <2>1. UNCHANGED <<rows, rowId, completed, told>> /\ todo' = {}
      BY <1>8 DEF Crash, table
    <2> QED BY <2>1 DEF Inv, RowTypes, InFlightIsNew, ToldIsCompleted, Current, RowIds
  <1>9. CASE UNCHANGED vars
    BY <1>9, Untouched DEF vars, watch, table, poller
  <1> QED BY <1>1, <1>2, <1>3, <1>4, <1>5, <1>6, <1>7, <1>8, <1>9, PollInv, CheckOneInv DEF Next

\* A completion is announced at most once per delivery row, and only for a row
\* that got its completed_at (progress.Watcher, MarkCompleted).
THEOREM OneAnnouncement == Spec => []AnnouncedOnce
  <1>1. Inv => AnnouncedOnce
    BY DEF Inv, RowTypes, ToldIsCompleted, AnnouncedOnce
  <1> QED BY <1>1, InitInv, NextInv, PTL DEF Spec

-----------------------------------------------------------------------------
(* The rows of a replay.                                                   *)

\* The frames with an id come in the order of their ids.
Rising(s) == \A i, j \in 1..Len(s) : i < j /\ 0 < s[i] /\ 0 < s[j] => s[i] < s[j]

LEMMA Least == ASSUME NEW S \in SUBSET Nat, S # {} PROVE \E m \in S : \A x \in S : m <= x
  <1>1. PICK m \in S : \A y \in S : ~(<<y, m>> \in OpToRel(<, Nat))
    BY WFMin, NatLessThanWellFounded, Zenon
  <1>2. \A y \in S : ~(y < m)
    BY <1>1 DEF OpToRel
  <1> QED BY <1>2

\* A finite set of numbers can be put in order.
Sortable(n) ==
    \A S \in SUBSET Nat :
        IsFiniteSet(S) /\ Cardinality(S) = n
            => \E s \in [1..n -> S] : \A i, j \in 1..n : i < j => s[i] < s[j]

LEMMA AllSortable == \A n \in Nat : Sortable(n)
  <1> DEFINE Bad == {n \in Nat : ~Sortable(n)}
  <1> SUFFICES ASSUME Bad # {} PROVE FALSE
    OBVIOUS
  <1>1. PICK n \in Bad : \A m \in Bad : n <= m
    <2>1. Bad \in SUBSET Nat
      OBVIOUS
    <2> HIDE DEF Bad
    <2> QED BY <2>1, Least
  <1>2. n \in Nat /\ ~Sortable(n) /\ \A m \in Nat : m < n => Sortable(m)
    BY <1>1
  <1> HIDE DEF Bad
  <1>3. PICK S \in SUBSET Nat :
           /\ IsFiniteSet(S) /\ Cardinality(S) = n
           /\ ~\E s \in [1..n -> S] : \A i, j \in 1..n : i < j => s[i] < s[j]
    BY <1>2 DEF Sortable
  <1>4. n # 0
    <2> SUFFICES ASSUME n = 0 PROVE FALSE
      OBVIOUS
    <2> DEFINE s == [i \in 1..n |-> 0]
    <2>1. s \in [1..n -> S] /\ \A i, j \in 1..n : i < j => s[i] < s[j]
      OBVIOUS
    <2> QED BY <1>3, <2>1
  <1>5. S # {}
    BY <1>3, <1>4, FS_EmptySet
  <1>6. PICK m \in S : \A x \in S : m <= x
    BY <1>5, Least
  <1>7. IsFiniteSet(S \ {m}) /\ Cardinality(S \ {m}) = n - 1 /\ S \ {m} \in SUBSET Nat
    BY <1>3, FS_RemoveElement
  <1>8. n - 1 \in Nat /\ n - 1 < n
    BY <1>2, <1>4
  <1>9. PICK t \in [1..(n - 1) -> S \ {m}] : \A i, j \in 1..(n - 1) : i < j => t[i] < t[j]
    BY <1>2, <1>7, <1>8 DEF Sortable
  <1> DEFINE s == [i \in 1..n |-> IF i = 1 THEN m ELSE t[i - 1]]
  <1>10. \A i \in 1..n : i # 1 => i - 1 \in 1..(n - 1) /\ t[i - 1] \in S \ {m}
    BY <1>2, <1>9
  <1>11. s \in [1..n -> S]
    BY <1>10
  <1>12. ASSUME NEW i \in 1..n, NEW j \in 1..n, i < j PROVE s[i] < s[j]
    <2>1. j # 1 /\ s[j] = t[j - 1] /\ j - 1 \in 1..(n - 1) /\ t[j - 1] \in S \ {m}
      BY <1>2, <1>10, <1>12
    <2>2. CASE i = 1
      <3>1. s[i] = m
        BY <2>2
      <3>2. t[j - 1] \in Nat /\ m \in Nat /\ m <= t[j - 1] /\ m # t[j - 1]
        BY <1>6, <2>1
      <3>3. m < t[j - 1]
        BY <3>2
      <3> QED BY <2>1, <3>1, <3>3
    <2>3. CASE i # 1
      <3>1. s[i] = t[i - 1] /\ i - 1 \in 1..(n - 1) /\ i - 1 < j - 1
        BY <1>2, <1>10, <1>12, <2>3
      <3> QED BY <1>9, <2>1, <3>1
    <2> QED BY <2>2, <2>3
  <1> HIDE DEF s
  <1> QED BY <1>3, <1>11, <1>12

\* ORDER BY gives every row once, in order.
LEMMA AscendingIs ==
    ASSUME NEW S \in SUBSET Nat, IsFiniteSet(S)
    PROVE  Ascending(S) \in Seq(Nat) /\ Range(Ascending(S)) = S /\ Rising(Ascending(S))
  <1> DEFINE n == Cardinality(S)
             P(s) == \A i, j \in DOMAIN s : i < j => s[i] < s[j]
             s == Ascending(S)
  <1>1. n \in Nat
    BY FS_CardinalityType
  <1>2. \E r \in [1..n -> S] : P(r)
    <2>1. PICK r \in [1..n -> S] : \A i, j \in 1..n : i < j => r[i] < r[j]
      BY <1>1, AllSortable DEF Sortable
    <2> QED BY <2>1
  <1>3. s \in [1..n -> S] /\ P(s)
    BY <1>2 DEF Ascending
  <1> HIDE DEF n, s
  <1>4. s \in Seq(Nat) /\ Len(s) = n /\ DOMAIN s = 1..n /\ \A i \in 1..n : s[i] \in S
    <2>1. s \in Seq(S)
      BY <1>1, <1>3, SeqDef, Zenon
    <2>2. s \in Seq(Nat)
      BY <2>1, SeqMonotonic
    <2> QED BY <1>1, <1>3, <2>1, <2>2, LenProperties
  <1>5. Rising(s)
    BY <1>3, <1>4 DEF Rising
  <1>6. Range(s) = S
    <2>1. \A i, j \in 1..n : s[i] = s[j] => i = j
      <3> SUFFICES ASSUME NEW i \in 1..n, NEW j \in 1..n, s[i] = s[j], i # j PROVE FALSE
        OBVIOUS
      <3>1. i < j \/ j < i
        BY <1>1
      <3>2. s[i] < s[j] \/ s[j] < s[i]
        BY <1>3, <1>4, <3>1
      <3> QED BY <1>4, <3>2
    <2>2. s \in Injection(1..n, S)
      BY <1>3, <2>1 DEF Injection, IsInjective
    <2>3. IsFiniteSet(1..n) /\ Cardinality(1..n) = n
      BY <1>1, FS_Interval
    <2>4. s \in Surjection(1..n, S)
      BY <2>2, <2>3, FS_Injection DEF n
    <2>5. \A x \in S : \E i \in 1..n : s[i] = x
      BY <2>4 DEF Surjection
    <2> QED BY <1>4, <2>5 DEF Range
  <1> QED BY <1>4, <1>5, <1>6 DEF s

LEMMA AllListed ==
    ASSUME NEW S \in SUBSET Nat, IsFiniteSet(S), NEW n \in Nat, ~(Cardinality(S) > n)
    PROVE  Oldest(S, n) = S
  <1>1. Cardinality(S) \in Nat
    BY FS_CardinalityType
  <1>2. ASSUME NEW id \in S PROVE Cardinality({o \in S : o < id}) < n
    <2> DEFINE T == {o \in S : o < id}
    <2>1. T \in SUBSET (S \ {id})
      OBVIOUS
    <2>2. IsFiniteSet(S \ {id}) /\ Cardinality(S \ {id}) = Cardinality(S) - 1
      BY FS_RemoveElement
    <2>3. Cardinality(T) <= Cardinality(S) - 1 /\ Cardinality(T) \in Nat
      BY <2>1, <2>2, FS_Subset, FS_CardinalityType
    <2> HIDE DEF T
    <2>4. Cardinality(T) < n
      BY <1>1, <2>3
    <2> QED BY <2>4 DEF T
  <1> QED BY <1>2 DEF Oldest

\* A replay that is not all listed is still in order.
LEMMA OldestIs ==
    ASSUME NEW S \in SUBSET Nat, IsFiniteSet(S), NEW n
    PROVE  Oldest(S, n) \in SUBSET S /\ IsFiniteSet(Oldest(S, n))
  BY FS_Subset DEF Oldest

-----------------------------------------------------------------------------
(* Queues.                                                                 *)

LEMMA RangeIs ==
    ASSUME NEW s \in Seq(Nat)
    PROVE  /\ \A y \in Range(s) : y \in Nat /\ \E i \in 1..Len(s) : y = s[i]
           /\ \A i \in 1..Len(s) : s[i] \in Range(s)
  BY DEF Range

LEMMA HeadTail ==
    ASSUME NEW s \in Seq(Nat), s # <<>>
    PROVE  /\ Tail(s) \in Seq(Nat) /\ Head(s) \in Nat /\ Head(s) \in Range(s)
           /\ Range(s) = Range(Tail(s)) \cup {Head(s)}
           /\ Rising(s) => Rising(Tail(s))
           /\ Rising(s) /\ 0 < Head(s) => \A y \in Range(Tail(s)) : 0 < y => Head(s) < y
  <1>1. /\ Tail(s) \in Seq(Nat) /\ Len(s) \in Nat \ {0} /\ Len(Tail(s)) = Len(s) - 1 /\ Head(s) = s[1]
        /\ \A i \in 1..Len(Tail(s)) : Tail(s)[i] = s[i + 1]
    OBVIOUS
  <1>2. Head(s) \in Nat /\ Head(s) \in Range(s)
    BY <1>1, RangeIs
  <1>3. Range(s) = Range(Tail(s)) \cup {Head(s)}
    <2>1. \A i \in 1..Len(Tail(s)) : i + 1 \in 1..Len(s)
      BY <1>1
    <2>2. ASSUME NEW y \in Range(Tail(s)) PROVE y \in Range(s)
      <3>1. PICK i \in 1..Len(Tail(s)) : y = Tail(s)[i]
        BY <1>1, RangeIs
      <3> QED BY <1>1, <2>1, <3>1, RangeIs
    <2>3. \A i \in 1..Len(s) : i # 1 => i - 1 \in 1..Len(Tail(s)) /\ Tail(s)[i - 1] = s[i]
      BY <1>1
    <2>4. ASSUME NEW y \in Range(s) PROVE y = Head(s) \/ y \in Range(Tail(s))
      <3>1. PICK i \in 1..Len(s) : y = s[i]
        BY RangeIs
      <3> QED BY <1>1, <2>3, <3>1, RangeIs
    <2> QED BY <1>2, <2>2, <2>4
  <1>4. Rising(s) => Rising(Tail(s))
    BY <1>1 DEF Rising
  <1>5. ASSUME Rising(s), 0 < Head(s), NEW y \in Range(Tail(s)), 0 < y PROVE Head(s) < y
    <2>1. PICK i \in 1..Len(Tail(s)) : y = Tail(s)[i]
      BY <1>1, RangeIs
    <2>2. i + 1 \in 1..Len(s) /\ 1 < i + 1 /\ 1 \in 1..Len(s) /\ y = s[i + 1]
      BY <1>1, <2>1
    <2> QED BY <1>1, <1>5, <2>2 DEF Rising
  <1> QED BY <1>1, <1>2, <1>3, <1>4, <1>5

LEMMA Appended ==
    ASSUME NEW s \in Seq(Nat), NEW x \in Nat
    PROVE  /\ Append(s, x) \in Seq(Nat) /\ Range(Append(s, x)) = Range(s) \cup {x}
           /\ Rising(s) /\ (0 < x => \A y \in Range(s) : y < x) => Rising(Append(s, x))
  <1> DEFINE t == Append(s, x)
  <1>1. /\ t \in Seq(Nat) /\ Len(s) \in Nat /\ Len(t) = Len(s) + 1 /\ t[Len(t)] = x
        /\ \A i \in 1..Len(s) : t[i] = s[i]
    BY AppendProperties, LenProperties
  <1> HIDE DEF t
  <1>2. Range(t) = Range(s) \cup {x}
    <2>1. \A i \in 1..Len(t) : i \in 1..Len(s) \/ i = Len(t)
      BY <1>1
    <2>2. 1..Len(s) \subseteq 1..Len(t) /\ Len(t) \in 1..Len(t)
      BY <1>1
    <2>3. ASSUME NEW y \in Range(t) PROVE y \in Range(s) \cup {x}
      <3>1. PICK i \in 1..Len(t) : y = t[i]
        BY <1>1, RangeIs
      <3> QED BY <1>1, <2>1, <3>1, RangeIs
    <2>4. ASSUME NEW y \in Range(s) \cup {x} PROVE y \in Range(t)
      <3>1. CASE y = x
        BY <1>1, <2>2, <3>1, RangeIs
      <3>2. CASE y # x
        <4>1. PICK i \in 1..Len(s) : y = s[i]
          BY <3>2, RangeIs
        <4> QED BY <1>1, <2>2, <4>1, RangeIs
      <3> QED BY <3>1, <3>2
    <2> QED BY <2>3, <2>4
  <1>3. ASSUME Rising(s), 0 < x => \A y \in Range(s) : y < x PROVE Rising(t)
    <2> SUFFICES ASSUME NEW i \in 1..Len(t), NEW j \in 1..Len(t), i < j, 0 < t[i], 0 < t[j]
                 PROVE  t[i] < t[j]
      BY DEF Rising
    <2>1. i \in 1..Len(s) /\ t[i] = s[i] /\ (j \in 1..Len(s) \/ j = Len(t))
      BY <1>1
    <2>2. CASE j \in 1..Len(s)
      BY <1>1, <1>3, <2>1, <2>2 DEF Rising
    <2>3. CASE j = Len(t)
      <3>1. t[j] = x /\ s[i] \in Range(s)
        BY <1>1, <2>1, <2>3, RangeIs
      <3> QED BY <1>3, <2>1, <3>1
    <2> QED BY <2>1, <2>2, <2>3
  <1> QED BY <1>1, <1>2, <1>3 DEF t

-----------------------------------------------------------------------------
(* What a page misses.  Everything below is about executions in which none *)
(* of the five losses has occurred yet (lossy = {}).                       *)

Carried == WorkerEvents \cup {"none", "download.completed", "download.progress"}
Emits == [pc : {"idle", "record", "notify", "publish", "send"}, type : Carried,
          id : Nat, target : BOOLEAN]
Conns == [phase : {"none", "list", "replay", "live"}, rows : Seq(Nat), buf : Seq(Nat)]

Places ==
    /\ nextId \in Nat \ {0} /\ history \subseteq 1..(nextId - 1)
    /\ em \in [Emitters -> Emits] /\ conn \in Conns
    /\ last \in Nat /\ first \in Nat

\* The frame of id still reaches the queue of this connection.
On(e) == em[e].pc \in {"notify", "publish"} \/ (em[e].pc = "send" /\ em[e].target)
Coming(id) == \E e \in Emitters : em[e].id = id /\ On(e)

Queued == Range(conn.buf)
Unsent == Range(conn.rows)

\* The serial is ahead of every id in use, and an emission has a row of its own.
Numbered ==
    /\ last < nextId /\ (0 < first <=> 0 < last)
    /\ \A y \in Queued \cup Unsent : y < nextId
    /\ \A e \in Emitters : em[e].id < nextId
    /\ \A e \in Emitters : em[e].pc \in {"idle", "record"} => em[e].id = 0
    /\ \A e, o \in Emitters : 0 < em[e].id /\ e # o => em[e].id # em[o].id

Phased ==
    /\ conn.phase # "replay" => conn.rows = <<>>
    /\ conn.phase = "none" => conn.buf = <<>>
    /\ conn.phase \in {"list", "replay"} => 0 < last

\* No emission is overtaken: a frame that is being sent is the oldest of those
\* in flight, what is queued is older and in order, and every event newer than
\* one in flight is in flight too, before its Publish.
InTurn ==
    /\ \A e, o \in Emitters : em[e].pc = "send" /\ 0 < em[o].id => ~(em[o].id < em[e].id)
    /\ \A y \in Queued : \A e \in Emitters : 0 < y /\ 0 < em[e].id => y < em[e].id
    /\ Rising(conn.buf)
    /\ \A e \in Emitters : \A id \in history :
           0 < em[e].id /\ em[e].id < id
               => \E o \in Emitters : em[o].id = id /\ em[o].pc \in {"notify", "publish"}

\* The replay goes through the missed rows in order and leaves out only newer ones.
Replayed ==
    /\ Rising(conn.rows) /\ \A y \in Unsent : last < y
    /\ conn.phase = "replay" =>
           \A id \in history : last < id /\ id \notin Unsent => \A y \in Unsent : y < id

\* What the page has not seen yet after its last id is listed, queued or on its
\* way to the queue; so is everything newer than a queued frame.
Kept ==
    /\ conn.phase \in {"replay", "live"} /\ 0 < first =>
           \A id \in history :
               last < id /\ id \notin seen => id \in Unsent \/ id \in Queued \/ Coming(id)
    /\ \A y \in Queued : \A id \in history : 0 < y /\ y < id => id \in Queued \/ Coming(id)

\* The page never moves its last id past an event it has not seen.
Passed == \A id \in history : 0 < first /\ first < id => id \in seen \/ last < id

Clean == Numbered /\ Phased /\ InTurn /\ Replayed /\ Kept /\ Passed
Streams == Places /\ (lossy = {} => Clean)

-----------------------------------------------------------------------------

LEMMA NoFrames == Range(<<>>) = {} /\ Rising(<<>>) /\ <<>> \in Seq(Nat)
  BY DEF Range, Rising

LEMMA InitStreams == Init => Streams
  <1> SUFFICES ASSUME Init PROVE Streams
    OBVIOUS
  <1>1. Idle \in Emits
    BY DEF Idle, Emits, Carried
  <1>2. \A e \in Emitters : em[e] = Idle
    BY DEF Init
  <1>3. Places
    BY <1>1, NoFrames DEF Init, Places, NoConn, Conns
  <1>4. conn.rows = <<>> /\ conn.buf = <<>> /\ conn.phase = "none" /\ history = {} /\ last = 0
        /\ first = 0 /\ nextId = 1
    BY DEF Init, NoConn
  <1>5. \A e \in Emitters : em[e].id = 0 /\ em[e].pc = "idle"
    BY <1>2 DEF Idle
  <1>6. Clean
    BY <1>4, <1>5, NoFrames
    DEF Clean, Numbered, Phased, InTurn, Replayed, Kept, Passed, Queued, Unsent
  <1> QED BY <1>3, <1>6 DEF Streams

\* What an emission without a row does, and what only moves one on towards its
\* Publish: the streams do not notice.  Retention only removes rows.
LEMMA Aside ==
    ASSUME Places, Clean, UNCHANGED <<nextId, conn, last, first, seen>>,
           history' \subseteq history,
           \A e \in Emitters :
               /\ em'[e].id = em[e].id
               /\ em'[e].pc \in {"idle", "record"} => em[e].id = 0
               /\ em'[e].pc \in {"idle", "record", "notify", "publish", "send"}
               /\ 0 < em[e].id => /\ em'[e].pc = "send" <=> em[e].pc = "send"
                                  /\ em'[e].target = em[e].target
    PROVE  Clean'
  <1>1. Queued' = Queued /\ Unsent' = Unsent
    BY DEF Queued, Unsent
  <1>2. \A e \in Emitters : em[e].id \in Nat
    BY DEF Places, Emits
  <1>3. ASSUME NEW e \in Emitters, 0 < em[e].id
        PROVE  em'[e].pc \in {"notify", "publish"} <=> em[e].pc \in {"notify", "publish"}
    <2>1. em[e].pc \in {"idle", "record", "notify", "publish", "send"}
      BY DEF Places, Emits
    <2>2. em[e].pc \notin {"idle", "record"} /\ em'[e].pc \notin {"idle", "record"}
      BY <1>3 DEF Clean, Numbered
    <2> QED BY <1>3, <2>1, <2>2
  <1>4. \A id \in Nat \ {0} : Coming(id) => Coming(id)'
    BY <1>2, <1>3 DEF Coming, On
  <1>5. \A id \in history' : id \in history /\ id \in Nat \ {0}
    BY DEF Places
  <1>6. Numbered' /\ Phased'
    BY <1>1 DEF Clean, Numbered, Phased
  <1>7. InTurn'
    <2>1. ASSUME NEW e \in Emitters, NEW o \in Emitters, em'[e].pc = "send", 0 < em'[o].id
          PROVE  ~(em'[o].id < em'[e].id)
      <3>1. CASE em[e].id = 0
        BY <1>2, <2>1, <3>1
      <3>2. CASE 0 < em[e].id
        BY <2>1, <3>2 DEF Clean, InTurn
      <3> QED BY <1>2, <3>1, <3>2
    <2>2. ASSUME NEW e \in Emitters, NEW id \in history', 0 < em'[e].id, em'[e].id < id
          PROVE  \E o \in Emitters : em'[o].id = id /\ em'[o].pc \in {"notify", "publish"}
      <3>1. PICK o \in Emitters : em[o].id = id /\ em[o].pc \in {"notify", "publish"}
        BY <1>5, <2>2 DEF Clean, InTurn
      <3> QED BY <1>3, <1>5, <3>1
    <2> QED BY <1>1, <2>1, <2>2 DEF Clean, InTurn
  <1>8. Replayed' /\ Passed'
    BY <1>1, <1>5 DEF Clean, Replayed, Passed
  <1>9. Kept'
    BY <1>1, <1>4, <1>5 DEF Clean, Kept
  <1> QED BY <1>6, <1>7, <1>8, <1>9 DEF Clean

\* A row that is inserted is the newest one, and its frame is coming.
LEMMA Inserted ==
    ASSUME Places, Clean, NEW e \in Emitters, em[e].pc = "record", NEW n \in Nat \ {0},
           n = nextId, history' = history \cup {n}, nextId' = n + 1,
           em'[e].id = n, em'[e].pc \in {"notify", "publish"},
           \A o \in Emitters \ {e} : em'[o] = em[o],
           UNCHANGED <<conn, last, first, seen>>
    PROVE  Clean'
  <1>1. Queued' = Queued /\ Unsent' = Unsent
    BY DEF Queued, Unsent
  <1>3. /\ em'[e].id = n /\ em'[e].pc \in {"notify", "publish"}
        /\ \A o \in Emitters \ {e} : em'[o] = em[o]
    OBVIOUS
  <1>4. \A o \in Emitters : em[o].id \in Nat /\ em[o].id < n
    BY DEF Places, Emits, Clean, Numbered
  <1>5. \A o \in Emitters : o = e \/ em'[o] = em[o]
    BY <1>3
  <1>6. \A id \in history : id \in Nat /\ id < n
    BY DEF Places
  <1>7. last \in Nat /\ last < n /\ \A y \in Queued \cup Unsent : y \in Nat /\ y < n
    <2>1. \A y \in Queued \cup Unsent : y \in Nat
      BY RangeIs DEF Places, Conns, Queued, Unsent
    <2> QED BY <2>1 DEF Places, Clean, Numbered
  <1>8. Coming(n)' /\ \A id \in history : Coming(id) => Coming(id)'
    <2>1. Coming(n)'
      BY <1>3 DEF Coming, On
    <2>2. ASSUME NEW id \in history, Coming(id) PROVE Coming(id)'
      <3>1. PICK o \in Emitters : em[o].id = id /\ On(o)
        BY <2>2 DEF Coming
      <3>2. o # e
        BY <3>1 DEF On
      <3> QED BY <1>3, <3>1, <3>2 DEF Coming, On
    <2> QED BY <2>1, <2>2
  <1>9. Numbered'
    <2>1. \A o \in Emitters : em'[o].pc \in {"idle", "record"} => em'[o].id = 0
      BY <1>3 DEF Clean, Numbered
    <2>2. ASSUME NEW o \in Emitters PROVE em'[o].id < n + 1
      <3>1. em'[o].id = n \/ em'[o].id = em[o].id
        BY <1>3, <1>5
      <3> QED BY <1>4, <3>1
    <2>3. ASSUME NEW o \in Emitters, NEW p \in Emitters, 0 < em'[o].id, o # p
          PROVE  em'[o].id # em'[p].id
      <3>1. em[o].id < n /\ em[p].id < n /\ em[o].id \in Nat /\ em[p].id \in Nat
        BY <1>4
      <3>2. CASE o = e
        <4>1. em'[o].id = n /\ em'[p].id = em[p].id
          BY <1>3, <1>5, <2>3, <3>2
        <4> QED BY <3>1, <4>1
      <3>3. CASE p = e
        <4>1. em'[p].id = n /\ em'[o].id = em[o].id
          BY <1>3, <1>5, <2>3, <3>3
        <4> QED BY <3>1, <4>1
      <3>4. CASE o # e /\ p # e
        BY <1>5, <2>3, <3>4 DEF Clean, Numbered
      <3> QED BY <3>2, <3>3, <3>4
    <2>4. last < n + 1 /\ \A y \in Queued \cup Unsent : y < n + 1
      BY <1>7
    <2> QED BY <1>1, <2>1, <2>2, <2>3, <2>4 DEF Clean, Numbered
  <1>10. InTurn'
    <2>1. ASSUME NEW o \in Emitters, NEW p \in Emitters, em'[o].pc = "send", 0 < em'[p].id
          PROVE  ~(em'[p].id < em'[o].id)
      <3>1. o # e /\ em'[o] = em[o] /\ em[o].id < n /\ em[o].id \in Nat
        BY <1>3, <1>4, <1>5, <2>1
      <3>2. CASE p = e
        BY <1>3, <3>1, <3>2
      <3>3. CASE p # e
        BY <1>5, <2>1, <3>1, <3>3 DEF Clean, InTurn
      <3> QED BY <3>2, <3>3
    <2>2. ASSUME NEW y \in Queued, NEW o \in Emitters, 0 < y, 0 < em'[o].id PROVE y < em'[o].id
      <3>1. CASE o = e
        BY <1>3, <1>7, <3>1
      <3>2. CASE o # e
        BY <1>5, <2>2, <3>2 DEF Clean, InTurn
      <3> QED BY <3>1, <3>2
    <2>3. ASSUME NEW o \in Emitters, NEW id \in history \cup {n}, 0 < em'[o].id, em'[o].id < id
          PROVE  \E p \in Emitters : em'[p].id = id /\ em'[p].pc \in {"notify", "publish"}
      <3>1. CASE id = n
        BY <1>3, <3>1
      <3>2. CASE id # n
        <4>1. id \in history /\ id < n /\ id \in Nat
          BY <1>6, <3>2
        <4>2. o # e /\ em'[o] = em[o]
          <5>1. o = e => em'[o].id = n
            BY <1>3
          <5>2. o # e
            BY <2>3, <4>1, <5>1
          <5> QED BY <1>5, <5>2
        <4>3. PICK p \in Emitters : em[p].id = id /\ em[p].pc \in {"notify", "publish"}
          BY <2>3, <4>1, <4>2 DEF Clean, InTurn
        <4>4. CASE p = e
          BY <4>3, <4>4
        <4>5. CASE p # e
          BY <1>5, <4>3, <4>5
        <4> QED BY <4>4, <4>5
      <3> QED BY <3>1, <3>2
    <2>4. Rising(conn'.buf)
      BY DEF Clean, InTurn
    <2>5. \A o \in Emitters : \A id \in history \cup {n} :
              0 < em'[o].id /\ em'[o].id < id
                  => \E p \in Emitters : em'[p].id = id /\ em'[p].pc \in {"notify", "publish"}
      BY <2>3
    <2>6. \A o, p \in Emitters : em'[o].pc = "send" /\ 0 < em'[p].id => ~(em'[p].id < em'[o].id)
      BY <2>1
    <2>7. \A y \in Queued' : \A o \in Emitters : 0 < y /\ 0 < em'[o].id => y < em'[o].id
      BY <1>1, <2>2
    <2> QED BY <2>4, <2>5, <2>6, <2>7, Zenon DEF InTurn
  <1>11. Replayed' /\ Passed' /\ Phased'
    BY <1>1, <1>7 DEF Clean, Replayed, Passed, Phased
  <1>12. Kept'
    <2>1. ASSUME NEW id \in history', id \in history => id \in Unsent \/ id \in Queued \/ Coming(id)
          PROVE  id \in Unsent \/ id \in Queued \/ Coming(id)'
      BY <1>8, <2>1
    <2>2. ASSUME NEW y \in Queued, NEW id \in history', 0 < y, y < id
          PROVE  id \in Queued \/ Coming(id)'
      <3>1. CASE id = n
        BY <1>8, <3>1
      <3>2. CASE id \in history
        BY <1>8, <2>2, <3>2 DEF Clean, Kept
      <3> QED BY <3>1, <3>2
    <2> QED BY <1>1, <2>1, <2>2 DEF Clean, Kept
  <1> QED BY <1>9, <1>10, <1>11, <1>12 DEF Clean

LEMMA RecordStreams ==
    ASSUME Places, Clean, NEW e \in Emitters, Record(e), lossy' = {} PROVE Clean'
  <1>1. em[e].pc = "record" /\ UNCHANGED <<conn, last, first, seen>>
    BY DEF Record, page
  <1>2. CASE history' = history \cup {nextId} /\ nextId' = nextId + 1
             /\ em' = [em EXCEPT ![e].pc = AfterRecord(e), ![e].id = nextId]
    <2>1. PICK n \in Nat \ {0} : n = nextId
      BY DEF Places
    <2>2. /\ em'[e].id = n /\ em'[e].pc \in {"notify", "publish"}
          /\ \A o \in Emitters \ {e} : em'[o] = em[o]
      BY <1>2, <2>1 DEF Places, Emits, AfterRecord
    <2>3. history' = history \cup {n} /\ nextId' = n + 1
      BY <1>2, <2>1
    <2> QED BY <1>1, <2>1, <2>2, <2>3, Inserted
  <1>3. CASE em' = [em EXCEPT ![e].pc = AfterRecord(e)] /\ UNCHANGED <<history, nextId>>
    <2>1. /\ em'[e].id = em[e].id /\ em'[e].pc \in {"notify", "publish"}
          /\ \A o \in Emitters \ {e} : em'[o] = em[o]
      BY <1>3 DEF Places, Emits, AfterRecord
    <2>2. em[e].id = 0
      BY <1>1 DEF Clean, Numbered
    <2>3. \A o \in Emitters : em[o].pc \in {"idle", "record", "notify", "publish", "send"}
      BY DEF Places, Emits
    <2>4. \A o \in Emitters : em[o].pc \in {"idle", "record"} => em[o].id = 0
      BY DEF Clean, Numbered
    <2>5. \A o \in Emitters :
              /\ em'[o].id = em[o].id
              /\ em'[o].pc \in {"idle", "record"} => em[o].id = 0
              /\ em'[o].pc \in {"idle", "record", "notify", "publish", "send"}
              /\ 0 < em[o].id => /\ em'[o].pc = "send" <=> em[o].pc = "send"
                                 /\ em'[o].target = em[o].target
      BY <2>1, <2>2, <2>3, <2>4
    <2> QED BY <1>1, <1>3, <2>5, Aside
  <1> QED BY <1>2, <1>3 DEF Record

\* Publish: the connection subscribed now is the one the frame goes to.
LEMMA PublishStreams ==
    ASSUME Places, Clean, NEW e \in Emitters, Publish(e), lossy' = {} PROVE Clean'
  <1>1. em[e].pc = "publish" /\ UNCHANGED <<history, nextId, conn, last, first, seen>>
    BY DEF Publish, page
  <1>2. \A o \in Emitters : em[o].id \in Nat
    BY DEF Places, Emits
  <1>3. \A o \in Emitters : 0 < em[o].id => ~(em[o].id < em[e].id)
    <2>1. ~Overtakes(e)
      BY DEF Publish
    <2> QED BY <1>2, <2>1 DEF Overtakes
  <1>4. /\ em'[e].id = em[e].id /\ em'[e].pc = "send"
        /\ em'[e].target = Subscribed
        /\ \A o \in Emitters \ {e} : em'[o] = em[o]
    BY DEF Publish, Places, Emits
  <1>5. Queued' = Queued /\ Unsent' = Unsent
    BY <1>1 DEF Queued, Unsent
  <1>6. ASSUME conn.phase # "none", NEW id, Coming(id) PROVE Coming(id)'
    <2>1. PICK o \in Emitters : em[o].id = id /\ On(o)
      BY <1>6 DEF Coming
    <2> QED BY <1>1, <1>4, <1>6, <2>1 DEF Coming, On, Subscribed
  <1>7. Numbered' /\ Phased' /\ Replayed' /\ Passed'
    BY <1>1, <1>4, <1>5 DEF Clean, Numbered, Phased, Replayed, Passed
  <1>8. InTurn'
    <2>1. \A o, p \in Emitters : em'[o].pc = "send" /\ 0 < em'[p].id => ~(em'[p].id < em'[o].id)
      BY <1>3, <1>4 DEF Clean, InTurn
    <2>2. \A y \in Queued : \A o \in Emitters : 0 < y /\ 0 < em'[o].id => y < em'[o].id
      BY <1>4 DEF Clean, InTurn
    <2>3. ASSUME NEW o \in Emitters, NEW id \in history, 0 < em'[o].id, em'[o].id < id
          PROVE  \E p \in Emitters : em'[p].id = id /\ em'[p].pc \in {"notify", "publish"}
      <3>1. 0 < em[o].id /\ em[o].id < id
        BY <1>4, <2>3
      <3>2. PICK p \in Emitters : em[p].id = id /\ em[p].pc \in {"notify", "publish"}
        BY <3>1 DEF Clean, InTurn
      <3>3. p # e
        BY <1>3, <3>1, <3>2
      <3> QED BY <1>4, <3>2, <3>3
    <2> QED BY <1>1, <1>5, <2>1, <2>2, <2>3 DEF Clean, InTurn
  <1>9. Kept'
    <2>1. \A y \in Queued : conn.phase # "none"
      BY NoFrames DEF Clean, Phased, Queued
    <2> QED BY <1>1, <1>5, <1>6, <2>1 DEF Clean, Kept
  <1> QED BY <1>7, <1>8, <1>9 DEF Clean

\* Send: a frame that is not dropped is queued behind the older ones.
LEMMA SendStreams ==
    ASSUME Places, Clean, NEW e \in Emitters, Send(e), lossy' = {} PROVE Clean'
  <1> DEFINE new == em[e].id
             reaches == Subscribed /\ em[e].target
             full == Len(conn.buf) = Buffer
  <1>1. em[e].pc = "send" /\ UNCHANGED <<history, nextId, last, first, seen>>
    BY DEF Send, page
  <1>2. em'[e] = Idle /\ \A o \in Emitters \ {e} : em'[o] = em[o]
    BY DEF Send, Places
  <1>3. em'[e].id = 0 /\ em'[e].pc = "idle"
    BY <1>2 DEF Idle
  <1>4. \A o \in Emitters : em[o].id \in Nat /\ em[o].id < nextId
    BY DEF Places, Emits, Clean, Numbered
  <1>5. conn.buf \in Seq(Nat) /\ conn.rows \in Seq(Nat) /\ \A y \in Queued : y \in Nat
    BY RangeIs DEF Places, Conns, Queued
  <1>6. /\ conn'.rows = conn.rows /\ conn'.phase = conn.phase
        /\ conn'.buf = IF reaches /\ ~full THEN Append(conn.buf, new) ELSE conn.buf
    BY DEF Send, Places, Conns
  <1>7. Unsent' = Unsent
    BY <1>6 DEF Unsent
  <1>8. Queued \subseteq Queued' /\ Queued' \subseteq Queued \cup {new}
        /\ Rising(conn'.buf)
    <2>1. \A y \in Queued : 0 < y /\ 0 < new => y < new
      BY DEF Clean, InTurn
    <2>2. Range(Append(conn.buf, new)) = Queued \cup {new} /\ Rising(Append(conn.buf, new))
      <3>1. 0 < new => \A y \in Queued : y < new
        BY <1>4, <1>5, <2>1
      <3>2. new \in Nat /\ Rising(conn.buf)
        BY <1>4 DEF Clean, InTurn
      <3> HIDE DEF new
      <3> QED BY <1>5, <3>1, <3>2, Appended DEF Queued
    <2>3. Rising(conn.buf)
      BY DEF Clean, InTurn
    <2> QED BY <1>6, <2>2, <2>3 DEF Queued
  <1>9. ASSUME 0 < new, conn.phase # "none", On(e) PROVE new \in Queued'
    <2>1. reaches
      BY <1>1, <1>9 DEF On, Subscribed
    <2>2. ~full
      BY <1>9, <2>1 DEF Send
    <2>3. conn'.buf = Append(conn.buf, new)
      BY <1>6, <2>1, <2>2
    <2> QED BY <1>4, <1>5, <2>3, Appended DEF Queued
  <1>10. ASSUME NEW id \in history, Coming(id), conn.phase # "none"
         PROVE  id \in Queued' \/ Coming(id)'
    <2>1. PICK o \in Emitters : em[o].id = id /\ On(o)
      BY <1>10 DEF Coming
    <2>2. CASE o = e
      BY <1>9, <1>10, <2>1, <2>2 DEF Places
    <2>3. CASE o # e
      BY <1>2, <1>6, <2>1, <2>3 DEF Coming, On
    <2> QED BY <2>2, <2>3
  <1>11. \A y \in Queued' : conn.phase # "none"
    <2>1. CASE reaches
      BY <2>1 DEF Subscribed
    <2>2. CASE ~reaches
      BY <1>6, <2>2, NoFrames DEF Clean, Phased, Queued
    <2> QED BY <2>1, <2>2
  <1>12. Numbered'
    <2>1. \A y \in Queued' \cup Unsent : y < nextId
      BY <1>4, <1>8 DEF Clean, Numbered
    <2>2. \A o \in Emitters : em'[o].id < nextId
                              /\ (em'[o].pc \in {"idle", "record"} => em'[o].id = 0)
      BY <1>2, <1>3, <1>4 DEF Places, Clean, Numbered
    <2>3. \A o, p \in Emitters : 0 < em'[o].id /\ o # p => em'[o].id # em'[p].id
      BY <1>2, <1>3 DEF Clean, Numbered
    <2> QED BY <1>1, <1>7, <2>1, <2>2, <2>3 DEF Clean, Numbered
  <1>13. Phased'
    <2>1. conn.phase = "none" => conn'.buf = conn.buf
      BY <1>6 DEF Subscribed
    <2> QED BY <1>1, <1>6, <2>1 DEF Clean, Phased
  <1>14. InTurn'
    <2>1. \A o, p \in Emitters : em'[o].pc = "send" /\ 0 < em'[p].id => ~(em'[p].id < em'[o].id)
      BY <1>2, <1>3 DEF Clean, InTurn
    <2>2. ASSUME NEW y \in Queued', NEW o \in Emitters, 0 < y, 0 < em'[o].id PROVE y < em'[o].id
      <3>1. o # e /\ em'[o] = em[o]
        BY <1>2, <1>3, <2>2
      <3>2. CASE y \in Queued
        BY <2>2, <3>1, <3>2 DEF Clean, InTurn
      <3>3. CASE y = new
        <4>1. ~(em[o].id < new) /\ em[o].id # new
          BY <1>1, <2>2, <3>1, <3>3 DEF Clean, InTurn, Numbered
        <4> QED BY <1>4, <3>1, <3>3, <4>1
      <3> QED BY <1>8, <3>2, <3>3
    <2>3. ASSUME NEW o \in Emitters, NEW id \in history, 0 < em'[o].id, em'[o].id < id
          PROVE  \E p \in Emitters : em'[p].id = id /\ em'[p].pc \in {"notify", "publish"}
      <3>1. o # e /\ em'[o] = em[o]
        BY <1>2, <1>3, <2>3
      <3>2. PICK p \in Emitters : em[p].id = id /\ em[p].pc \in {"notify", "publish"}
        BY <2>3, <3>1 DEF Clean, InTurn
      <3>3. p # e
        BY <1>1, <3>2
      <3> QED BY <1>2, <3>2, <3>3
    <2> QED BY <1>1, <1>8, <2>1, <2>2, <2>3 DEF InTurn
  <1>15. Replayed' /\ Passed'
    BY <1>1, <1>6, <1>7 DEF Clean, Replayed, Passed
  <1>16. Kept'
    <2>1. ASSUME conn.phase \in {"replay", "live"}, 0 < first, NEW id \in history, last < id,
                 id \notin seen
          PROVE  id \in Unsent \/ id \in Queued' \/ Coming(id)'
      BY <1>8, <1>10, <2>1 DEF Clean, Kept
    <2>2. ASSUME NEW y \in Queued', NEW id \in history, 0 < y, y < id
          PROVE  id \in Queued' \/ Coming(id)'
      <3>1. CASE y \in Queued
        BY <1>8, <1>10, <1>11, <2>2, <3>1 DEF Clean, Kept
      <3>2. CASE y = new
        <4>1. PICK o \in Emitters : em[o].id = id /\ em[o].pc \in {"notify", "publish"}
          BY <2>2, <3>2 DEF Clean, InTurn
        <4>2. o # e
          BY <1>1, <4>1
        <4> QED BY <1>2, <4>1, <4>2 DEF Coming, On
      <3> QED BY <1>8, <3>1, <3>2
    <2> QED BY <1>1, <1>6, <1>7, <2>1, <2>2 DEF Kept
  <1> QED BY <1>12, <1>13, <1>14, <1>15, <1>16 DEF Clean

\* The publishers lose the subscriber: what they still send goes nowhere.
Astray == [e \in Emitters |-> [em[e] EXCEPT !.target = FALSE]]

\* A connection that begins or ends has nothing queued.
LEMMA Connects ==
    ASSUME Places, Clean, UNCHANGED <<nextId, last, first, seen>>, history' = history,
           em' \in {em, Astray, [e \in Emitters |-> Idle]},
           conn'.rows = <<>>, conn'.buf = <<>>,
           conn'.phase \in {"none", IF last > 0 THEN "list" ELSE "live"}
    PROVE  Clean'
  <1>1. Queued' = {} /\ Unsent' = {} /\ Rising(conn'.rows) /\ Rising(conn'.buf)
    BY NoFrames DEF Queued, Unsent
  <1>2. \A e \in Emitters : \/ em'[e].id = em[e].id /\ em'[e].pc = em[e].pc
                            \/ em'[e].id = 0 /\ em'[e].pc = "idle"
    BY DEF Idle, Astray, Places, Emits
  <1>3. nextId \in Nat \ {0} /\ last \in Nat /\ first \in Nat
    BY DEF Places
  <1>4. Numbered'
    <2>1. \A e, o \in Emitters : 0 < em'[e].id /\ e # o => em'[e].id # em'[o].id
      BY <1>2 DEF Clean, Numbered
    <2> QED BY <1>1, <1>2, <1>3, <2>1 DEF Clean, Numbered
  <1>5. Phased'
    BY <1>1 DEF Phased
  <1>6. InTurn'
    <2>1. CASE \A e \in Emitters : em'[e].id = em[e].id /\ em'[e].pc = em[e].pc
      BY <1>1, <2>1 DEF Clean, InTurn
    <2>2. CASE em' = [e \in Emitters |-> Idle]
      <3>1. \A e \in Emitters : em'[e].id = 0 /\ em'[e].pc = "idle"
        BY <2>2 DEF Idle
      <3> QED BY <1>1, <3>1 DEF InTurn
    <2> QED BY <2>1, <2>2 DEF Astray, Places, Emits
  <1>7. Replayed' /\ Passed'
    BY <1>1 DEF Clean, Replayed, Passed
  <1>8. Kept'
    <2>1. ~(conn'.phase \in {"replay", "live"} /\ 0 < first')
      BY <1>3 DEF Clean, Numbered
    <2> QED BY <1>1, <2>1 DEF Kept
  <1> QED BY <1>4, <1>5, <1>6, <1>7, <1>8 DEF Clean

\* What only the server's loop changes: the ids of the page, its queue, its rows.
LEMMA Emitting == ASSUME em' = em, NEW id PROVE Coming(id)' = Coming(id)
  BY DEF Coming, On

\* The rows of the replay: all that is missed.
LEMMA ListStreams == ASSUME Places, Clean, ListSince, lossy' = {} PROVE Clean'
  <1>1. UNCHANGED <<history, nextId, em, last, first, seen>> /\ conn.phase = "list"
    BY DEF ListSince, bus, page
  <1>2. /\ conn'.rows = Listed /\ conn'.phase = "replay" /\ conn'.buf = conn.buf
    BY DEF ListSince, Places, Conns
  <1>3. Missed \in SUBSET Nat /\ IsFiniteSet(Missed)
    <2>1. IsFiniteSet(1..(nextId - 1))
      <3>1. 1 \in Int /\ nextId - 1 \in Int
        BY DEF Places
      <3> QED BY <3>1, FS_Interval
    <2>2. Missed \subseteq 1..(nextId - 1)
      BY DEF Missed, Places
    <2>3. 1..(nextId - 1) \in SUBSET Nat
      BY DEF Places
    <2> QED BY <2>1, <2>2, <2>3, FS_Subset
  <1>4. Oldest(Missed, Limit) = Missed
    <2>1. ~(Cardinality(Missed) > Limit)
      BY DEF ListSince
    <2> QED BY <1>3, <2>1, FeedAssumption, AllListed DEF FeedAssumption
  <1>5. Unsent' = Missed /\ Rising(conn'.rows)
    BY <1>2, <1>3, <1>4, AscendingIs DEF Unsent, Listed
  <1>6. Queued' = Queued
    BY <1>2 DEF Queued
  <1>7. \A y \in Missed : y \in history /\ last < y /\ y < nextId
    BY DEF Missed, Places
  <1>8. Numbered' /\ Phased'
    BY <1>1, <1>2, <1>5, <1>6, <1>7 DEF Clean, Numbered, Phased
  <1>9. InTurn' /\ Passed'
    BY <1>1, <1>2, <1>6 DEF Clean, InTurn, Passed
  <1>10. Replayed'
    BY <1>1, <1>5, <1>7 DEF Replayed, Missed
  <1>11. Kept'
    <2>1. \A id \in history : last < id => id \in Missed
      BY DEF Missed
    <2> QED BY <1>1, <1>2, <1>5, <1>6, <2>1, Emitting DEF Clean, Kept
  <1> QED BY <1>8, <1>9, <1>10, <1>11 DEF Clean

\* onmessage.
LEMMA Received ==
    ASSUME Places, NEW y \in Nat \ {0}, Receive(y)
    PROVE  /\ last' = y /\ seen' = seen \cup {y} /\ 0 < first'
           /\ 0 < first => first' = first
           /\ ~(0 < first) => first' = y
  BY DEF Receive, Places

LEMMA ReplayStreams == ASSUME Places, Clean, Replay PROVE Clean'
  <1> DEFINE y == Head(conn.rows)
  <1>1. /\ UNCHANGED <<history, nextId, em>> /\ conn.phase = "replay" /\ conn.rows # <<>>
        /\ Receive(y)
    BY DEF Replay, bus
  <1>2. /\ conn'.rows = Tail(conn.rows) /\ conn'.phase = "replay" /\ conn'.buf = conn.buf
    BY <1>1 DEF Replay, Places, Conns
  <1>3. conn.rows \in Seq(Nat)
    BY DEF Places, Conns
  <1>4. /\ Unsent = Unsent' \cup {y} /\ y \in Nat /\ y \in Unsent
        /\ Rising(conn'.rows) /\ \A z \in Unsent' : z \in Nat /\ (0 < y /\ 0 < z => y < z)
    <2>1. Rising(conn.rows)
      BY DEF Clean, Replayed
    <2>2. Tail(conn.rows) \in Seq(Nat)
      BY <1>1, <1>3, HeadTail
    <2>3. \A z \in Range(Tail(conn.rows)) : z \in Nat
      BY <2>2, RangeIs
    <2> QED BY <1>1, <1>2, <1>3, <2>1, <2>3, HeadTail DEF Unsent
  <1>5. last \in Nat /\ last < y /\ 0 < last /\ 0 < first /\ y < nextId /\ nextId \in Nat
    BY <1>1, <1>4 DEF Places, Clean, Replayed, Phased, Numbered
  <1>6. last' = y /\ seen' = seen \cup {y} /\ first' = first
    BY <1>1, <1>4, <1>5, Received
  <1>7. \A z \in Unsent' : y < z /\ z \in Unsent
    <2>1. \A z \in Unsent' : last < z
      BY <1>4 DEF Clean, Replayed
    <2> QED BY <1>4, <1>5, <2>1
  <1>8. Queued' = Queued
    BY <1>2 DEF Queued
  <1>9. \A id \in history : id \in Nat
    BY DEF Places
  <1>10. \A id \in history : last < id /\ id \notin Unsent => y < id
    BY <1>1, <1>4 DEF Clean, Replayed
  <1>11. Numbered' /\ Phased'
    BY <1>1, <1>2, <1>4, <1>5, <1>6, <1>8 DEF Clean, Numbered, Phased
  <1>12. InTurn'
    BY <1>1, <1>2, <1>8 DEF Clean, InTurn
  <1>13. Replayed'
    <2>1. ASSUME NEW id \in history, y < id, id \notin Unsent' PROVE \A z \in Unsent' : z < id
      <3>1. last < id /\ id \notin Unsent
        BY <1>4, <1>5, <1>9, <2>1
      <3> QED BY <1>1, <1>7, <3>1 DEF Clean, Replayed
    <2> QED BY <1>1, <1>2, <1>4, <1>6, <1>7, <2>1 DEF Replayed
  <1>14. Passed'
    <2>1. ASSUME NEW id \in history, first < id, id \notin seen, id # y PROVE y < id
      <3>1. last < id
        BY <1>5, <2>1 DEF Clean, Passed
      <3> QED BY <1>4, <1>7, <1>10, <2>1, <3>1
    <2> QED BY <1>1, <1>6, <2>1 DEF Passed
  <1>15. Kept'
    <2>1. ASSUME NEW id \in history, y < id, id \notin seen
          PROVE  id \in Unsent' \/ id \in Queued \/ Coming(id)
      <3>1. last < id /\ id # y
        BY <1>4, <1>5, <1>9, <2>1
      <3> QED BY <1>1, <1>4, <1>5, <2>1, <3>1 DEF Clean, Kept
    <2> QED BY <1>1, <1>2, <1>6, <1>8, <2>1, Emitting DEF Clean, Kept
  <1> QED BY <1>11, <1>12, <1>13, <1>14, <1>15 DEF Clean

LEMMA GoLiveStreams == ASSUME Places, Clean, GoLive PROVE Clean'
  <1>1. /\ UNCHANGED <<history, nextId, em, last, first, seen>>
        /\ conn.phase = "replay" /\ conn.rows = <<>>
    BY DEF GoLive, bus, page
  <1>2. /\ conn'.rows = conn.rows /\ conn'.phase = "live" /\ conn'.buf = conn.buf
    BY <1>1 DEF GoLive, Places, Conns
  <1>3. Queued' = Queued /\ Unsent' = Unsent
    BY <1>2 DEF Queued, Unsent
  <1>4. Numbered' /\ Phased' /\ InTurn' /\ Replayed' /\ Passed'
    BY <1>1, <1>2, <1>3 DEF Clean, Numbered, Phased, InTurn, Replayed, Passed
  <1>5. Kept'
    BY <1>1, <1>2, <1>3, Emitting DEF Clean, Kept
  <1> QED BY <1>4, <1>5 DEF Clean

\* A live frame: it may be one the replay has shown already.
LEMMA LiveStreams == ASSUME Places, Clean, LiveFrame PROVE Clean'
  <1> DEFINE y == Head(conn.buf)
  <1>1. /\ UNCHANGED <<history, nextId, em>> /\ conn.phase = "live" /\ conn.buf # <<>>
        /\ Receive(y)
    BY DEF LiveFrame, bus
  <1>2. /\ conn'.rows = conn.rows /\ conn'.phase = "live" /\ conn'.buf = Tail(conn.buf)
    BY <1>1 DEF LiveFrame, Places, Conns
  <1>3. conn.buf \in Seq(Nat)
    BY DEF Places, Conns
  <1>4. /\ Queued = Queued' \cup {y} /\ y \in Nat /\ y \in Queued
        /\ Rising(conn'.buf) /\ \A z \in Queued' : z \in Nat /\ (0 < y /\ 0 < z => y < z)
    <2>1. Rising(conn.buf)
      BY DEF Clean, InTurn
    <2>2. Tail(conn.buf) \in Seq(Nat)
      BY <1>1, <1>3, HeadTail
    <2>3. \A z \in Range(Tail(conn.buf)) : z \in Nat
      BY <2>2, RangeIs
    <2> QED BY <1>1, <1>2, <1>3, <2>1, <2>3, HeadTail DEF Queued
  <1>5. Unsent = {} /\ Unsent' = {} /\ Rising(conn'.rows)
    BY <1>1, <1>2, NoFrames DEF Clean, Phased, Unsent
  <1>6. \A id \in history : id \in Nat /\ 0 < id
    BY DEF Places
  <1>7. \A e \in Emitters : em[e].id \in Nat
    BY DEF Places, Emits
  <1>8. y < nextId /\ last \in Nat /\ first \in Nat /\ nextId \in Nat
    BY <1>4 DEF Places, Clean, Numbered
  <1>9. \A w \in Queued' : \A id \in history :
            0 < w /\ w < id => id \in Queued' \/ Coming(id)
    <2> SUFFICES ASSUME NEW w \in Queued', NEW id \in history, 0 < w, w < id, id \notin Queued'
                 PROVE  Coming(id)
      OBVIOUS
    <2>1. id # y
      BY <1>4, <1>6
    <2> QED BY <1>4, <2>1 DEF Clean, Kept
  <1>10. InTurn' /\ Replayed' /\ Phased'
    BY <1>1, <1>2, <1>4, <1>5 DEF Clean, InTurn, Replayed, Phased
  <1>11. CASE y = 0
    <2>1. UNCHANGED <<last, first, seen>>
      BY <1>1, <1>11 DEF Receive
    <2>2. Numbered' /\ Passed'
      BY <1>1, <1>4, <1>5, <2>1 DEF Clean, Numbered, Passed
    <2>3. \A id \in history : id \in Queued => id \in Queued'
      BY <1>4, <1>6, <1>11
    <2>4. Kept'
      BY <1>1, <1>2, <1>5, <1>9, <2>1, <2>3, Emitting DEF Clean, Kept
    <2> QED BY <1>10, <2>2, <2>4 DEF Clean
  <1>12. CASE y # 0
    <2>1. /\ last' = y /\ seen' = seen \cup {y} /\ 0 < first'
          /\ 0 < first => first' = first
          /\ ~(0 < first) => first' = y
      BY <1>1, <1>4, <1>12, Received
    <2>2. Numbered'
      BY <1>1, <1>4, <1>5, <1>8, <1>12, <2>1 DEF Clean, Numbered
    <2>3. ASSUME NEW id \in history, first' < id, id \notin seen, id # y PROVE y < id
      <3>1. CASE ~(0 < first)
        BY <2>1, <2>3, <3>1
      <3>2. CASE 0 < first
        <4>1. last < id
          BY <2>1, <2>3, <3>2 DEF Clean, Passed
        <4>2. id \in Queued \/ Coming(id)
          BY <1>1, <1>5, <2>3, <3>2, <4>1 DEF Clean, Kept
        <4>3. CASE id \in Queued
          BY <1>4, <1>6, <1>12, <2>3, <4>3
        <4>4. CASE Coming(id)
          BY <1>4, <1>6, <1>12, <4>4 DEF Coming, Clean, InTurn
        <4> QED BY <4>2, <4>3, <4>4
      <3> QED BY <3>1, <3>2
    <2>4. Passed'
      BY <1>1, <2>1, <2>3 DEF Passed
    <2>5. ASSUME NEW id \in history, y < id PROVE id \in Queued' \/ Coming(id)
      BY <1>4, <1>6, <1>12, <2>5 DEF Clean, Kept
    <2>6. Kept'
      BY <1>1, <1>2, <1>5, <1>9, <2>1, <2>5, Emitting DEF Kept
    <2> QED BY <1>10, <2>2, <2>4, <2>6 DEF Clean
  <1> QED BY <1>11, <1>12

LEMMA Quiet ==
    ASSUME Streams, UNCHANGED <<nextId, conn, last, first, seen, lossy>>,
           em' \in [Emitters -> Emits], history' \subseteq history,
           Clean => \A e \in Emitters :
               /\ em'[e].id = em[e].id
               /\ em'[e].pc \in {"idle", "record"} => em[e].id = 0
               /\ 0 < em[e].id => /\ em'[e].pc = "send" <=> em[e].pc = "send"
                                  /\ em'[e].target = em[e].target
    PROVE  Streams'
  <1>1. Places'
    BY DEF Streams, Places
  <1>2. \A e \in Emitters : em'[e].pc \in {"idle", "record", "notify", "publish", "send"}
    BY DEF Emits
  <1>3. ASSUME Clean PROVE Clean'
    BY <1>2, <1>3, Aside DEF Streams
  <1> QED BY <1>1, <1>3 DEF Streams

LEMMA Stays ==
    ASSUME Streams, UNCHANGED <<history, nextId, em, conn, last, first, seen, lossy>>
    PROVE  Streams'
  <1>1. em' \in [Emitters -> Emits]
    BY DEF Streams, Places
  <1>2. Clean => \A e \in Emitters : em[e].pc \in {"idle", "record"} => em[e].id = 0
    BY DEF Clean, Numbered
  <1> QED BY <1>1, <1>2, Quiet

\* An event that begins has no id yet.
LEMMA Begins ==
    ASSUME Streams, NEW e \in Emitters, em[e].pc = "idle", NEW type \in Carried,
           em' = [em EXCEPT ![e] = Began(type)],
           UNCHANGED <<history, nextId, conn, last, first, seen, lossy>>
    PROVE  Streams'
  <1>1. /\ Began(type) \in Emits /\ Began(type).id = 0
        /\ Began(type).pc \in {"record", "notify", "publish"}
    BY DEF Began, Idle, Emits
  <1>2. em' \in [Emitters -> Emits] /\ em'[e] = Began(type) /\ \A o \in Emitters \ {e} : em'[o] = em[o]
    BY <1>1 DEF Streams, Places
  <1>3. ASSUME Clean, NEW o \in Emitters
        PROVE  /\ em'[o].id = em[o].id
               /\ em'[o].pc \in {"idle", "record"} => em[o].id = 0
               /\ 0 < em[o].id => /\ em'[o].pc = "send" <=> em[o].pc = "send"
                                  /\ em'[o].target = em[o].target
    <2>1. em[e].id = 0
      BY <1>3 DEF Clean, Numbered
    <2>2. CASE o = e
      BY <1>1, <1>2, <2>1, <2>2
    <2>3. CASE o # e
      BY <1>2, <1>3, <2>3 DEF Clean, Numbered
    <2> QED BY <2>2, <2>3
  <1> QED BY <1>2, <1>3, Quiet

LEMMA NotifyStreams == ASSUME Streams, NEW e \in Emitters, Notify(e) PROVE Streams'
  <1>1. em[e].pc = "notify" /\ UNCHANGED <<history, nextId, conn, last, first, seen, lossy>>
    BY DEF Notify, page
  <1>2. /\ em' \in [Emitters -> Emits] /\ em'[e].id = em[e].id /\ em'[e].pc = "publish"
        /\ em'[e].target = em[e].target /\ \A o \in Emitters \ {e} : em'[o] = em[o]
    BY DEF Notify, Streams, Places, Emits
  <1>3. ASSUME Clean, NEW o \in Emitters
        PROVE  /\ em'[o].id = em[o].id
               /\ em'[o].pc \in {"idle", "record"} => em[o].id = 0
               /\ 0 < em[o].id => /\ em'[o].pc = "send" <=> em[o].pc = "send"
                                  /\ em'[o].target = em[o].target
    <2>1. CASE o = e
      BY <1>1, <1>2, <2>1
    <2>2. CASE o # e
      BY <1>2, <1>3, <2>2 DEF Clean, Numbered
    <2> QED BY <2>1, <2>2
  <1> QED BY <1>1, <1>2, <1>3, Quiet

LEMMA EmissionStreams == ASSUME Streams, NEW e \in Emitters, Emission(e) PROVE Streams'
  <1>1. CASE Notify(e)
    BY <1>1, NotifyStreams
  <1>2. CASE Record(e)
    <2>1. Places'
      <3>1. AfterRecord(e) \in {"notify", "publish"}
        BY DEF AfterRecord
      <3>2. em' \in [Emitters -> Emits]
        BY <1>2, <3>1 DEF Record, Streams, Places, Emits
      <3> QED BY <1>2, <3>2 DEF Record, Streams, Places, page
    <2>2. ASSUME lossy' = {} PROVE Clean'
      <3>1. lossy = {}
        BY <1>2, <2>2 DEF Record
      <3> QED BY <1>2, <2>2, <3>1, RecordStreams DEF Streams
    <2> QED BY <2>1, <2>2 DEF Streams
  <1>3. CASE Publish(e)
    <2>1. Places'
      <3>1. em' \in [Emitters -> Emits]
        BY <1>3 DEF Publish, Subscribed, Streams, Places, Emits
      <3> QED BY <1>3, <3>1 DEF Publish, Streams, Places, page
    <2>2. ASSUME lossy' = {} PROVE Clean'
      <3>1. lossy = {}
        BY <1>3, <2>2 DEF Publish
      <3> QED BY <1>3, <2>2, <3>1, PublishStreams DEF Streams
    <2> QED BY <2>1, <2>2 DEF Streams
  <1>4. CASE Send(e)
    <2>1. Places'
      <3>1. em' \in [Emitters -> Emits]
        BY <1>4 DEF Send, Streams, Places, Emits, Idle, Carried
      <3>2. em[e].id \in Nat /\ conn \in Conns
        BY DEF Streams, Places, Emits
      <3>3. Append(conn.buf, em[e].id) \in Seq(Nat)
        BY <3>2, AppendProperties DEF Conns
      <3>4. conn' \in Conns
        BY <1>4, <3>2, <3>3 DEF Send, Conns
      <3> QED BY <1>4, <3>1, <3>4 DEF Send, Streams, Places, page
    <2>2. ASSUME lossy' = {} PROVE Clean'
      <3>1. lossy = {}
        BY <1>4, <2>2 DEF Send
      <3> QED BY <1>4, <2>2, <3>1, SendStreams DEF Streams
    <2> QED BY <2>1, <2>2 DEF Streams
  <1> QED BY <1>1, <1>2, <1>3, <1>4 DEF Emission

LEMMA ServerStreams == ASSUME Streams, Server PROVE Streams'
  <1>1. /\ conn.rows \in Seq(Nat) /\ conn.buf \in Seq(Nat) /\ conn \in Conns
        /\ em \in [Emitters -> Emits]
    BY DEF Streams, Places, Conns
  <1>2. CASE ListSince
    <2>1. Listed \in Seq(Nat)
      <3>1. Missed \in SUBSET Nat /\ IsFiniteSet(Missed)
        <4>1. IsFiniteSet(1..(nextId - 1))
          <5>1. 1 \in Int /\ nextId - 1 \in Int
            BY DEF Streams, Places
          <5> QED BY <5>1, FS_Interval
        <4>2. Missed \subseteq 1..(nextId - 1)
          BY DEF Missed, Streams, Places
        <4>3. 1..(nextId - 1) \in SUBSET Nat
          BY DEF Streams, Places
        <4> QED BY <4>1, <4>2, <4>3, FS_Subset
      <3>2. Oldest(Missed, Limit) \in SUBSET Nat /\ IsFiniteSet(Oldest(Missed, Limit))
        BY <3>1, OldestIs
      <3> QED BY <3>2, AscendingIs DEF Listed
    <2>2. conn' \in Conns
      BY <1>1, <1>2, <2>1 DEF ListSince, Conns
    <2>3. Places'
      BY <1>2, <2>2 DEF ListSince, Streams, Places, bus, page
    <2>4. lossy' = {} => lossy = {}
      BY <1>2 DEF ListSince
    <2> QED BY <1>2, <2>3, <2>4, ListStreams DEF Streams
  <1>3. CASE ListFails
    <2>1. conn' \in Conns
      BY <1>1, <1>3 DEF ListFails, Conns
    <2>2. Places' /\ lossy' # {}
      BY <1>3, <2>1 DEF ListFails, Streams, Places, bus, page
    <2> QED BY <2>2 DEF Streams
  <1>4. CASE Replay
    <2>1. Tail(conn.rows) \in Seq(Nat) /\ Head(conn.rows) \in Nat
      BY <1>1, <1>4, HeadTail DEF Replay
    <2>2. conn' \in Conns
      BY <1>1, <1>4, <2>1 DEF Replay, Conns
    <2>3. last' \in Nat /\ first' \in Nat
      BY <1>4, <2>1 DEF Replay, Receive, Streams, Places
    <2>4. Places' /\ lossy' = lossy
      BY <1>4, <2>2, <2>3 DEF Replay, Streams, Places, bus
    <2> QED BY <1>4, <2>4, ReplayStreams DEF Streams
  <1>5. CASE GoLive
    <2>1. conn' \in Conns
      BY <1>1, <1>5 DEF GoLive, Conns
    <2>2. Places' /\ lossy' = lossy
      BY <1>5, <2>1 DEF GoLive, Streams, Places, bus, page
    <2> QED BY <1>5, <2>2, GoLiveStreams DEF Streams
  <1>6. CASE LiveFrame
    <2>1. Tail(conn.buf) \in Seq(Nat) /\ Head(conn.buf) \in Nat
      BY <1>1, <1>6, HeadTail DEF LiveFrame
    <2>2. conn' \in Conns
      BY <1>1, <1>6, <2>1 DEF LiveFrame, Conns
    <2>3. last' \in Nat /\ first' \in Nat
      BY <1>6, <2>1 DEF LiveFrame, Receive, Streams, Places
    <2>4. Places' /\ lossy' = lossy
      BY <1>6, <2>2, <2>3 DEF LiveFrame, Streams, Places, bus
    <2> QED BY <1>6, <2>4, LiveStreams DEF Streams
  <1> QED BY <1>2, <1>3, <1>4, <1>5, <1>6 DEF Server

\* The stream of the page begins, breaks, or dies with the process.
LEMMA ConnStreams ==
    ASSUME Streams, UNCHANGED <<history, nextId, last, first, seen, lossy>>,
           em' \in {em, Astray, [e \in Emitters |-> Idle]}, conn' \in Conns,
           conn'.rows = <<>>, conn'.buf = <<>>,
           conn'.phase \in {"none", IF last > 0 THEN "list" ELSE "live"}
    PROVE  Streams'
  <1>1. em' \in [Emitters -> Emits]
    <2>1. em \in [Emitters -> Emits]
      BY DEF Streams, Places
    <2>2. Astray \in [Emitters -> Emits]
      BY <2>1 DEF Astray, Emits
    <2>3. Idle \in Emits
      BY DEF Idle, Emits, Carried
    <2> QED BY <2>1, <2>2, <2>3
  <1>2. Places'
    BY <1>1 DEF Streams, Places
  <1>3. ASSUME Clean PROVE Clean'
    BY <1>3, Connects DEF Streams
  <1> QED BY <1>2, <1>3 DEF Streams

LEMMA NewConn ==
    ASSUME NEW phase \in {"none", "list", "live"}
    PROVE  [phase |-> phase, rows |-> <<>>, buf |-> <<>>] \in Conns
  BY NoFrames DEF Conns

LEMMA BrowserStreams == ASSUME Streams, Browser PROVE Streams'
  <1>1. CASE Ticket \/ Refused
    <2>1. UNCHANGED <<history, nextId, em, conn, last, first, seen, lossy>>
      BY <1>1 DEF Ticket, Refused, bus
    <2> QED BY <2>1, Stays
  <1>2. CASE Stream
    <2>1. UNCHANGED <<history, nextId, em, last, first, seen, lossy>>
      BY <1>2 DEF Stream, bus
    <2>2. PICK phase \in {"list", "live"} : phase = IF last > 0 THEN "list" ELSE "live"
      OBVIOUS
    <2>3. conn' = [phase |-> phase, rows |-> <<>>, buf |-> <<>>]
      BY <1>2, <2>2 DEF Stream, NoConn
    <2>4. conn' \in Conns
      BY <2>2, <2>3, NewConn
    <2>5. conn'.rows = <<>> /\ conn'.buf = <<>> /\ conn'.phase = phase
      BY <2>3
    <2> QED BY <2>1, <2>2, <2>4, <2>5, ConnStreams
  <1>3. CASE Break
    <2>1. /\ UNCHANGED <<history, nextId, last, first, seen, lossy>>
          /\ em' = Astray /\ conn' = NoConn
      BY <1>3 DEF Break, Astray
    <2>2. conn' \in Conns
      BY <2>1, NewConn DEF NoConn
    <2>3. conn'.rows = <<>> /\ conn'.buf = <<>> /\ conn'.phase = "none"
      BY <2>1 DEF NoConn
    <2> QED BY <2>1, <2>2, <2>3, ConnStreams
  <1> QED BY <1>1, <1>2, <1>3 DEF Browser

LEMMA CheckOneStreams == ASSUME Streams, CheckOne PROVE Streams'
  <1>1. PICK t \in todo : Complete(t[1]) \/ MarkFails(t[1]) \/ Progress(t[1], t[2])
    BY DEF CheckOne
  <1>2. /\ UNCHANGED <<history, nextId, conn, last, first, seen, lossy>>
        /\ \/ em' = em
           \/ em' = [em EXCEPT ![Watcher] = Began("download.completed")]
           \/ em' = [em EXCEPT ![Watcher] = Began("download.progress")]
    BY <1>1 DEF Complete, MarkFails, Progress, page, bus
  <1>3. em[Watcher].pc = "idle" /\ Watcher \in Emitters
    BY DEF CheckOne, Emitters
  <1>4. "download.completed" \in Carried /\ "download.progress" \in Carried
    BY DEF Carried
  <1> QED BY <1>2, <1>3, <1>4, Stays, Begins

LEMMA NextStreams == Streams /\ [Next]_vars => Streams'
  <1> SUFFICES ASSUME Streams, [Next]_vars PROVE Streams'
    OBVIOUS
  <1> USE DEF bus, page
  <1>1. CASE \E w \in Workers, type \in WorkerEvents : EmitBegin(w, type)
    <2>1. PICK w \in Workers, type \in WorkerEvents : EmitBegin(w, type)
      BY <1>1
    <2>2. w \in Emitters /\ type \in Carried
      BY DEF Emitters, Carried
    <2> QED BY <2>1, <2>2, Begins DEF EmitBegin
  <1>2. CASE \E e \in Emitters : Emission(e)
    BY <1>2, EmissionStreams
  <1>3. CASE Prune
    <2>1. UNCHANGED <<nextId, em, conn, last, first, seen, lossy>> /\ history' \subseteq history
      BY <1>3 DEF Prune
    <2>2. em' \in [Emitters -> Emits]
      BY <2>1 DEF Streams, Places
    <2>3. Clean => \A e \in Emitters : em[e].pc \in {"idle", "record"} => em[e].id = 0
      BY DEF Clean, Numbered
    <2> QED BY <2>1, <2>2, <2>3, Quiet
  <1>4. CASE Server
    BY <1>4, ServerStreams
  <1>5. CASE Browser
    BY <1>5, BrowserStreams
  <1>6. CASE \E d \in Deliveries : Submit(d) \/ RemoveRow(d) \/ Age(d)
    BY <1>6, Stays DEF Submit, RemoveRow, Age
  <1>7. CASE (\E h \in Hashes : Download(h)) \/ LoseClient
    BY <1>7, Stays DEF Download, LoseClient
  <1>8. CASE Poll \/ PollFails
    BY <1>8, Stays DEF Poll, PollFails
  <1>9. CASE CheckOne
    BY <1>9, CheckOneStreams
  <1>10. CASE Crash
    <2>2. /\ UNCHANGED <<history, nextId, last, first, seen, lossy>> /\ conn' = NoConn
          /\ em' = [e \in Emitters |-> Idle]
      BY <1>10 DEF Crash
    <2>3. conn' \in Conns
      BY <2>2, NewConn DEF NoConn
    <2>4. conn'.rows = <<>> /\ conn'.buf = <<>> /\ conn'.phase = "none"
      BY <2>2 DEF NoConn
    <2> QED BY <2>2, <2>3, <2>4, ConnStreams
  <1>11. CASE UNCHANGED vars
    BY <1>11, Stays DEF vars
  <1> QED BY <1>1, <1>2, <1>3, <1>4, <1>5, <1>6, <1>7, <1>8, <1>9, <1>10, <1>11 DEF Next

\* While no queue was full, no replay was cut or failed, no emission was overtaken
\* and no id was lost with the answer to its INSERT, the page never moves its last id past an event it has not seen
\* (sse.Hub, handlers.SSE, useEventStream.ts).
THEOREM NothingIsMissed == Spec => []NothingMissed
  <1>1. Streams => NothingMissed
    BY DEF Streams, Clean, Passed, NothingMissed, Places
  <1> QED BY <1>1, InitStreams, NextStreams, PTL DEF Spec
=============================================================================
