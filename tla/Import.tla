------------------------------- MODULE Import -------------------------------
(***************************************************************************)
(* Topics made from what Sonarr grabbed.                                   *)
(*                                                                         *)
(*   sonarr.Poller        one goroutine: list, fetch since the cursor,     *)
(*                        create or update one topic per URL, move the     *)
(*                        cursor                                           *)
(*   topics.BuildAndCreate  the one way a topic comes into being, from the *)
(*                        poller and from POST /topics                     *)
(*   handlers.Topics      PUT and DELETE of the same topics by their owner *)
(*   handlers.Sonarr      the administrator's edits of the instance        *)
(*                                                                         *)
(* One instance and one owner; of the instance's URL and API key there is  *)
(* whether they are set.  A grab is its history id, an index of grabs; its *)
(* URL may be on a mirror of the page another grab names.  Of a topic      *)
(* there are the columns the poller writes: the update policy, the client  *)
(* and, in extra, who made the topic and, key by key, whose release title  *)
(* and whose info hash it has.                                             *)
(***************************************************************************)
EXTENDS Integers, Sequences, SequencesExt, FiniteSets, FiniteSetsExt

CONSTANTS
    Urls,        \* nzbInfoUrl values Sonarr reports
    PageOf,      \* the canonical topic URL of each
    Gives,       \* which of the keys of extra a grab of each may come with
    Trackers,    \* the trackers the program has plugins for
    TrackerOf,   \* the tracker whose plugin matches each, or None
    Clients,     \* torrent clients of the owner
    None,        \* nil, NULL, "no such row"
    Forms,       \* what administrators save: instances without a cursor
    Defaults,    \* the replace defaults in force: [replace, delete]
    Requests,    \* the bodies of the owner's PUT and POST
    MaxGrabs,    \* bound: history records
    MaxOps,      \* bound: operations of the owner and the administrator
    MaxFaults    \* bound: failed calls and crashes

Pages == {PageOf[u] : u \in Urls}

\* TopicExtraSonarrSourceTitle and TopicExtraSonarrInfoHash.  A value is the grab
\* it came with, 0 where there is none.
Keys == {"title", "hash"}

PolicyType == [replace : BOOLEAN, delete : BOOLEAN, only : BOOLEAN, folder : BOOLEAN]
FormType == [enabled : BOOLEAN, url : BOOLEAN, key : BOOLEAN, allowed : SUBSET Trackers,
             update : BOOLEAN, client : Clients \cup {None}]
InstanceType == [enabled : BOOLEAN, url : BOOLEAN, key : BOOLEAN, allowed : SUBSET Trackers,
                 update : BOOLEAN, client : Clients \cup {None},
                 id : Nat, cursor : Nat \cup {None}]
TopicType == [id : Nat, policy : PolicyType, client : Clients \cup {None},
              source : {"user", "sonarr"}, variant : [Keys -> Nat]]

ASSUME ImportAssumption ==
    /\ MaxGrabs \in Nat /\ MaxOps \in Nat /\ MaxFaults \in Nat
    /\ DOMAIN PageOf = Urls /\ TrackerOf \in [Urls -> Trackers \cup {None}]
    /\ Gives \in [Urls -> SUBSET (SUBSET Keys)]
    /\ Forms \subseteq FormType
    /\ Defaults \subseteq [replace : BOOLEAN, delete : BOOLEAN] /\ Defaults # {}
    /\ \A request \in Requests :
          /\ request.client \in Clients \cup {None}
          /\ \A flag \in DOMAIN request \ {"client"} : request[flag] \in BOOLEAN

ASSUME NoneAssumption ==
    /\ None \notin Trackers \cup Clients \cup Pages \cup Nat \cup BOOLEAN
    /\ None \notin InstanceType /\ None \notin TopicType

VARIABLES
    now,        \* the clock
    grabs,      \* Sonarr's history: <<[url, date, gives], ...>>, by id
    inst,       \* the sonarr_instances row, or None
    topics,     \* the owner's topic of each page, or None
    nextId,     \* the id of the next topic or instance row
    poll,       \* the poller's local state
    edit,       \* a PUT between its read and its write
    owed,       \* ghost: grabs dated after the cursor when they were made
    outcome,    \* ghost: what became of each grab: "none", "skip", "done", "lost"
    torn,       \* ghost: pages a write changed from a row that was stale
    ops, faults

human == <<edit, ops>>
ghost == <<owed, outcome, torn>>
vars == <<now, grabs, inst, topics, nextId, poll, human, ghost, faults>>

Grabs == 1..Len(grabs)
Idle == [pc |-> "idle", inst |-> None, todo |-> <<>>, max |-> 0, seen |-> None]
NoEdit == [page |-> None, seen |-> None, request |-> None]

Init ==
    /\ now = 1 /\ grabs = <<>>
    /\ inst = None
    /\ topics = [p \in Pages |-> None]
    /\ nextId = 1
    /\ poll = Idle /\ edit = NoEdit
    /\ owed = {} /\ outcome = <<>> /\ torn = {}
    /\ ops = 0 /\ faults = 0

Operation == ops < MaxOps /\ ops' = ops + 1
Fault == faults < MaxFaults /\ faults' = faults + 1
NoFault == UNCHANGED faults

-----------------------------------------------------------------------------
(* Topics.                                                                 *)

ValidUpdatePolicy(policy) ==
    policy.replace /\ policy.delete => ~policy.only /\ ~policy.folder

\* The policy of a new topic.  A default to delete is inherited only where that
\* is legal: it must never be the reason a topic is refused.
Policy(request, inherited) ==
    LET Given(flag, other) == IF flag \in DOMAIN request THEN request[flag] ELSE other
        only   == Given("only", FALSE)
        folder == Given("folder", FALSE)
    IN  [replace |-> Given("replace", inherited.replace), only |-> only, folder |-> folder,
         delete  |-> Given("delete", inherited.delete /\ ~only /\ ~folder)]

NoVariant == [key \in Keys |-> 0]

\* sonarrTopicExtra and mergeSonarrTopicExtra: what the grab comes with replaces
\* what was there, key by key; an empty value leaves the older one.
Merged(variant, i) == [key \in Keys |-> IF key \in grabs[i].gives THEN i ELSE variant[key]]

\* The INSERT: the row of a page that has one stays (unique on user and url).
Inserted(page, policy, client, source, variant) ==
    IF topics[page] # None THEN UNCHANGED <<topics, nextId>>
    ELSE /\ topics' = [topics EXCEPT ![page] =
                [id |-> nextId, policy |-> policy, client |-> client,
                 source |-> source, variant |-> variant]]
         /\ nextId' = nextId + 1

\* repo.Topics.Update with the flags and the extra of the row the caller read;
\* folder None leaves that column alone.  A row that is gone is not found.
Found(page, read) == topics[page] # None /\ topics[page].id = read.id

\* Mutant: the folder setting goes with the flags.
UpdateAll(page, read, policy, folder, client, variant) ==
    /\ topics' = [topics EXCEPT ![page] =
           [@ EXCEPT !.policy = policy, !.client = client, !.source = read.source,
                     !.variant = variant]]
    /\ torn' = IF topics[page] # read THEN torn \cup {page} ELSE torn

Update(page, read, policy, folder, client, variant) ==
    /\ topics' = [topics EXCEPT ![page] =
           [@ EXCEPT !.policy = [policy EXCEPT !.folder = IF folder = None THEN topics[page].policy.folder
                                                          ELSE folder],
                     !.client = client, !.source = read.source, !.variant = variant]]
    /\ torn' = IF topics[page] # read THEN torn \cup {page} ELSE torn

-----------------------------------------------------------------------------
(* Sonarr.                                                                 *)

Cursor == IF inst = None THEN None ELSE inst.cursor

\* The newest date the poller has read: a later record with that same date is
\* never returned, the query's window is strictly after the cursor.
Horizon == IF poll.max > Cursor THEN poll.max ELSE Cursor

\* A grab is recorded.  A season pack is recorded once per episode: the date of
\* the next record may be the same.
Grab(url, date, gives) ==
    /\ Len(grabs) < MaxGrabs
    /\ now' = date
    /\ grabs' = Append(grabs, [url |-> url, date |-> date, gives |-> gives])
    /\ outcome' = Append(outcome, "none")
    /\ owed' = IF Cursor # None /\ date > Horizon THEN owed \cup {Len(grabs) + 1} ELSE owed
    /\ UNCHANGED <<inst, topics, nextId, poll, human, torn, faults>>

-----------------------------------------------------------------------------
(* The administrator.                                                      *)

\* decodeInstance: only an instance that is off may do without a URL.
Accepts(form) == form.enabled => form.url

InstanceRow(form, key, id, cursor) ==
    [enabled |-> form.enabled, url |-> form.url, key |-> key, allowed |-> form.allowed,
     update |-> form.update, client |-> form.client, id |-> id, cursor |-> cursor]

CreatedRow(form) == InstanceRow(form, form.key, nextId, None)

\* Every column but the cursor and the owner; an empty API key keeps the stored one.
UpdatedRow(row, form) == InstanceRow(form, form.key \/ row.key, row.id, row.cursor)

CreateInstance(form) ==
    /\ Operation /\ inst = None /\ Accepts(form)
    /\ inst' = CreatedRow(form)
    /\ nextId' = nextId + 1
    /\ UNCHANGED <<now, grabs, topics, poll, edit, ghost, faults>>

UpdateInstance(form) ==
    /\ Operation /\ inst # None /\ Accepts(form)
    /\ inst' = UpdatedRow(inst, form)
    /\ UNCHANGED <<now, grabs, topics, nextId, poll, edit, ghost, faults>>

DeleteInstance ==
    /\ Operation /\ inst # None
    /\ inst' = None
    /\ owed' = {}
    /\ UNCHANGED <<now, grabs, topics, nextId, poll, edit, outcome, torn, faults>>

-----------------------------------------------------------------------------
(* The owner.                                                              *)

\* POST /topics.
CreateTopic(page, request) ==
    /\ Operation
    /\ \E inherited \in Defaults :
          LET policy == Policy(request, inherited)
          IN  /\ ValidUpdatePolicy(policy)
              /\ Inserted(page, policy, request.client, "user", NoVariant)
    /\ UNCHANGED <<now, grabs, inst, poll, edit, ghost, faults>>

\* PUT /topics/{id}: GetByID, and later one UPDATE.
EditRead(page, request) ==
    /\ Operation /\ edit = NoEdit /\ topics[page] # None
    /\ edit' = [page |-> page, seen |-> topics[page], request |-> request]
    /\ UNCHANGED <<now, grabs, inst, topics, nextId, poll, ghost, faults>>

\* A field the request leaves out keeps the value that was read.
Edited(read, request) ==
    [field \in DOMAIN read.policy |->
        IF field \in DOMAIN request THEN request[field] ELSE read.policy[field]]

EditWrite ==
    LET read == edit.seen
        request == edit.request
        policy == Edited(read, request)
        folder == IF "folder" \in DOMAIN request THEN request.folder ELSE None
    IN  /\ edit # NoEdit
        /\ edit' = NoEdit
        /\ IF ValidUpdatePolicy(policy) /\ Found(edit.page, read)
           THEN Update(edit.page, read, policy, folder, request.client, read.variant)
           ELSE UNCHANGED <<topics, torn>>
        /\ UNCHANGED <<now, grabs, inst, nextId, poll, owed, outcome, ops, faults>>

DeleteTopic(page) ==
    /\ Operation /\ topics[page] # None
    /\ topics' = [topics EXCEPT ![page] = None]
    /\ torn' = torn \ {page}
    /\ UNCHANGED <<now, grabs, inst, nextId, poll, edit, owed, outcome, faults>>

-----------------------------------------------------------------------------
(* The poller.                                                             *)

Running == inst # None /\ inst.enabled /\ inst.url /\ inst.key

\* One tick: the enabled instances are listed, and one that is due is polled if
\* it has a URL, a key and an owner.  When it is due is left open.
Tick ==
    /\ poll = Idle
    /\ Running
    /\ poll' = [Idle EXCEPT !.pc = IF inst.cursor = None THEN "stamp" ELSE "fetch", !.inst = inst]
    /\ UNCHANGED <<now, grabs, inst, topics, nextId, human, ghost, faults>>

\* UpdateCursor, by id: an instance that is gone is not an error.
UpdateCursor(date) ==
    inst' = IF inst # None /\ inst.id = poll.inst.id THEN [inst EXCEPT !.cursor = date]
            ELSE inst

\* The first poll imports nothing: the cursor starts at the present.
Stamp ==
    /\ poll.pc = "stamp"
    /\ poll' = Idle
    /\ \/ NoFault /\ UpdateCursor(now)
       \/ Fault /\ UNCHANGED inst
    /\ UNCHANGED <<now, grabs, topics, nextId, human, ghost>>

Newer(i, j) == grabs[i].date > grabs[j].date \/ (grabs[i].date = grabs[j].date /\ i > j)

\* Mutant: a capped walk from the newest record down.
SinceNewest(cursor) == {i \in Grabs : grabs[i].date > cursor /\ i = Len(grabs)}

\* GrabHistorySince: strictly newer than the cursor.
Since(cursor) == {i \in Grabs : grabs[i].date > cursor}

Latest(batch) == {i \in batch : \A j \in batch : grabs[i].url = grabs[j].url => ~Newer(j, i)}

OldestFirst(ids) ==
    CHOOSE s \in [1..Cardinality(ids) -> ids] : \A a, b \in DOMAIN s : a < b => Newer(s[b], s[a])

\* Mutant: the newest record of all comes first.
Unordered(batch) == Reverse(OldestFirst(Latest(batch)))

\* One record per URL, the newest, oldest first.
LatestByURL(batch) == OldestFirst(Latest(batch))

\* Mutant: the cursor moves when the records arrive.
FetchAndAdvance ==
    /\ poll.pc = "fetch"
    /\ LET batch == Since(poll.inst.cursor)
           max == Max({0} \cup {grabs[i].date : i \in batch})
       IN  /\ poll' = [poll EXCEPT !.pc = "process", !.todo = LatestByURL(batch), !.max = max]
           /\ IF max > poll.inst.cursor THEN UpdateCursor(max) ELSE UNCHANGED inst
    /\ UNCHANGED <<now, grabs, topics, nextId, human, ghost, faults>>

\* The whole window in one answer; max is the newest date of every record.
Fetch ==
    /\ poll.pc = "fetch"
    /\ LET batch == Since(poll.inst.cursor)
       IN  poll' = [poll EXCEPT !.pc = "process", !.todo = LatestByURL(batch),
                                !.max = Max({0} \cup {grabs[i].date : i \in batch})]
    /\ UNCHANGED <<now, grabs, inst, topics, nextId, human, ghost, faults>>

\* The request fails: the cursor stays.
FetchFails ==
    /\ poll.pc = "fetch" /\ Fault
    /\ poll' = Idle
    /\ UNCHANGED <<now, grabs, inst, topics, nextId, human, ghost>>

Rec == Head(poll.todo)
Page == PageOf[grabs[Rec].url]
Processing == poll.pc = "process" /\ poll.todo # <<>>

\* Done with one record.
Leave(result) ==
    /\ outcome' = [outcome EXCEPT ![Rec] = result]
    /\ poll' = [poll EXCEPT !.pc = "process", !.todo = Tail(@), !.seen = None]

Goto(pc, seen) == poll' = [poll EXCEPT !.pc = pc, !.seen = seen] /\ UNCHANGED outcome

Allowed == poll.inst.allowed = {} \/ TrackerOf[grabs[Rec].url] \in poll.inst.allowed

\* No plugin matches the URL, or the instance does not import from its tracker.
Skip ==
    /\ Processing
    /\ TrackerOf[grabs[Rec].url] = None \/ ~Allowed
    /\ Leave("skip")
    /\ UNCHANGED <<now, grabs, inst, topics, nextId, human, owed, torn, faults>>

\* handleExisting writes only when the variant changes or defaults are realigned.
VariantChanged(topic) == topic.source = "sonarr" /\ Merged(topic.variant, Rec) # topic.variant
Realigned(topic) == poll.inst.update /\ topic.client # poll.inst.client

\* GetByURL with the canonical URL.
Lookup ==
    /\ Processing
    /\ TrackerOf[grabs[Rec].url] # None /\ Allowed
    /\ \/ /\ NoFault
          /\ LET topic == topics[Page]
             IN  IF topic = None THEN Goto("create", None)
                 ELSE IF VariantChanged(topic) \/ Realigned(topic) THEN Goto("update", topic)
                 ELSE Leave("done")
       \/ /\ Fault
          /\ Leave("lost")
    /\ UNCHANGED <<now, grabs, inst, topics, nextId, human, owed, torn>>

\* BuildAndCreate: the plugin parses the URL and reads the title from the page,
\* as the owner, before the row is inserted.  Of a page that has a topic by now
\* that topic stays as it is.
BuildAndCreate ==
    /\ poll.pc = "create"
    /\ \/ /\ NoFault
          /\ \E inherited \in Defaults :
                Inserted(Page, Policy(<<>>, inherited),
                         poll.inst.client, "sonarr", Merged(NoVariant, Rec))
          /\ Leave("done")
       \/ /\ Fault
          /\ UNCHANGED <<topics, nextId>>
          /\ Leave("lost")
    /\ UNCHANGED <<now, grabs, inst, human, owed, torn>>

\* The update writes what was read, but for the variant and the client.
HandleExisting ==
    LET read == poll.seen
        variant == IF read.source = "sonarr" THEN Merged(read.variant, Rec) ELSE read.variant
        client == IF poll.inst.update THEN poll.inst.client ELSE read.client
    IN  /\ poll.pc = "update"
        /\ \/ /\ NoFault
              /\ IF Found(Page, read)
                 THEN Update(Page, read, read.policy, None, client, variant) /\ Leave("done")
                 ELSE UNCHANGED <<topics, torn>> /\ Leave("lost")
           \/ /\ Fault
              /\ UNCHANGED <<topics, torn>>
              /\ Leave("lost")
        /\ UNCHANGED <<now, grabs, inst, nextId, human, owed>>

\* The end of pollOnce.  If the statement fails the window is processed again.
Advance ==
    /\ poll.pc = "process" /\ poll.todo = <<>>
    /\ poll' = Idle
    /\ IF poll.max > poll.inst.cursor
       THEN \/ NoFault /\ UpdateCursor(poll.max)
            \/ Fault /\ UNCHANGED inst
       ELSE NoFault /\ UNCHANGED inst
    /\ UNCHANGED <<now, grabs, topics, nextId, human, ghost>>

\* The process dies in the middle of a poll or of a PUT.
Crash ==
    /\ poll # Idle \/ edit # NoEdit
    /\ Fault
    /\ poll' = Idle /\ edit' = NoEdit
    /\ UNCHANGED <<now, grabs, inst, topics, nextId, ops, ghost>>

PollSteps == Stamp \/ Fetch \/ FetchFails \/ Skip \/ Lookup \/ BuildAndCreate
             \/ HandleExisting \/ Advance

Next ==
    \/ \E url \in Urls, date \in {now, now + 1} : \E gives \in Gives[url] : Grab(url, date, gives)
    \/ \E form \in Forms : CreateInstance(form) \/ UpdateInstance(form)
    \/ DeleteInstance
    \/ \E page \in Pages, request \in Requests : CreateTopic(page, request) \/ EditRead(page, request)
    \/ \E page \in Pages : DeleteTopic(page)
    \/ EditWrite
    \/ Tick
    \/ PollSteps
    \/ Crash

Spec == Init /\ [][Next]_vars

\* The ticker fires and the poll goroutine runs.
LiveSpec == Spec /\ WF_vars(Tick) /\ WF_vars(PollSteps)
-----------------------------------------------------------------------------
(* Properties.                                                             *)

PollType == [pc : {"idle", "stamp", "fetch", "process", "create", "update"},
             inst : InstanceType \cup {None}, todo : Seq(Nat), max : Nat,
             seen : TopicType \cup {None}]
EditType == [page : Pages, seen : TopicType, request : Requests]

\* The types of the variables.
TypeOK ==
    /\ now \in Nat \ {0} /\ nextId \in Nat \ {0}
    /\ grabs \in Seq([url : Urls, date : Nat, gives : SUBSET Keys]) /\ Len(grabs) <= MaxGrabs
    /\ \A i \in Grabs : grabs[i].date <= now
    /\ inst \in InstanceType \cup {None} /\ topics \in [Pages -> TopicType \cup {None}]
    /\ poll \in PollType /\ edit \in EditType \cup {NoEdit}
    /\ poll.inst = None <=> poll.pc = "idle"
    /\ poll.seen = None <=> poll.pc # "update"
    /\ poll.pc \in {"create", "update"} => poll.todo # <<>>
    /\ Range(poll.todo) \subseteq Grabs /\ owed \subseteq Grabs /\ torn \subseteq Pages
    /\ outcome \in Seq({"none", "skip", "done", "lost"}) /\ Len(outcome) = Len(grabs)
    /\ ops \in 0..MaxOps /\ faults \in 0..MaxFaults

Passed(i) == Cursor # None /\ grabs[i].date <= Cursor

\* Handled itself, or through a newer record with the same URL.
Handled(i) == \E j \in Grabs : grabs[j].url = grabs[i].url /\ ~Newer(i, j) /\ outcome[j] # "none"

\* The cursor never passes a grab the poller has not handled: not when the poll
\* dies between the fetch and the end, when a statement fails, or when a record
\* arrives while an older window is being processed.
PassedIsHandled == \A i \in owed : Passed(i) => Handled(i)

CameToNothing(i) == outcome[i] \in {"skip", "lost"}

\* "retain the newest grab so a later quality/codec grab for the same AniLiberty
\* release becomes the monitored variant" (processRecords): a topic the poller made
\* has the title and the info hash of the newest grab of its page that was applied,
\* over all the mirrors the grabs came from, as soon as the cursor is past it.  A
\* window that is processed again may set an older one only for the time being,
\* unless by then a newer grab comes to nothing or comes without that key: a newer
\* grab without a hash leaves an older one, which is then the one AniLiberty's
\* torrent is looked for by.  A page written from a stale read is left out.
NewestVariant ==
    \A p \in Pages \ torn : topics[p] # None /\ topics[p].source = "sonarr" =>
        \A i \in owed : PageOf[grabs[i].url] = p /\ outcome[i] = "done" /\ Passed(i) =>
            \A key \in grabs[i].gives :
                LET from == topics[p].variant[key]
                IN  \/ from # 0 /\ (from = i \/ Newer(from, i))
                    \/ \E j \in Grabs : /\ PageOf[grabs[j].url] = p /\ Newer(j, i)
                                        /\ CameToNothing(j) \/ key \notin grabs[j].gives

\* "the Sonarr poller must not write back a setting it read before a user's edit"
\* (repo.Topics.Update): however old the row it read, the poller leaves the folder
\* setting of a topic as its owner saved it last.
FolderIsTheUsers ==
    [][\A p \in Pages : poll # poll' /\ topics[p] # None /\ topics'[p] # None
            => topics'[p].policy.folder = topics[p].policy.folder]_vars

\* While the instance is enabled every grab it owes a topic for is handled in the
\* end, over failed fetches, failed cursor updates and restarts.
EventuallyImported ==
    \A i \in 1..MaxGrabs :
        i \in owed /\ Running ~> (i \in Grabs /\ Handled(i)) \/ ~Running \/ i \notin owed
=============================================================================
