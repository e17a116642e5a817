------------------------------ MODULE Sessions ------------------------------
(***************************************************************************)
(* The account of one user on one tracker: the stored credential, the      *)
(* session that all checks of the user's topics share, and the slot that   *)
(* serialises who signs in (trackercreds, captchalogin, the credential     *)
(* handlers, scheduler.loadCredentials).  Workers check one topic each;    *)
(* the user creates, edits, tests and re-authenticates the credential.     *)
(* A check goes on to read the topic page and download with the session.   *)
(***************************************************************************)
EXTENDS TrackerSite, Sequences, FiniteSetsExt

CONSTANTS
    Workers, User,  \* the processes
    Accounts,       \* tracker accounts; an account's password is itself
    MaxSession,     \* bound: sessions remembered at the same time
    MaxRelease,     \* bound: releases of a topic
    Content,        \* Content[r]: what the cells say of release r
    MaxFaults,      \* bound: disturbances in a behaviour
    Scenarios,      \* [kind, row, jar, on, active]: tracker, start, disturbances, workers
    None

Releases == 1..MaxRelease
SessionIds == 1..MaxSession
Disturbances == {"call", "deadline", "kill", "forget", "restart", "create", "update",
                 "rename", "test", "warm", "delete", "captcha", "publish", "drift", "noise",
                 "mirror", "webpage"}

Procs == Workers \cup {User}
Creds == [user: Accounts, pass: Accounts, sess: 0..MaxSession]
Rows == [id: Nat, user: Accounts, pass: Accounts, sess: 0..MaxSession, expired: BOOLEAN]

ASSUME SessionsAssumption ==
    /\ User \notin Workers /\ None \notin Accounts \cup Procs \cup Creds /\ "a" \in Accounts
    /\ MaxSession \in Nat \ {0} /\ MaxRelease \in Nat \ {0} /\ MaxFaults \in Nat
    /\ Content \in [Releases -> [Cells \ {"hash", "seeds"} -> Nat]]
    /\ \A s \in Scenarios : /\ s.kind \in Kinds /\ s.on \subseteq Disturbances
                            /\ s.active \subseteq Workers
                            /\ s.jar \in {0, 1} /\ s.row \in Rows \cup {None}
                            /\ s.row # None => s.kind \in WithCredentials

\* Some cell of the page moves with each release: an upload has an id of its own,
\* one that replaces another's torrent may only have a new registration date.
ASSUME ContentAssumption ==
    \A r, s \in Releases : r # s => Content[r] # Content[s]

VARIABLES
    env,        \* the scenario: [kind, on, active]
    site,       \* acct: whose each session is, live: those still signed in,
                \* rel: the current release, shown: cells on the page, seeds
    jar,        \* the plugin's session of the user, 0 a guest's
    row,        \* tracker_credentials: None or [id, user, pass, sess, expired]
    slot,       \* sessionSlot: [holder, owner, last, heirs]
    proc,       \* what each process is at
    pend,       \* the pending captcha challenge, or None
    topic,      \* of each worker's topic: [tok, rec, got]
    hist,       \* [faults, told, good, ids]: ids, the last id of a row
    away        \* ghost: workers whose session another account's sign-in
                \* replaced while they read

vars == <<env, site, jar, row, slot, proc, pend, topic, hist, away>>

Cred(u, p, s) == [user |-> u, pass |-> p, sess |-> s]
Idle == [pc |-> "idle", why |-> "check", cred |-> None, id |-> 0, marked |-> FALSE,
         err |-> "ok", late |-> FALSE, found |-> 0, tok |-> {}, page |-> 0]

Page(member) == [member |-> member, shown |-> site.shown,
                 val |-> [c \in Cells |-> IF c = "hash" THEN site.rel
                                          ELSE IF c = "seeds" THEN site.seeds
                                          ELSE Content[site.rel][c]]]

Init ==
    /\ \E s \in Scenarios :
        /\ env = [kind |-> s.kind, on |-> s.on, active |-> s.active]
        /\ site = [acct |-> [i \in SessionIds |-> IF i = 1 THEN "a" ELSE None],
                   live |-> {1}, rel |-> 1, shown |-> Cells, seeds |-> 0]
        /\ jar = s.jar /\ row = s.row
    /\ slot = [holder |-> None, owner |-> None, last |-> None, heirs |-> {}]
    /\ proc = [p \in Procs |-> Idle]
    /\ pend = None
    /\ topic = [p \in Workers |->
                  [tok |-> IF env.kind = "lostfilm" THEN {} ELSE Token(env.kind, Page(TRUE)),
                   rec |-> 1, got |-> {1}]]
    /\ hist = [faults |-> 0, told |-> 0, good |-> None, ids |-> 1]
    /\ away = {}

On(d) == d \in env.on /\ hist.faults < MaxFaults
Count == [hist EXCEPT !.faults = @ + 1, !.good = None]
Right(c) == c.pass = c.user
Live(s) == s \in site.live
Waiting == {q \in Procs : proc[q].pc = "wait"}

\* Session ids no one refers to any more are used again.
InUse == ({jar} \cup (IF row = None THEN {} ELSE {row.sess})
          \cup {proc[q].cred.sess : q \in {q \in Procs : proc[q].cred # None}}
          \cup (IF slot.owner = None THEN {} ELSE {slot.owner.sess})
          \cup (IF slot.last = None THEN {} ELSE {slot.last.fp.sess})) \ {0}
Fresh == SessionIds \ InUse
NewSession == CHOOSE s \in Fresh : TRUE
SignedIn(u) == [site EXCEPT !.acct[NewSession] = u, !.live = (@ \cap InUse) \cup {NewSession}]

----------------------------------------------------------------------------
(* The slot                                                                *)

\* Mutant: an attempt cut short by its caller's context is handed on.
SettledLate(p, c, err) ==
    [holder |-> None, owner |-> IF err = "ok" THEN c ELSE None,
     last |-> [fp |-> c, err |-> err], heirs |-> Waiting]

\* Mutant: Establish does not note whose session it left.
SettledUnowned(p, c, err) ==
    [holder |-> None, owner |-> IF err = "ok" /\ p # User THEN c ELSE None,
     last |-> [fp |-> c, err |-> err], heirs |-> {}]

\* heirs: who had arrived before this answer.
Settled(p, c, err) ==
    [holder |-> None, owner |-> IF err = "ok" THEN c ELSE None,
     last |-> IF proc[p].late THEN None ELSE [fp |-> c, err |-> err],
     heirs |-> IF proc[p].late THEN {} ELSE Waiting]

Inherits(p) == slot.last # None /\ slot.last.fp = proc[p].cred /\ p \in slot.heirs

\* Mutant: a session that verifies is used, whoever signed in with it.
OwnsAnySession(p) == slot.owner # None

Owns(p) == slot.owner = proc[p].cred

\* Which plugins rehydrate a stored session before anything else.
Restores(c) == env.kind \in Stored /\ c.sess # 0
ToLogin(c) == IF Restores(c) THEN "restore" ELSE "login"

\* The requests that validate a credential; checks and metadata previews only
\* want a session.
Validates(p) == proc[p].why \in {"create", "update", "test"}

\* How the process goes on with its answer.  Of the check's errors only an
\* expired session is marked, and only if the row it read was not yet.
Answered(p, err) ==
    LET w == proc[p] IN
    CASE err = "ok" /\ w.why \in {"create", "update"} -> [w EXCEPT !.pc = "write"]
      [] p # User /\ err = "ok" -> [w EXCEPT !.pc = "page"]
      [] p # User /\ err = "expired" /\ ~w.marked -> [w EXCEPT !.pc = "mark", !.err = err]
      [] OTHER -> [Idle EXCEPT !.err = err, !.late = w.late]

\* good: the credential that signed in last, with nothing in between.
Settle(p, err) ==
    /\ slot' = Settled(p, proc[p].cred, err)
    /\ proc' = [proc EXCEPT ![p] = Answered(p, err)]
    /\ hist' = [hist EXCEPT !.good = IF err = "ok" THEN proc[p].cred ELSE None]

Go(p, pc) == proc' = [proc EXCEPT ![p].pc = pc] /\ UNCHANGED <<slot, hist>>

----------------------------------------------------------------------------
(* EnsureSession and Establish                                             *)

\* GetForTracker: the credential as it is now; without one, anonymously.
loadCredentials(p) ==
    /\ p \in env.active /\ proc[p].pc = "idle"
    /\ proc' = [proc EXCEPT ![p] =
            IF row = None \/ env.kind \notin WithCredentials THEN [Idle EXCEPT !.pc = "page"]
            ELSE [Idle EXCEPT !.pc = "wait", !.cred = Cred(row.user, row.pass, row.sess),
                              !.id = row.id, !.marked = row.expired]]
    /\ slot' = [slot EXCEPT !.heirs = @ \ {p}]
    /\ UNCHANGED <<env, site, jar, row, pend, topic, hist>>

\* A check inherits, verifies or logs in; a validation always logs in.
acquire(p) ==
    /\ proc[p].pc = "wait" /\ slot.holder = None /\ ~proc[p].late
    /\ IF ~Validates(p) /\ Inherits(p)
       THEN proc' = [proc EXCEPT ![p] = Answered(p, slot.last.err)] /\ UNCHANGED slot
       ELSE /\ slot' = [slot EXCEPT !.holder = p]
            /\ proc' = [proc EXCEPT ![p].pc =
                    IF ~Validates(p) /\ Owns(p) THEN "verify" ELSE ToLogin(proc[p].cred)]
    /\ UNCHANGED <<env, site, jar, row, pend, topic, hist>>

\* The caller's own deadline passes; in the queue it gives up at once.
Expire(p) ==
    /\ On("deadline") /\ proc[p].pc \in {"wait", "verify", "restored", "login", "confirm"} /\ ~proc[p].late
    /\ proc' = [proc EXCEPT ![p] = IF @.pc = "wait" THEN [Idle EXCEPT !.err = "context", !.late = TRUE]
                                                    ELSE [@ EXCEPT !.late = TRUE]]
    /\ hist' = Count
    /\ UNCHANGED <<env, site, jar, row, slot, pend, topic>>

\* A call of p: answered in time, failed, or cut short by p's deadline.
Fails(p, err) == IF proc[p].late THEN err = "context" ELSE err = "error" /\ On("call")
Counted(p) == IF proc[p].late THEN hist ELSE Count

\* Anything but a live session goes on to Login.
verify(p) ==
    /\ proc[p].pc = "verify"
    /\ \/ "yes" \in Verify(env.kind, Live(jar)) /\ Settle(p, "ok")
       \/ Verify(env.kind, Live(jar)) \ {"yes"} # {} /\ Go(p, ToLogin(proc[p].cred))
       \/ /\ \E err \in {"error", "context"} : Fails(p, err)
          /\ proc' = [proc EXCEPT ![p].pc = ToLogin(proc[p].cred)]
          /\ hist' = Counted(p) /\ UNCHANGED slot
    /\ UNCHANGED <<env, site, jar, row, pend, topic>>

\* The stored cookie goes into the shared jar before it is probed.
restoreSession(p) ==
    /\ proc[p].pc = "restore"
    /\ jar' = proc[p].cred.sess
    /\ Go(p, "restored")
    /\ UNCHANGED <<env, site, row, pend, topic>>

\* LostFilm's stored session is all it has; RuTracker goes on to log in.
restored(p) ==
    /\ proc[p].pc = "restored"
    /\ LET failed(err, h) ==
            IF env.kind = "rutracker"
            THEN proc' = [proc EXCEPT ![p].pc = "login"] /\ UNCHANGED slot /\ hist' = h
            ELSE Settle(p, err)
       IN \/ Live(jar) /\ (IF Validates(p) THEN Go(p, "confirm") ELSE Settle(p, "ok"))
          \/ ~Live(jar) /\ failed("expired", hist)
          \/ \E err \in {"error", "context"} : Fails(p, err) /\ failed(err, Counted(p))
    /\ UNCHANGED <<env, site, jar, row, pend, topic>>

\* The password is posted; a validation then asks whether it took.
login(p) ==
    /\ proc[p].pc = "login"
    /\ LET c == proc[p].cred IN
       \/ \E r \in Login(env.kind, Right(c), Live(jar)) :
            /\ r.jar = "new" => Fresh # {}
            /\ site' = IF r.jar = "new" THEN SignedIn(c.user) ELSE site
            /\ jar' = CASE r.jar = "new" -> NewSession [] r.jar = "guest" -> 0 [] OTHER -> jar
            /\ IF r.err = "ok" /\ Validates(p) THEN Go(p, "confirm") ELSE Settle(p, r.err)
       \/ /\ \E err \in {"error", "context"} : Fails(p, err) /\ Settle(p, err)
          /\ UNCHANGED <<site, jar>>
    /\ UNCHANGED <<env, row, pend, topic>>

\* signIn's Verify.  A page that proves nothing is accepted as unverified.
confirm(p) ==
    /\ proc[p].pc = "confirm"
    /\ \/ \E v \in Verify(env.kind, Live(jar)) : Settle(p, IF v = "no" THEN "error" ELSE "ok")
       \/ \E err \in {"error", "context"} : Fails(p, err) /\ Settle(p, err)
    /\ UNCHANGED <<env, site, jar, row, pend, topic>>

\* Mutant: the marker is written whether or not it was set.
MarkedAgain(p) == row # None /\ row.id = proc[p].id

\* WHERE session_expired_at IS NULL: only one of the checks that saw it tells.
Transitions(p) == row # None /\ row.id = proc[p].id /\ ~row.expired

MarkSessionExpired(p) ==
    /\ proc[p].pc = "mark"
    /\ row' = IF Transitions(p) THEN [row EXCEPT !.expired = TRUE] ELSE row
    /\ hist' = IF Transitions(p) THEN [hist EXCEPT !.told = @ + 1] ELSE hist
    /\ proc' = [proc EXCEPT ![p] = [Idle EXCEPT !.err = proc[p].err, !.late = proc[p].late]]
    /\ UNCHANGED <<env, site, jar, slot, pend, topic>>

----------------------------------------------------------------------------
(* The user's requests.  Each costs one disturbance.                       *)

Free == proc[User].pc = "idle"

Ask(why, c, id) ==
    /\ proc' = [proc EXCEPT ![User] =
                    [Idle EXCEPT !.pc = "wait", !.why = why, !.cred = c, !.id = id]]
    /\ hist' = Count
    /\ UNCHANGED <<env, site, jar, row, slot, pend, topic>>

Create(u, pw) ==
    On("create") /\ Free /\ env.kind \in WithCredentials /\ Ask("create", Cred(u, pw, 0), 0)

\* The new account is validated without the session stored for the old one.
Update(u, pw) == On("update") /\ Free /\ row # None /\ Ask("update", Cred(u, pw, 0), row.id)

Test == On("test") /\ Free /\ row # None /\ Ask("test", Cred(row.user, row.pass, row.sess), row.id)

\* A metadata preview wants the session a check would use.
Warm == On("warm") /\ Free /\ row # None /\ Ask("warm", Cred(row.user, row.pass, row.sess), row.id)

CreateRow(u, pw, s) == [id |-> hist.ids + 1, user |-> u, pass |-> pw, sess |-> s, expired |-> FALSE]

\* The statement leaves session_enc and the marker alone.
UpdateRow(u, pw) == [row EXCEPT !.user = u, !.pass = pw]

\* UNIQUE (user_id, tracker_name); an update finds its row gone.
Write ==
    /\ proc[User].pc = "write"
    /\ LET w == proc[User] IN
       row' = IF w.why = "create" /\ row = None
              THEN CreateRow(w.cred.user, w.cred.pass, 0)
              ELSE IF w.why = "update" /\ row # None /\ row.id = w.id
              THEN UpdateRow(w.cred.user, w.cred.pass) ELSE row
    /\ proc' = [proc EXCEPT ![User] = Idle]
    /\ hist' = IF row = None /\ row' # None THEN [hist EXCEPT !.told = 0, !.ids = row'.id] ELSE hist
    /\ UNCHANGED <<env, site, jar, slot, pend, topic>>

\* Without a password nothing is checked.
Rename(u) ==
    /\ On("rename") /\ Free /\ row # None
    /\ row' = UpdateRow(u, row.pass) /\ hist' = Count
    /\ UNCHANGED <<env, site, jar, slot, proc, pend, topic>>

Delete ==
    /\ On("delete") /\ Free /\ row # None
    /\ row' = None /\ hist' = Count
    /\ UNCHANGED <<env, site, jar, slot, proc, pend, topic>>

----------------------------------------------------------------------------
(* Interactive login, on a session of its own: no slot, no shared jar.     *)

\* SetSession clears the marker.
SetSession(s) == [row EXCEPT !.sess = s, !.expired = FALSE]

\* persistSession's upsert keeps the row's user name and password.
persistSession(u, s) == IF row = None THEN CreateRow(u, u, s) ELSE SetSession(s)

storeReauthSession(id, s) == IF row # None /\ row.id = id THEN SetSession(s) ELSE row

\* u signs in with the right password; id is the credential to re-authenticate,
\* 0 for a new account.
Persist(id, u, h) ==
    /\ Fresh # {} /\ site' = SignedIn(u)
    /\ row' = IF id = 0 THEN persistSession(u, NewSession) ELSE storeReauthSession(id, NewSession)
    /\ hist' = IF row' = row THEN h ELSE [h EXCEPT !.told = 0, !.ids = Max({@, row'.id})]

Challenge(u, pw, id) == [id |-> id, user |-> u, pass |-> pw, sid |-> 1, seen |-> 1]

\* A trusted address is signed in outright, the others get a picture.
Begin(u, pw, id) ==
    /\ On("captcha") /\ Free /\ env.kind \in Stored /\ pend = None
    /\ \/ pend' = Challenge(u, pw, id) /\ hist' = Count /\ UNCHANGED <<site, row>>
       \/ pw = u /\ Persist(id, u, Count) /\ UNCHANGED pend
    /\ UNCHANGED <<env, jar, slot, proc, topic>>

BeginInteractive(u, pw) == Begin(u, pw, 0)

ReauthBegin == row # None /\ Begin(row.user, row.pass, row.id)

\* The new challenge is stored before its picture is fetched, which may fail.
Refresh ==
    /\ pend # None /\ pend.sid < 2
    /\ \E shown \in BOOLEAN :
        /\ ~shown => On("call")
        /\ pend' = [pend EXCEPT !.sid = @ + 1, !.seen = IF shown THEN pend.sid + 1 ELSE @]
        /\ hist' = IF shown THEN hist ELSE Count
    /\ UNCHANGED <<env, site, jar, row, slot, proc, topic>>

\* The user reads the picture right.  A wrong answer keeps the challenge;
\* a refused password or a lost answer drops it.
Complete ==
    /\ Free /\ pend' = None
    /\ \/ pend.seen = pend.sid /\ pend.pass = pend.user /\ Persist(pend.id, pend.user, hist)
       \/ pend.seen = pend.sid /\ pend.pass # pend.user /\ UNCHANGED <<site, row, hist>>
       \/ On("call") /\ hist' = Count /\ UNCHANGED <<site, row>>
    /\ UNCHANGED <<env, jar, slot, proc, topic>>

CompleteInteractive == pend # None /\ pend.id = 0 /\ Complete

ReauthComplete == pend # None /\ pend.id # 0 /\ Complete

\* Its five minutes are over, or the engine was rebuilt for another mirror.
Abandon ==
    /\ pend # None /\ pend' = None
    /\ UNCHANGED <<env, site, jar, row, slot, proc, topic, hist>>

----------------------------------------------------------------------------
(* The check with the session: the page, and the download if it is new     *)

\* An anonymous check has a jar of its own.
Jar(p) == IF proc[p].cred = None THEN 0 ELSE jar

Done(p, err) == proc' = [proc EXCEPT ![p] = [Idle EXCEPT !.err = err]]

\* A page without its block: an expired session if the jar is a guest's.
gateError(p) == IF env.kind \in {"tapochek", "toloka"} /\ ~Live(Jar(p)) THEN "expired" ELSE "error"

\* What the plugin makes of the answer.  A web page in place of what was asked
\* for has no block, unless any bytes will do.
Tokens(p) ==
    {Token(env.kind, Page(Live(Jar(p))))}
        \cup IF env.kind = "generictorrentfile" /\ On("webpage") THEN {ErrorPageToken} ELSE {}

Check(p) ==
    /\ proc[p].pc = "page"
    /\ \/ /\ env.kind # "lostfilm"
          /\ \E tok \in Tokens(p) :
             /\ IF tok = {} THEN Done(p, gateError(p))
                ELSE IF tok = topic[p].tok THEN Done(p, "ok")
                ELSE proc' = [proc EXCEPT ![p] =
                        [@ EXCEPT !.pc = IF ReadsTopicPage(env.kind) THEN "topic" ELSE "file",
                                  !.tok = tok, !.found = site.rel, !.page = site.rel]]
             /\ hist' = IF tok = ErrorPageToken /\ env.kind = "generictorrentfile" THEN Count ELSE hist
       \/ env.kind = "lostfilm" /\ Done(p, "ok") /\ UNCHANGED hist
       \/ On("call") /\ Done(p, "error") /\ hist' = Count
    /\ UNCHANGED <<env, site, jar, row, slot, pend, topic>>

\* Download reads the page again; what it links is read next.
FetchTopicPage(p) ==
    /\ proc[p].pc = "topic"
    /\ \/ /\ proc' = [proc EXCEPT ![p] = [@ EXCEPT !.pc = "file", !.page = site.rel]] /\ UNCHANGED hist
       \/ On("call") /\ Done(p, "error") /\ hist' = Count
    /\ UNCHANGED <<env, site, jar, row, slot, pend, topic>>

\* What the link answers: the file, to a member where the site asks for one, or
\* else a web page.
File(p) ==
    Payload(IF env.kind \notin WithCredentials \/ Live(Jar(p)) THEN "torrent" ELSE "html", site.rel)

\* A host that lags serves the release before; any host may answer with a page
\* about something else, or not at all.
Mishaps ==
    (IF On("mirror") /\ site.rel > 1 THEN {Payload("torrent", site.rel - 1)} ELSE {})
        \cup (IF On("webpage") THEN {Payload("html", site.rel)} ELSE {})
        \cup (IF On("call") THEN {Nothing} ELSE {})

\* A page handed over as a torrent may or may not be refused by the client.
Download(p) ==
    /\ proc[p].pc = "file"
    /\ \E file \in {File(p)} \cup Mishaps :
        LET out == Handed(env.kind, proc[p].found, proc[p].page, site.shown, file) IN
        /\ \/ /\ out # Nothing /\ Done(p, "ok")
              /\ topic' = [topic EXCEPT ![p] = [tok |-> proc[p].tok, rec |-> proc[p].found,
                                got |-> @.got \cup {IF out.is = "html" THEN 0 ELSE out.rel}]]
           \/ out = Nothing /\ Done(p, gateError(p)) /\ UNCHANGED topic
           \/ out.is = "html" /\ Done(p, "error") /\ UNCHANGED topic
        /\ hist' = IF file = File(p) THEN hist ELSE Count
    /\ UNCHANGED <<env, site, jar, row, slot, pend>>

----------------------------------------------------------------------------
(* The world                                                               *)

\* The site ends a session; the plugin's copy has outlived its two hours; the
\* program restarts.
Kill ==
    /\ On("kill") /\ \E s \in site.live : site' = [site EXCEPT !.live = @ \ {s}]
    /\ hist' = Count
    /\ UNCHANGED <<env, jar, row, slot, proc, pend, topic>>

Forget ==
    /\ On("forget") /\ jar # 0 /\ jar' = 0 /\ hist' = Count
    /\ UNCHANGED <<env, site, row, slot, proc, pend, topic>>

Restart ==
    /\ On("restart")
    /\ slot' = [holder |-> None, owner |-> None, last |-> None, heirs |-> {}]
    /\ jar' = 0 /\ proc' = [p \in Procs |-> Idle] /\ pend' = None /\ hist' = Count
    /\ UNCHANGED <<env, site, row, topic>>

\* A release comes out, a cell disappears from the template or comes back,
\* a counter on the page moves.
Publish ==
    /\ On("publish") /\ site.rel < MaxRelease /\ site' = [site EXCEPT !.rel = @ + 1]
    /\ UNCHANGED <<env, jar, row, slot, proc, pend, topic, hist>>

Drift ==
    /\ On("drift")
    /\ \E c \in Cells \ {"seeds"} :
        site' = [site EXCEPT !.shown = IF c \in @ THEN @ \ {c} ELSE @ \cup {c}]
    /\ hist' = Count
    /\ UNCHANGED <<env, jar, row, slot, proc, pend, topic>>

Noise ==
    /\ On("noise") /\ site' = [site EXCEPT !.seeds = 1 - @] /\ hist' = Count
    /\ UNCHANGED <<env, jar, row, slot, proc, pend, topic>>

Step(p) == \/ acquire(p) \/ Expire(p) \/ verify(p) \/ restoreSession(p)
           \/ restored(p) \/ login(p) \/ confirm(p)

Move ==
    \/ \E p \in Procs : Step(p)
    \/ \E p \in Workers : \/ loadCredentials(p) \/ MarkSessionExpired(p)
                          \/ Check(p) \/ FetchTopicPage(p) \/ Download(p)
    \/ \E u, pw \in Accounts : Create(u, pw) \/ Update(u, pw) \/ BeginInteractive(u, pw)
    \/ \E u \in Accounts : Rename(u)
    \/ Test \/ Warm \/ Write \/ Delete \/ Refresh \/ Abandon
    \/ ReauthBegin \/ CompleteInteractive \/ ReauthComplete
    \/ Kill \/ Forget \/ Restart \/ Publish \/ Drift \/ Noise

\* Whose topics a credential's are: LostFilm's account is the cookie's.
Identity(c) == IF env.kind = "lostfilm" /\ c.sess # 0 THEN site.acct[c.sess] ELSE c.user

\* A check reads from the answer to its question for a session to its end.
Reads(p) == proc[p].pc \in {"page", "topic", "file"} /\ proc[p].cred # None

\* This step puts a session of another account than p's into the jar.
Replaced(p) ==
    /\ jar' \notin {0, jar}
    /\ \E q \in Procs : /\ proc[q].pc \in {"restore", "login"}
                       /\ Identity(proc[q].cred) # Identity(proc[p].cred)

Next ==
    /\ Move
    /\ away' = {p \in Workers : Reads(p)' /\ Reads(p) /\ (p \in away \/ Replaced(p))}

Spec == Init /\ [][Next]_vars

----------------------------------------------------------------------------
(* Properties                                                              *)

Errors == {"ok", "error", "captcha", "expired", "context"}

TypeOK ==
    /\ site.acct \in [SessionIds -> Accounts \cup {None}] /\ site.live \subseteq SessionIds
    /\ site.rel \in Releases /\ site.shown \subseteq Cells
    /\ jar \in 0..MaxSession /\ (jar # 0 => site.acct[jar] # None) /\ away \subseteq Workers
    /\ row # None => /\ Cred(row.user, row.pass, row.sess) \in Creds /\ row.expired \in BOOLEAN
                     /\ (row.sess # 0 => site.acct[row.sess] # None)
    /\ slot.holder \in Procs \cup {None} /\ slot.owner \in Creds \cup {None}
    /\ slot.last = None \/ (slot.last.fp \in Creds /\ slot.last.err \in Errors)
    /\ \A p \in Procs :
        /\ proc[p].cred \in Creds \cup {None} /\ proc[p].err \in Errors
        /\ slot.holder = p <=> proc[p].pc \in {"verify", "restore", "restored", "login", "confirm"}

\* A check reads its pages and its file as its own account, or as a guest, however
\* credential edits, tests and other checks' logins interleave: Verify is trusted
\* only for the owner (session.go:103-109).  Only where another account signs in
\* after the check was told that its session is live, by a user's edit or test or
\* by a check that read the credential later, does it read on in the session that
\* is in the jar by then.  The trackers that post passwords on the shared jar
\* cannot promise even that.
SignedInAsOwner ==
    \A p \in Workers : Reads(p) /\ env.kind \in Private \cup {"lostfilm"}
        => jar = 0 \/ site.acct[jar] = Identity(proc[p].cred) \/ p \in away

\* AniDub's probe proves nothing, and Kinozal may take a refusal for a sign-in.
SignInHolds(c) == env.kind # "anidub" /\ (env.kind = "kinozal" => Right(c))

\* One sign-in serves all: while nothing happened to the session since a
\* credential signed in, no check with that credential logs in again.
NoNeedlessLogin ==
    [][\A p \in Workers : /\ proc[p].pc \in {"wait", "verify"}
                          /\ proc'[p].pc \in {"restore", "login"} /\ SignInHolds(proc[p].cred)
            => proc[p].cred \notin {hist.good} \cap {hist'.good}]_vars

\* A check ends with a context error only for its own deadline: nobody
\* inherits an attempt that another caller's deadline cut short.
OwnDeadlineOnly == \A p \in Procs : proc[p].err = "context" => proc[p].late

\* However many checks meet a dead session at once, the user is told once
\* until a session is stored again.
ExpiryToldOnce == hist.told <= 1

\* The change token moves exactly when the tracker published a release: not
\* with counters, lost cells, or the session that asked, and also where a torrent
\* was replaced under its old id, unless the plugin goes by the id.  Toloka and
\* AniDub leave missing cells out and Torznab falls back to the guid, so a template
\* change does move theirs; the token of a plain file is that of any bytes, so an
\* error page does.
TokenIsTheRelease ==
    [][\A p \in Workers :
        LET misread == env.kind = "generictorrentfile"
                          /\ ErrorPageToken \in {topic[p].tok, proc'[p].tok}
            sameId == env.kind \in GoById
                         /\ \A c \in Seen(env.kind) : Content[site.rel][c] = Content[topic[p].rec][c]
        IN  Check(p) /\ ~(env.kind \in {"toloka", "anidub", "torznab"} /\ "drift" \in env.on) =>
              /\ proc'[p].pc \in {"topic", "file"} => site.rel # topic[p].rec \/ misread
              /\ proc'[p].err = "ok" /\ proc'[p].pc = "idle" /\ env.kind \notin {"lostfilm", "genericmagnet"}
                    => site.rel = topic[p].rec \/ misread \/ sameId]_vars

\* A recorded token stands for a release the client was given, or a newer
\* one, and what it was given was never a web page, even when the session
\* died between the check and the download or the host answered with a page of
\* its own.  Six plugins hand over whatever the link answers; lagging hosts are a
\* matter of the plugin that compares the infohash, Rutor.
RecordedIsDelivered ==
    \A p \in Workers :
        /\ 0 \in topic[p].got => env.kind \in Unchecked
        /\ \/ "mirror" \in env.on /\ env.kind # "rutor"
           \/ \E r \in topic[p].got : r = 0 \/ r >= topic[p].rec
=============================================================================
