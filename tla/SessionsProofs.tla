--------------------------- MODULE SessionsProofs ---------------------------
(***************************************************************************)
(* Checks read pages as the account they belong to, an expired session is  *)
(* told once, nobody inherits another caller's deadline, and the token     *)
(* recorded is that of a release the client was given: for any number of   *)
(* workers, accounts, sessions, releases and disturbances.                 *)
(***************************************************************************)
EXTENDS Sessions, TLAPS

Holding == {"verify", "restore", "restored", "login", "confirm"}
Places == {"idle", "wait", "page", "topic", "file", "mark", "write"} \cup Holding
Attempts == [pc : Places, why : {"check", "create", "update", "test", "warm"},
             cred : Creds \cup {None}, id : Nat, marked : BOOLEAN, err : Errors, late : BOOLEAN,
             found : Nat, tok : SUBSET (Cells \X Nat), page : Nat]

Sites == [acct : [SessionIds -> Accounts \cup {None}], live : SUBSET SessionIds,
          rel : Releases, shown : SUBSET Cells, seeds : {0, 1}]
Slots == [holder : Procs \cup {None}, owner : Creds \cup {None},
          last : [fp : Creds, err : Errors] \cup {None}, heirs : SUBSET Procs]
Challenges == [id : Nat, user : Accounts, pass : Accounts, sid : Nat, seen : Nat]
Histories == [faults : Nat, told : Nat, good : Creds \cup {None}, ids : Nat]

\* The types of what the invariants below speak of.
Types ==
    /\ env \in [kind : Kinds, on : SUBSET Disturbances, active : SUBSET Workers]
    /\ site \in Sites /\ jar \in 0..MaxSession /\ row \in Rows \cup {None}
    /\ slot \in Slots /\ proc \in [Procs -> Attempts]
    /\ pend \in Challenges \cup {None} /\ hist \in Histories

\* Who signs in has the slot and a credential to do it with.
Serialised ==
    /\ \A p \in Procs : proc[p].pc \in Holding => slot.holder = p
    /\ \A p \in Procs : proc[p].pc \in Holding \cup {"wait", "mark", "write"} => proc[p].cred \in Creds
    /\ \A p \in Workers : proc[p].why = "check" /\ (proc[p].pc = "idle" => proc[p].cred = None)
    /\ row # None \/ pend # None \/ (\E p \in Procs : proc[p].pc \in Holding \cup {"wait", "write"})
          => env.kind \in WithCredentials

\* The jar is a guest's or of the credential's account.
Fine(c) == jar = 0 \/ site.acct[jar] = Identity(c)

\* Between a sign-in and its outcome the jar is the new credential's; otherwise it
\* is the owner's, if it has one.
Owned ==
    env.kind \in Private \cup {"lostfilm"} =>
        /\ slot.owner # None /\ (\A p \in Procs : proc[p].pc \notin {"restored", "confirm"})
              => Fine(slot.owner)
        /\ \A p \in Procs : proc[p].pc \in {"restored", "confirm"} => Fine(proc[p].cred)
        /\ \A p \in Procs : proc[p].pc = "verify" => slot.owner = proc[p].cred
        /\ slot.last # None /\ slot.last.err = "ok" => slot.owner = slot.last.fp

\* Only two trackers restore a session, and LostFilm has no other.
StoredOnly ==
    /\ \A p \in Procs : proc[p].pc \in {"restore", "restored"} => env.kind \in Stored
    /\ env.kind = "lostfilm" =>
          /\ slot.owner # None => slot.owner.sess # 0
          /\ \A p \in Procs : proc[p].pc \in {"restore", "restored", "confirm"} => proc[p].cred.sess # 0

\* An attempt its caller cut short leaves nothing to inherit.
OwnErrors ==
    /\ slot.last # None => slot.last.err # "context"
    /\ \A p \in Procs : proc[p].err = "context" => proc[p].late

\* The row remembers that the user was told.
Remembered == hist.told <= 1 /\ (hist.told = 1 /\ row # None => row.expired)

Inv == Types /\ Serialised /\ Owned /\ StoredOnly /\ OwnErrors /\ Remembered

\* A check is told that its session is live.
Begins(p) == proc[p].cred # None /\ proc[p].pc # "page" /\ proc'[p].pc = "page"

\* The jar is right at that moment.
RightJar ==
    \A p \in Workers : Begins(p) /\ env.kind \in Private \cup {"lostfilm"}
        => jar' = 0 \/ site'.acct[jar'] = Identity(proc[p].cred)

-----------------------------------------------------------------------------
(* The pieces an action is made of.                                        *)

LEMMA Assumed ==
    /\ User \notin Workers /\ None \notin Accounts /\ None \notin Procs /\ None \notin Creds /\ "a" \in Accounts
    /\ 1 \in SessionIds /\ 1 \in Releases /\ MaxSession \in Nat /\ MaxRelease \in Nat
    /\ SessionIds \subseteq 0..MaxSession /\ 0 \notin SessionIds /\ Releases \subseteq Nat
    /\ 1 \in 0..MaxSession /\ 0 \in 0..MaxSession
  BY SessionsAssumption DEF SessionsAssumption, SessionIds, Releases

\* The answer of an attempt.
LEMMA Answers ==
    ASSUME Types, Serialised, NEW p \in Procs, NEW err \in Errors
    PROVE  /\ Answered(p, err) \in Attempts
           /\ Answered(p, err).pc \in {"write", "page", "mark", "idle"}
           /\ Answered(p, err).late = proc[p].late
           /\ Answered(p, err).err \in {err, proc[p].err}
           /\ Answered(p, err).pc = "idle" => Answered(p, err).cred = None /\ Answered(p, err).why = "check"
           /\ Answered(p, err).pc # "idle" => Answered(p, err).cred = proc[p].cred
                                             /\ Answered(p, err).why = proc[p].why
           /\ p \in Workers /\ Answered(p, err).pc = "page" => err = "ok"
  <1>1. proc[p] \in Attempts
    BY DEF Types
  <1>2. CASE err = "ok" /\ proc[p].why \in {"create", "update"}
    <2>0. p = User
      BY <1>2 DEF Serialised, Procs
    <2>1. Answered(p, err) = [proc[p] EXCEPT !.pc = "write"]
      BY <1>2, <2>0 DEF Answered
    <2> QED BY <1>1, <1>2, <2>1 DEF Attempts, Places
  <1>3. CASE ~(err = "ok" /\ proc[p].why \in {"create", "update"}) /\ p # User /\ err = "ok"
    <2>1. Answered(p, err) = [proc[p] EXCEPT !.pc = "page"]
      BY <1>3 DEF Answered
    <2> QED BY <1>1, <1>3, <2>1 DEF Attempts, Places
  <1>4. CASE p # User /\ err = "expired" /\ ~proc[p].marked
    <2>1. Answered(p, err) = [proc[p] EXCEPT !.pc = "mark", !.err = err]
      BY <1>4 DEF Answered
    <2> QED BY <1>1, <1>4, <2>1 DEF Attempts, Places
  <1>5. CASE /\ ~(err = "ok" /\ proc[p].why \in {"create", "update"}) /\ ~(p # User /\ err = "ok")
             /\ ~(p # User /\ err = "expired" /\ ~proc[p].marked)
    <2>1. Answered(p, err) = [Idle EXCEPT !.err = err, !.late = proc[p].late]
      BY <1>5 DEF Answered
    <2>2. proc[p].late \in BOOLEAN
      BY <1>1 DEF Attempts
    <2> DEFINE w == [Idle EXCEPT !.err = err, !.late = proc[p].late]
    <2>3. w \in Attempts /\ w.pc = "idle" /\ w.cred = None /\ w.why = "check"
          /\ w.err = err /\ w.late = proc[p].late
      BY <2>2 DEF Idle, Attempts, Places
    <2> HIDE DEF w
    <2>4. Answered(p, err) = w
      BY <2>1 DEF w
    <2> QED BY <1>5, <2>3, <2>4
  <1> QED BY <1>2, <1>3, <1>4, <1>5

\* A new session takes an id nobody refers to.
LEMMA NewId ==
    ASSUME Types, Fresh # {}, NEW u \in Accounts, site' = SignedIn(u)
    PROVE  /\ site' \in Sites
           /\ NewSession \in SessionIds /\ NewSession \notin InUse
           /\ site'.acct[NewSession] = u
           /\ \A s \in SessionIds \ {NewSession} : site'.acct[s] = site.acct[s]
           /\ site'.rel = site.rel /\ site'.shown = site.shown
  <1>1. NewSession \in SessionIds /\ NewSession \notin InUse
    BY DEF NewSession, Fresh
  <1>2. site \in Sites
    BY DEF Types
  <1>3. site' = [site EXCEPT !.acct = [site.acct EXCEPT ![NewSession] = u],
                             !.live = (site.live \cap InUse) \cup {NewSession}]
    BY <1>2 DEF SignedIn, Sites
  <1>4. site'.acct = [site.acct EXCEPT ![NewSession] = u]
        /\ site'.live = (site.live \cap InUse) \cup {NewSession}
        /\ site'.rel = site.rel /\ site'.shown = site.shown /\ site'.seeds = site.seeds
    BY <1>2, <1>3 DEF Sites
  <1>5. site.acct \in [SessionIds -> Accounts \cup {None}] /\ site.live \subseteq SessionIds
    BY <1>2 DEF Sites
  <1>6. [site.acct EXCEPT ![NewSession] = u] \in [SessionIds -> Accounts \cup {None}]
        /\ (site.live \cap InUse) \cup {NewSession} \subseteq SessionIds
    BY <1>1, <1>5
  <1>7. site' \in Sites
    BY <1>2, <1>3, <1>6 DEF Sites
  <1>8. /\ site'.acct[NewSession] = u
        /\ \A s \in SessionIds \ {NewSession} : site'.acct[s] = site.acct[s]
    BY <1>1, <1>4, <1>5
  <1> QED BY <1>1, <1>4, <1>7, <1>8

LEMMA Used ==
    ASSUME Types
    PROVE  /\ jar # 0 => jar \in InUse
           /\ \A p \in Procs : proc[p].cred # None /\ proc[p].cred.sess # 0 => proc[p].cred.sess \in InUse
           /\ slot.owner # None /\ slot.owner.sess # 0 => slot.owner.sess \in InUse
  <1>1. InUse = ({jar} \cup (IF row = None THEN {} ELSE {row.sess})
                 \cup {proc[q].cred.sess : q \in {r \in Procs : proc[r].cred # None}}
                 \cup (IF slot.owner = None THEN {} ELSE {slot.owner.sess})
                 \cup (IF slot.last = None THEN {} ELSE {slot.last.fp.sess})) \ {0}
    BY DEF InUse
  <1>2. \A p \in Procs : proc[p].cred # None
            => proc[p].cred.sess \in {proc[q].cred.sess : q \in {r \in Procs : proc[r].cred # None}}
    OBVIOUS
  <1> QED BY <1>1, <1>2

\* A process becomes something else.
LEMMA Puts ==
    ASSUME Types, NEW p \in Procs, NEW w \in Attempts, proc' = [proc EXCEPT ![p] = w]
    PROVE  proc' \in [Procs -> Attempts] /\ proc'[p] = w /\ \A q \in Procs \ {p} : proc'[q] = proc[q]
  BY DEF Types

LEMMA Counts ==
    ASSUME Types
    PROVE  Count \in Histories /\ Count.told = hist.told /\ Count.ids = hist.ids
  <1>1. hist \in Histories
    BY DEF Types
  <1>2. hist.faults \in Nat /\ hist.told \in Nat /\ hist.ids \in Nat
    BY <1>1 DEF Histories
  <1>3. PICK n \in Nat : n = hist.faults + 1
    BY <1>2
  <1>4. Count = [hist EXCEPT !.faults = n, !.good = None]
    BY <1>3 DEF Count
  <1> QED BY <1>1, <1>4 DEF Histories

\* A token is made of what cells say.
LEMMA TokenCells ==
    ASSUME Types, env.kind # "lostfilm", NEW member
    PROVE  Token(env.kind, Page(member)) \in SUBSET (Cells \X Nat)
  <1>0. site.rel \in Releases /\ site.rel \in Nat /\ site.seeds \in {0, 1}
    BY Assumed DEF Types, Sites
  <1>1. \A c \in Cells : Page(member).val[c] \in Nat
    <2>1. \A c \in Cells \ {"hash", "seeds"} : Content[site.rel][c] \in Nat
      BY <1>0, SessionsAssumption DEF SessionsAssumption
    <2> QED BY <1>0, <2>1 DEF Page
  <1>2. \A cells \in SUBSET Cells : Read(Page(member), cells) \in SUBSET (Cells \X Nat)
    BY <1>1 DEF Read
  <1>3. env.kind \in Kinds \ {"lostfilm"}
    BY DEF Types
  <1> HIDE DEF Read
  <1>4. MagnetToken \in SUBSET (Cells \X Nat)
    BY DEF MagnetToken, Cells
  <1> QED
    BY <1>2, <1>3, <1>4
    DEF Token, Kinds, WithCredentials, Private, Stored, RuTrackerToken, KinozalToken, TapochekToken,
        TolokaToken, AniDubToken, NnmClubToken, RutorToken, AniLibriaToken, AniLibertyToken,
        NewznabToken, TorznabToken, TorrentFileToken, Cells

-----------------------------------------------------------------------------
LEMMA InitInv == Init => Inv
  <1> SUFFICES ASSUME Init PROVE Inv
    OBVIOUS
  <1>1. PICK s \in Scenarios :
           /\ env = [kind |-> s.kind, on |-> s.on, active |-> s.active]
           /\ site = [acct |-> [i \in SessionIds |-> IF i = 1 THEN "a" ELSE None],
                      live |-> {1}, rel |-> 1, shown |-> Cells, seeds |-> 0]
           /\ jar = s.jar /\ row = s.row
    BY DEF Init
  <1>2. /\ slot = [holder |-> None, owner |-> None, last |-> None, heirs |-> {}]
        /\ proc = [p \in Procs |-> Idle] /\ pend = None
        /\ hist = [faults |-> 0, told |-> 0, good |-> None, ids |-> 1]
    BY DEF Init
  <1>3. Idle \in Attempts /\ Idle.pc = "idle" /\ Idle.cred = None /\ Idle.why = "check" /\ Idle.err = "ok"
    BY DEF Idle, Attempts, Places, Errors
  <1>4. Types
    <2>1. env \in [kind : Kinds, on : SUBSET Disturbances, active : SUBSET Workers]
          /\ row \in Rows \cup {None} /\ jar \in 0..MaxSession
      BY <1>1, Assumed, SessionsAssumption DEF SessionsAssumption
    <2>2. site \in Sites
      BY <1>1, Assumed DEF Sites
    <2>3. slot \in Slots /\ hist \in Histories
      BY <1>2 DEF Slots, Histories
    <2> QED BY <1>2, <1>3, <2>1, <2>2, <2>3 DEF Types
  <1>5. \A p \in Procs : proc[p] = Idle
    BY <1>2
  <1>6. row # None => env.kind \in WithCredentials
    BY <1>1, SessionsAssumption DEF SessionsAssumption
  <1>7. Serialised
    BY <1>2, <1>3, <1>5, <1>6 DEF Serialised, Holding, Procs
  <1> QED BY <1>2, <1>3, <1>4, <1>5, <1>7 DEF Inv, Owned, StoredOnly, OwnErrors, Remembered

-----------------------------------------------------------------------------
(* Those who leave the slot and the jar alone.                             *)

\* q does nothing but wait, read pages or give up.
Apart(q) ==
    /\ proc[q].pc \notin Holding /\ proc'[q].pc \notin Holding
    /\ proc'[q].pc \in {"wait", "mark", "write"} => proc'[q].cred \in Creds
    /\ proc'[q].pc \in {"wait", "write"} => env.kind \in WithCredentials
    /\ q \in Workers => proc'[q].why = "check" /\ (proc'[q].pc = "idle" => proc'[q].cred = None)
    /\ proc'[q].err = "context" => proc'[q].late
    /\ q \in Workers /\ Begins(q) /\ env.kind \in Private \cup {"lostfilm"} => Fine(proc[q].cred)

\* q is where it was, late or not.
Stays(q) ==
    /\ proc'[q].pc = proc[q].pc /\ proc'[q].cred = proc[q].cred /\ proc'[q].why = proc[q].why
    /\ proc'[q].err = proc[q].err /\ (proc[q].late => proc'[q].late)

LEMMA Bystander ==
    ASSUME Inv, Types', Remembered', env' = env, jar' = jar, site'.acct = site.acct,
           slot'.owner = slot.owner, slot'.last = slot.last, slot'.holder = slot.holder,
           row' # None \/ pend' # None => env.kind \in WithCredentials,
           \A q \in Procs : Apart(q) \/ Stays(q)
    PROVE  Inv' /\ RightJar
  <1> USE DEF Inv
  <1>1. \A q \in Procs : /\ proc'[q].pc \in Holding => Stays(q)
                         /\ proc[q].pc \in Holding => Stays(q)
    BY DEF Apart, Stays
  <1>2. Workers \subseteq Procs
    BY DEF Procs
  <1>3. Serialised'
    <2>1. \A q \in Procs : proc'[q].pc \in Holding => slot'.holder = q
      BY <1>1 DEF Serialised, Stays
    <2>2. \A q \in Procs : proc'[q].pc \in Holding \cup {"wait", "mark", "write"} => proc'[q].cred \in Creds
      BY DEF Serialised, Stays, Apart
    <2>3. \A q \in Workers : proc'[q].why = "check" /\ (proc'[q].pc = "idle" => proc'[q].cred = None)
      BY <1>2 DEF Serialised, Stays, Apart
    <2>4. ASSUME NEW q \in Procs, proc'[q].pc \in Holding \cup {"wait", "write"}
          PROVE  env.kind \in WithCredentials
      BY <2>4 DEF Serialised, Stays, Apart
    <2> QED BY <2>1, <2>2, <2>3, <2>4 DEF Serialised
  <1>5. Owned'
    BY <1>1 DEF Owned, Holding, Stays, Fine, Identity
  <1>6. StoredOnly'
    BY <1>1 DEF StoredOnly, Holding, Stays
  <1>7. OwnErrors'
    BY DEF OwnErrors, Stays, Apart
  <1>8. RightJar
    BY <1>2 DEF RightJar, Begins, Apart, Stays, Fine, Identity
  <1> QED BY <1>3, <1>5, <1>6, <1>7, <1>8

\* No process moves.
LEMMA Still ==
    ASSUME Inv, Remembered', env' = env, jar' = jar, proc' = proc, slot' = slot,
           site' \in Sites, site'.acct = site.acct, row' \in Rows \cup {None},
           pend' \in Challenges \cup {None}, hist' \in Histories,
           row' # None \/ pend' # None => env.kind \in WithCredentials
    PROVE  Inv' /\ RightJar
  <1>1. Types'
    BY DEF Inv, Types
  <1>2. \A q \in Procs : Stays(q)
    BY DEF Stays
  <1> QED BY <1>1, <1>2, Bystander

\* p moves, without the slot before or after.
LEMMA Aside ==
    ASSUME Inv, Remembered', env' = env, jar' = jar, site' = site,
           slot' \in Slots, slot'.owner = slot.owner, slot'.last = slot.last, slot'.holder = slot.holder,
           row' \in Rows \cup {None}, pend' = pend, hist' \in Histories,
           row' # None \/ pend' # None => env.kind \in WithCredentials,
           NEW p \in Procs, NEW w \in Attempts, proc' = [proc EXCEPT ![p] = w],
           proc[p].pc \notin Holding, w.pc \notin Holding,
           w.pc \in {"wait", "mark", "write"} => w.cred \in Creds,
           w.pc \in {"wait", "write"} => env.kind \in WithCredentials,
           p \in Workers => w.why = "check" /\ (w.pc = "idle" => w.cred = None),
           w.err = "context" => w.late,
           p \in Workers /\ Begins(p) /\ env.kind \in Private \cup {"lostfilm"} => Fine(proc[p].cred)
    PROVE  Inv' /\ RightJar
  <1>1. proc' \in [Procs -> Attempts] /\ proc'[p] = w /\ \A q \in Procs \ {p} : proc'[q] = proc[q]
    BY Puts DEF Inv
  <1>2. Types'
    BY <1>1 DEF Inv, Types
  <1>3. Apart(p)
    BY <1>1 DEF Apart
  <1>4. \A q \in Procs \ {p} : Stays(q)
    BY <1>1 DEF Stays
  <1> QED BY <1>2, <1>3, <1>4, Bystander

-----------------------------------------------------------------------------
(* The holder of the slot.                                                 *)

\* The jar after the step is c's.
WillBeFine(c) ==
    jar' = 0 \/ site'.acct[jar'] = IF env.kind = "lostfilm" /\ c.sess # 0 THEN site'.acct[c.sess] ELSE c.user

\* Nobody else is between taking the slot and answering.
LEMMA Alone ==
    ASSUME Inv, NEW p \in Procs, slot.holder \in {None, p}
    PROVE  \A q \in Procs \ {p} : proc[q].pc \notin Holding
  BY Assumed DEF Inv, Serialised

\* The jar after a step of p, and what p and the slot say of it.
OwnerKept(p, w) ==
    env.kind \in Private \cup {"lostfilm"} =>
        /\ slot'.owner # None /\ w.pc \notin {"restored", "confirm"} => WillBeFine(slot'.owner)
        /\ w.pc \in {"restored", "confirm"} => WillBeFine(w.cred)
        /\ w.pc = "verify" => slot'.owner = w.cred
        /\ slot'.last # None /\ slot'.last.err = "ok" => slot'.owner = slot'.last.fp
        /\ p \in Workers /\ w.pc = "page" => WillBeFine(proc[p].cred)

LEMMA Held ==
    ASSUME Inv, env' = env, row' = row, pend' = pend, hist' \in Histories, hist'.told = hist.told,
           site' \in Sites, jar' \in 0..MaxSession, slot' \in Slots,
           env.kind = "lostfilm" => site'.acct = site.acct,
           NEW p \in Procs, NEW w \in Attempts, proc' = [proc EXCEPT ![p] = w],
           proc[p].pc \in Holding \/ (proc[p].pc = "wait" /\ slot.holder = None),
           w.pc \in Holding => slot'.holder = p,
           w.pc \in Holding \cup {"wait", "mark", "write"} => w.cred \in Creds,
           p \in Workers => w.why = "check" /\ (w.pc = "idle" => w.cred = None),
           OwnerKept(p, w),
           w.pc \in {"restore", "restored"} => env.kind \in Stored,
           env.kind = "lostfilm" =>
             /\ slot'.owner # None => slot'.owner.sess # 0
             /\ w.pc \in {"restore", "restored", "confirm"} => w.cred.sess # 0,
           slot'.last # None => slot'.last.err # "context",
           w.err = "context" => w.late
    PROVE  Inv' /\ RightJar
  <1> USE DEF Inv
  <1>1. proc' \in [Procs -> Attempts] /\ proc'[p] = w /\ \A q \in Procs \ {p} : proc'[q] = proc[q]
    BY Puts
  <1>2. Types'
    BY <1>1 DEF Types
  <1>3. \A q \in Procs \ {p} : proc[q].pc \notin Holding
    BY Alone DEF Serialised
  <1>4. Workers \subseteq Procs /\ env.kind \in WithCredentials
    BY DEF Procs, Serialised
  <1>5. Serialised'
    <2>1. \A q \in Procs : proc'[q].pc \in Holding => slot'.holder = q
      BY <1>1, <1>3
    <2>2. \A q \in Procs : proc'[q].pc \in Holding \cup {"wait", "mark", "write"} => proc'[q].cred \in Creds
      BY <1>1 DEF Serialised
    <2>3. \A q \in Workers : proc'[q].why = "check" /\ (proc'[q].pc = "idle" => proc'[q].cred = None)
      BY <1>1, <1>4 DEF Serialised
    <2> QED BY <1>4, <2>1, <2>2, <2>3 DEF Serialised
  <1>6. Owned'
    <2>1. \A q \in Procs \ {p} : proc'[q].pc \notin {"restored", "confirm", "verify"}
      BY <1>1, <1>3 DEF Holding
    <2> QED BY <1>1, <2>1 DEF OwnerKept, Owned, WillBeFine, Fine, Identity
  <1>7. StoredOnly'
    BY <1>1, <1>3 DEF StoredOnly, Holding
  <1>8. OwnErrors'
    BY <1>1 DEF OwnErrors
  <1>9. Remembered'
    BY DEF Remembered
  <1>10. ASSUME NEW q \in Workers, Begins(q), env.kind \in Private \cup {"lostfilm"}
         PROVE  jar' = 0 \/ site'.acct[jar'] = Identity(proc[q].cred)
    <2>1. q \in Procs /\ proc[q].pc # "page" /\ proc'[q].pc = "page"
      BY <1>4, <1>10 DEF Begins
    <2>2. q = p /\ w.pc = "page"
      BY <1>1, <2>1
    <2>3. WillBeFine(proc[p].cred)
      BY <1>10, <2>2 DEF OwnerKept
    <2> QED BY <2>2, <2>3 DEF WillBeFine, Identity
  <1> QED BY <1>2, <1>5, <1>6, <1>7, <1>8, <1>9, <1>10 DEF RightJar

\* The holder gives its answer.
LEMMA SettleInv ==
    ASSUME Inv, env' = env, row' = row, pend' = pend, site' \in Sites, jar' \in 0..MaxSession,
           env.kind = "lostfilm" => site'.acct = site.acct,
           NEW p \in Procs, NEW err \in Errors, proc[p].pc \in Holding, Settle(p, err),
           err = "context" => proc[p].late,
           err = "ok" =>
             /\ env.kind \in Private \cup {"lostfilm"} => WillBeFine(proc[p].cred)
             /\ env.kind = "lostfilm" => proc[p].cred.sess # 0
    PROVE  Inv' /\ RightJar
  <1> DEFINE w == Answered(p, err)
             c == proc[p].cred
  <1>1. c \in Creds /\ proc[p] \in Attempts
    BY DEF Inv, Serialised, Types
  <1>2. /\ w \in Attempts /\ w.pc \in {"write", "page", "mark", "idle"} /\ w.late = proc[p].late
        /\ w.err \in {err, proc[p].err}
        /\ w.pc = "idle" => w.cred = None /\ w.why = "check"
        /\ w.pc # "idle" => w.cred = c /\ w.why = proc[p].why
        /\ p \in Workers /\ w.pc = "page" => err = "ok"
    BY Answers DEF Inv
  <1>3. /\ slot'.holder = None /\ slot'.owner = IF err = "ok" THEN c ELSE None
        /\ slot'.last = IF proc[p].late THEN None ELSE [fp |-> c, err |-> err]
        /\ slot' \in Slots
    <2>1. slot' = [holder |-> None, owner |-> IF err = "ok" THEN c ELSE None,
                   last |-> IF proc[p].late THEN None ELSE [fp |-> c, err |-> err],
                   heirs |-> IF proc[p].late THEN {} ELSE Waiting]
      BY DEF Settle, Settled
    <2>2. Waiting \subseteq Procs
      BY DEF Waiting
    <2> QED BY <1>1, <2>1, <2>2 DEF Slots
  <1>4. proc' = [proc EXCEPT ![p] = w]
    BY DEF Settle
  <1>5. hist' \in Histories /\ hist'.told = hist.told
    <2>1. hist \in Histories
      BY DEF Inv, Types
    <2>2. hist' = [hist EXCEPT !.good = IF err = "ok" THEN c ELSE None]
      BY DEF Settle
    <2> QED BY <1>1, <2>1, <2>2 DEF Histories
  <1>6. w.err = "context" => w.late
    BY <1>2 DEF Inv, OwnErrors
  <1>7. p \in Workers => proc[p].why = "check"
    BY DEF Inv, Serialised
  <1>8. /\ slot'.last # None => slot'.last.err # "context"
        /\ slot'.last # None /\ slot'.last.err = "ok" => slot'.owner = slot'.last.fp
        /\ slot'.owner # None => err = "ok" /\ slot'.owner = c
    BY <1>1, <1>3
  <1> HIDE DEF w, c
  <1>9. w.pc \notin Holding /\ w.pc \notin {"restored", "confirm", "verify", "restore"}
    BY <1>2 DEF Holding
  <1>10. /\ env.kind \in Private \cup {"lostfilm"} =>
             /\ slot'.owner # None /\ w.pc \notin {"restored", "confirm"} => WillBeFine(slot'.owner)
             /\ p \in Workers /\ w.pc = "page" => WillBeFine(proc[p].cred)
         /\ env.kind = "lostfilm" => (slot'.owner # None => slot'.owner.sess # 0)
    BY <1>2, <1>8 DEF c
  <1>11. w.pc \in Holding \cup {"wait", "mark", "write"} => w.cred \in Creds
    BY <1>1, <1>2, <1>9
  <1>12. p \in Workers => w.why = "check" /\ (w.pc = "idle" => w.cred = None)
    BY <1>2, <1>7
  <1>13. OwnerKept(p, w)
    BY <1>8, <1>9, <1>10 DEF OwnerKept
  <1> QED BY <1>2, <1>3, <1>4, <1>5, <1>6, <1>8, <1>9, <1>10, <1>11, <1>12, <1>13, Held

\* The holder goes on.
LEMMA HeldGoes ==
    ASSUME Inv, env' = env, row' = row, pend' = pend, hist' \in Histories, hist'.told = hist.told,
           site' \in Sites, jar' \in 0..MaxSession, slot' = slot,
           env.kind = "lostfilm" => site'.acct = site.acct,
           NEW p \in Procs, NEW pc \in Holding \ {"verify"}, proc' = [proc EXCEPT ![p].pc = pc],
           proc[p].pc \in Holding,
           env.kind \in Private \cup {"lostfilm"} =>
             /\ slot.owner # None /\ pc \notin {"restored", "confirm"} => WillBeFine(slot.owner)
             /\ pc \in {"restored", "confirm"} => WillBeFine(proc[p].cred),
           pc \in {"restore", "restored"} => env.kind \in Stored,
           env.kind = "lostfilm" /\ pc \in {"restore", "restored", "confirm"} => proc[p].cred.sess # 0
    PROVE  Inv' /\ RightJar
  <1>1. proc[p] \in Attempts /\ proc[p].cred \in Creds /\ slot \in Slots
    BY DEF Inv, Serialised, Types
  <1>2. PICK w : w = [proc[p] EXCEPT !.pc = pc]
    OBVIOUS
  <1>3. w \in Attempts /\ w.pc = pc /\ w.cred = proc[p].cred /\ w.why = proc[p].why
        /\ w.err = proc[p].err /\ w.late = proc[p].late
    BY <1>1, <1>2 DEF Attempts, Places
  <1>4. proc' = [proc EXCEPT ![p] = w]
    BY <1>2
  <1>5. slot.holder = p /\ (p \in Workers => proc[p].why = "check")
        /\ (proc[p].err = "context" => proc[p].late)
        /\ (slot.last # None => slot.last.err # "context")
    BY DEF Inv, Serialised, OwnErrors
  <1>6. w.pc \in Holding /\ w.pc \notin {"verify", "page", "idle"}
    BY <1>3 DEF Holding
  <1>7. env.kind = "lostfilm" => (slot'.owner # None => slot'.owner.sess # 0)
    BY DEF Inv, StoredOnly
  <1>8. OwnerKept(p, w)
    <2>1. env.kind \in Private \cup {"lostfilm"} =>
             (slot'.last # None /\ slot'.last.err = "ok" => slot'.owner = slot'.last.fp)
      BY DEF Inv, Owned
    <2> QED BY <1>3, <1>6, <2>1 DEF OwnerKept
  <1>9. /\ slot' \in Slots /\ slot'.holder = p /\ w.cred \in Creds
        /\ p \in Workers => w.why = "check" /\ (w.pc = "idle" => w.cred = None)
        /\ w.err = "context" => w.late
        /\ slot'.last # None => slot'.last.err # "context"
    BY <1>1, <1>3, <1>5, <1>6
  <1>10. /\ w.pc \in {"restore", "restored"} => env.kind \in Stored
         /\ env.kind = "lostfilm" /\ w.pc \in {"restore", "restored", "confirm"} => w.cred.sess # 0
    BY <1>3
  <1>11. /\ w.pc \in Holding => slot'.holder = p
         /\ w.pc \in Holding \cup {"wait", "mark", "write"} => w.cred \in Creds
    BY <1>9
  <1>12. env.kind = "lostfilm" =>
             /\ slot'.owner # None => slot'.owner.sess # 0
             /\ w.pc \in {"restore", "restored", "confirm"} => w.cred.sess # 0
    BY <1>7, <1>10
  <1> QED BY <1>3, <1>4, <1>8, <1>9, <1>10, <1>11, <1>12, Held

\* Who is in the shared jar, when nobody is between a sign-in and its outcome.
LEMMA JarIs ==
    ASSUME Inv, env.kind \in Private \cup {"lostfilm"}, slot.owner # None, jar' = jar, site' = site,
           \A q \in Procs : proc[q].pc \notin {"restored", "confirm"}
    PROVE  WillBeFine(slot.owner) /\ Fine(slot.owner)
  BY DEF Inv, Owned, Fine, Identity, WillBeFine

LEMMA Outcomes ==
    /\ "ok" \in Errors /\ "error" \in Errors /\ "context" \in Errors /\ "expired" \in Errors
    /\ "captcha" \in Errors
    /\ \A p \in Procs : \A err : Fails(p, err) => err \in {"error", "context"} /\ (err = "context" => proc[p].late)
  BY DEF Errors, Fails

LEMMA ToLoginIs ==
    ASSUME NEW c
    PROVE  /\ ToLogin(c) \in {"restore", "login"} /\ ToLogin(c) \in Holding \ {"verify"}
           /\ ToLogin(c) = "restore" => env.kind \in Stored /\ c.sess # 0
  BY DEF ToLogin, Restores, Holding

LEMMA HistOf ==
    ASSUME Inv, NEW p
    PROVE  /\ hist \in Histories /\ Count \in Histories /\ Counted(p) \in Histories
           /\ Count.told = hist.told /\ Counted(p).told = hist.told
  BY Counts DEF Inv, Types, Counted

-----------------------------------------------------------------------------
(* Signing in.                                                             *)

LEMMA VerifyInv == ASSUME Inv, NEW p \in Procs, verify(p) PROVE Inv' /\ RightJar
  <1>1. proc[p].pc = "verify" /\ proc[p].pc \in Holding /\ slot.holder = p
    BY DEF verify, Holding, Inv, Serialised
  <1>2. \A q \in Procs : proc[q].pc \notin {"restored", "confirm"}
    BY <1>1, Alone DEF Holding
  <1>3. UNCHANGED <<env, site, jar, row, pend, topic>> /\ site \in Sites /\ jar \in 0..MaxSession
    BY DEF verify, Inv, Types
  <1>4. env.kind \in Private \cup {"lostfilm"} =>
            slot.owner = proc[p].cred /\ (slot.owner # None => WillBeFine(slot.owner))
    BY <1>1, <1>2, <1>3, JarIs DEF Inv, Owned
  <1>5. CASE Settle(p, "ok")
    <2>1. proc[p].cred \in Creds /\ proc[p].cred # None
      BY <1>1, Assumed DEF Inv, Serialised
    <2> QED BY <1>1, <1>3, <1>4, <1>5, <2>1, SettleInv, Outcomes DEF Inv, StoredOnly
  <1>6. CASE /\ proc' = [proc EXCEPT ![p].pc = ToLogin(proc[p].cred)]
             /\ hist' \in {hist, Counted(p)} /\ slot' = slot
    <2> DEFINE pc == ToLogin(proc[p].cred)
    <2>1. pc \in {"restore", "login"} /\ pc \in Holding \ {"verify"}
          /\ (pc = "restore" => env.kind \in Stored /\ proc[p].cred.sess # 0)
      BY ToLoginIs
    <2>2. proc' = [proc EXCEPT ![p].pc = pc]
      BY <1>6
    <2> HIDE DEF pc
    <2>3. hist' \in Histories /\ hist'.told = hist.told
      BY <1>6, HistOf
    <2> QED BY <1>1, <1>3, <1>4, <1>6, <2>1, <2>2, <2>3, HeldGoes
  <1> QED BY <1>5, <1>6 DEF verify, Go

LEMMA RestoreInv == ASSUME Inv, NEW p \in Procs, restoreSession(p) PROVE Inv' /\ RightJar
  <1>1. proc[p].pc = "restore" /\ proc[p].pc \in Holding /\ proc[p].cred \in Creds
        /\ env.kind \in Stored /\ (env.kind = "lostfilm" => proc[p].cred.sess # 0)
    BY DEF restoreSession, Holding, Inv, Serialised, StoredOnly
  <1>2. UNCHANGED <<env, site, row, pend, slot, hist>> /\ jar' = proc[p].cred.sess
        /\ proc' = [proc EXCEPT ![p].pc = "restored"]
    BY DEF restoreSession, Go
  <1>3. jar' \in 0..MaxSession /\ site' \in Sites /\ hist \in Histories
    BY <1>1, <1>2 DEF Creds, Inv, Types
  <1>4. env.kind \in Private \cup {"lostfilm"} => WillBeFine(proc[p].cred)
    BY <1>1, <1>2 DEF WillBeFine, Private, Stored
  <1>5. "restored" \in Holding \ {"verify"}
    BY DEF Holding
  <1> QED BY <1>1, <1>2, <1>3, <1>4, <1>5, HeldGoes

LEMMA RestoredInv == ASSUME Inv, NEW p \in Procs, restored(p) PROVE Inv' /\ RightJar
  <1>1. proc[p].pc = "restored" /\ proc[p].pc \in Holding /\ proc[p].cred \in Creds
        /\ env.kind \in Stored /\ (env.kind = "lostfilm" => proc[p].cred.sess # 0)
    BY DEF restored, Holding, Inv, Serialised, StoredOnly
  <1>2. UNCHANGED <<env, site, jar, row, pend>> /\ site \in Sites /\ jar \in 0..MaxSession
    BY DEF restored, Inv, Types
  <1>3. env.kind \in Private \cup {"lostfilm"} => WillBeFine(proc[p].cred)
    BY <1>1, <1>2 DEF Inv, Owned, Fine, Identity, WillBeFine
  <1>4. ASSUME NEW err \in Errors, Settle(p, err), err = "context" => proc[p].late
        PROVE  Inv' /\ RightJar
    BY <1>1, <1>2, <1>3, <1>4, SettleInv
  <1>5. CASE Go(p, "confirm")
    <2>1. "confirm" \in Holding \ {"verify"} /\ proc' = [proc EXCEPT ![p].pc = "confirm"]
          /\ slot' = slot /\ hist' = hist
      BY <1>5 DEF Holding, Go
    <2> QED BY <1>1, <1>2, <1>3, <2>1, HeldGoes, HistOf
  <1>6. CASE /\ env.kind = "rutracker" /\ proc' = [proc EXCEPT ![p].pc = "login"] /\ slot' = slot
             /\ hist' \in {hist, Counted(p)}
    <2>1. "login" \in Holding \ {"verify"} /\ env.kind \notin Private \cup {"lostfilm"}
      BY <1>6 DEF Holding, Private
    <2>2. hist' \in Histories /\ hist'.told = hist.told
      BY <1>6, HistOf
    <2> QED BY <1>1, <1>2, <1>6, <2>1, <2>2, HeldGoes
  <1> QED
    BY <1>4, <1>5, <1>6, Outcomes DEF restored

LEMMA LoginInv == ASSUME Inv, NEW p \in Procs, login(p) PROVE Inv' /\ RightJar
  <1> DEFINE c == proc[p].cred
  <1>1. proc[p].pc = "login" /\ proc[p].pc \in Holding /\ c \in Creds
        /\ c.user \in Accounts /\ env.kind \in WithCredentials /\ UNCHANGED <<env, row, pend>>
    BY DEF login, Holding, Inv, Serialised, Creds
  <1>2. site \in Sites /\ jar \in 0..MaxSession
    BY DEF Inv, Types
  <1>3. CASE \E err \in {"error", "context"} : Fails(p, err) /\ Settle(p, err) /\ UNCHANGED <<site, jar>>
    BY <1>1, <1>2, <1>3, SettleInv, Outcomes
  <1>4. ASSUME NEW res \in Login(env.kind, Right(c), Live(jar)),
               res.jar = "new" => Fresh # {},
               site' = IF res.jar = "new" THEN SignedIn(c.user) ELSE site,
               jar' = CASE res.jar = "new" -> NewSession [] res.jar = "guest" -> 0 [] OTHER -> jar,
               IF res.err = "ok" /\ Validates(p) THEN Go(p, "confirm") ELSE Settle(p, res.err)
        PROVE  Inv' /\ RightJar
    <2>1. /\ res.err \in Errors \ {"context"} /\ res.jar \in {"new", "guest", "kept"}
          /\ env.kind = "lostfilm" => res.err = "expired" /\ res.jar = "kept"
          /\ env.kind \in Private /\ res.err = "ok" => res.jar \in {"new", "guest"}
      BY <1>1, <1>4
      DEF WithCredentials, Private, Stored, Login, RuTrackerLogin, KinozalLogin, TapochekLogin, TolokaLogin,
          AniDubLogin, LostFilmLogin, Result, Errors
    <2>2. site' \in Sites /\ jar' \in 0..MaxSession /\ (res.jar # "new" => site' = site)
          /\ (res.jar = "new" => site'.acct[jar'] = c.user) /\ (res.jar = "guest" => jar' = 0)
      <3>1. CASE res.jar = "new"
        <4>1. site' = SignedIn(c.user) /\ jar' = NewSession
          BY <1>4, <3>1
        <4> QED BY <1>1, <1>4, <3>1, <4>1, NewId, Assumed DEF Inv
      <3>2. CASE res.jar = "guest"
        BY <1>2, <1>4, <3>2, Assumed
      <3>3. CASE res.jar = "kept"
        BY <1>2, <1>4, <3>3
      <3> QED BY <2>1, <3>1, <3>2, <3>3
    <2>3. env.kind \in Private \cup {"lostfilm"} /\ res.err = "ok" => WillBeFine(c)
      BY <2>1, <2>2 DEF WillBeFine, Private
    <2>4. CASE res.err = "ok" /\ Validates(p)
      <3>1. "confirm" \in Holding \ {"verify"} /\ proc' = [proc EXCEPT ![p].pc = "confirm"]
            /\ slot' = slot /\ hist' = hist
        BY <1>4, <2>4 DEF Holding, Go
      <3> QED BY <1>1, <2>1, <2>2, <2>3, <2>4, <3>1, HeldGoes, HistOf
    <2>5. CASE ~(res.err = "ok" /\ Validates(p))
      <3>1. Settle(p, res.err)
        BY <1>4, <2>5
      <3> QED BY <1>1, <2>1, <2>2, <2>3, <3>1, SettleInv
    <2> QED BY <2>4, <2>5
  <1> QED BY <1>3, <1>4 DEF login

LEMMA ConfirmInv == ASSUME Inv, NEW p \in Procs, confirm(p) PROVE Inv' /\ RightJar
  <1>1. proc[p].pc = "confirm" /\ proc[p].pc \in Holding /\ UNCHANGED <<env, site, jar, row, pend>>
        /\ (env.kind = "lostfilm" => proc[p].cred.sess # 0)
    BY DEF confirm, Holding, Inv, StoredOnly
  <1>2. site \in Sites /\ jar \in 0..MaxSession
    BY DEF Inv, Types
  <1>3. env.kind \in Private \cup {"lostfilm"} => WillBeFine(proc[p].cred)
    BY <1>1 DEF Inv, Owned, Fine, Identity, WillBeFine
  <1>4. PICK err \in Errors : Settle(p, err) /\ (err = "context" => proc[p].late)
    BY Outcomes DEF confirm
  <1> QED BY <1>1, <1>2, <1>3, <1>4, SettleInv

LEMMA AcquireInv == ASSUME Inv, NEW p \in Procs, acquire(p) PROVE Inv' /\ RightJar
  <1>1. /\ proc[p].pc = "wait" /\ slot.holder = None /\ proc[p].cred \in Creds /\ proc[p] \in Attempts
        /\ slot \in Slots /\ hist \in Histories /\ site \in Sites /\ jar \in 0..MaxSession
        /\ env.kind \in WithCredentials /\ row \in Rows \cup {None} /\ pend \in Challenges \cup {None}
    BY DEF acquire, Inv, Types, Serialised
  <1>2. UNCHANGED <<env, site, jar, row, pend, hist>>
    BY DEF acquire
  <1>3. \A q \in Procs : proc[q].pc \notin Holding
    BY <1>1, Alone DEF Holding
  <1>4. env.kind \in Private \cup {"lostfilm"} /\ slot.owner # None => WillBeFine(slot.owner) /\ Fine(slot.owner)
    BY <1>2, <1>3, JarIs DEF Holding
  <1>5. /\ proc[p].err = "context" => proc[p].late
        /\ slot.last # None => slot.last.err # "context"
        /\ p \in Workers => proc[p].why = "check"
    BY DEF Inv, OwnErrors, Serialised
  <1>6. CASE /\ Inherits(p) /\ slot' = slot /\ proc' = [proc EXCEPT ![p] = Answered(p, slot.last.err)]
    <2>1. slot.last # None /\ slot.last.fp = proc[p].cred /\ slot.last.err \in Errors
      BY <1>1, <1>6 DEF Inherits, Slots
    <2> DEFINE w == Answered(p, slot.last.err)
    <2>2. /\ w \in Attempts /\ w.pc \in {"write", "page", "mark", "idle"} /\ w.late = proc[p].late
          /\ w.err \in {slot.last.err, proc[p].err}
          /\ w.pc = "idle" => w.cred = None /\ w.why = "check"
          /\ w.pc # "idle" => w.cred = proc[p].cred /\ w.why = proc[p].why
          /\ p \in Workers /\ w.pc = "page" => slot.last.err = "ok"
      BY <2>1, Answers DEF Inv
    <2>3. proc' = [proc EXCEPT ![p] = w]
      BY <1>6
    <2> HIDE DEF w
    <2>4. p \in Workers /\ Begins(p) /\ env.kind \in Private \cup {"lostfilm"} => Fine(proc[p].cred)
      <3>1. proc'[p] = w
        BY <2>2, <2>3, Puts DEF Inv
      <3>2. env.kind \in Private \cup {"lostfilm"} /\ slot.last.err = "ok" => slot.owner = proc[p].cred
        BY <2>1 DEF Inv, Owned
      <3>3. proc[p].cred # None
        BY <1>1, Assumed
      <3> QED BY <1>4, <2>2, <3>1, <3>2, <3>3 DEF Begins
    <2>5. w.pc \notin Holding /\ proc[p].pc \notin Holding
      BY <1>3, <2>2 DEF Holding
    <2>6. /\ w.pc \in {"wait", "mark", "write"} => w.cred \in Creds
          /\ w.pc \in {"wait", "write"} => env.kind \in WithCredentials
          /\ p \in Workers => w.why = "check" /\ (w.pc = "idle" => w.cred = None)
          /\ w.err = "context" => w.late
      BY <1>1, <1>5, <2>1, <2>2
    <2>7. Remembered' /\ (row' # None \/ pend' # None => env.kind \in WithCredentials)
      BY <1>1, <1>2 DEF Inv, Remembered
    <2> QED BY <1>1, <1>2, <1>6, <2>2, <2>3, <2>4, <2>5, <2>6, <2>7, Aside
  <1>7. CASE /\ slot' = [slot EXCEPT !.holder = p]
             /\ proc' = [proc EXCEPT ![p].pc =
                    IF ~Validates(p) /\ Owns(p) THEN "verify" ELSE ToLogin(proc[p].cred)]
    <2> DEFINE pc == IF ~Validates(p) /\ Owns(p) THEN "verify" ELSE ToLogin(proc[p].cred)
    <2>1. /\ pc \in {"verify", "restore", "login"}
          /\ pc = "verify" => slot.owner = proc[p].cred
          /\ pc = "restore" => env.kind \in Stored /\ proc[p].cred.sess # 0
      BY ToLoginIs DEF Owns
    <2>2. proc' = [proc EXCEPT ![p].pc = pc]
      BY <1>7
    <2> HIDE DEF pc
    <2>3. PICK w : w = [proc[p] EXCEPT !.pc = pc]
      OBVIOUS
    <2>4. w \in Attempts /\ w.pc = pc /\ w.cred = proc[p].cred /\ w.why = proc[p].why
          /\ w.err = proc[p].err /\ w.late = proc[p].late
      BY <1>1, <2>1, <2>3 DEF Attempts, Places, Holding
    <2>5. proc' = [proc EXCEPT ![p] = w]
      BY <2>2, <2>3
    <2>6. slot' \in Slots /\ slot'.holder = p /\ slot'.owner = slot.owner /\ slot'.last = slot.last
      BY <1>1, <1>7 DEF Slots
    <2>7. OwnerKept(p, w)
      <3>1. env.kind \in Private \cup {"lostfilm"} =>
               (slot'.last # None /\ slot'.last.err = "ok" => slot'.owner = slot'.last.fp)
        BY <2>6 DEF Inv, Owned
      <3> QED BY <1>4, <2>1, <2>4, <2>6, <3>1 DEF OwnerKept
    <2>8. env.kind = "lostfilm" =>
             /\ slot'.owner # None => slot'.owner.sess # 0
             /\ w.pc \in {"restore", "restored", "confirm"} => w.cred.sess # 0
      BY <2>1, <2>4, <2>6 DEF Inv, StoredOnly
    <2>9. /\ w.pc \in Holding => slot'.holder = p
          /\ w.pc \in Holding \cup {"wait", "mark", "write"} => w.cred \in Creds
          /\ p \in Workers => w.why = "check" /\ (w.pc = "idle" => w.cred = None)
          /\ w.pc \in {"restore", "restored"} => env.kind \in Stored
          /\ slot'.last # None => slot'.last.err # "context"
          /\ w.err = "context" => w.late
      BY <1>1, <1>5, <2>1, <2>4, <2>6
    <2>10. hist'.told = hist.told /\ site' = site
      BY <1>2
    <2> QED BY <1>1, <1>2, <2>4, <2>5, <2>6, <2>7, <2>8, <2>9, <2>10, Held
  <1> QED BY <1>6, <1>7 DEF acquire

LEMMA ExpireInv == ASSUME Inv, NEW p \in Procs, Expire(p) PROVE Inv' /\ RightJar
  <1>1. /\ proc[p] \in Attempts /\ slot \in Slots /\ site \in Sites /\ jar \in 0..MaxSession
        /\ row \in Rows \cup {None} /\ pend \in Challenges \cup {None}
        /\ (row # None \/ pend # None => env.kind \in WithCredentials)
    BY DEF Inv, Types, Serialised
  <1>2. UNCHANGED <<env, site, jar, row, slot, pend>> /\ hist' \in Histories /\ hist'.told = hist.told
    BY HistOf DEF Expire
  <1>3. Remembered'
    BY <1>2 DEF Inv, Remembered
  <1>4. CASE proc[p].pc = "wait"
    <2>1. PICK w : w = [Idle EXCEPT !.err = "context", !.late = TRUE]
      OBVIOUS
    <2>0. "context" \in Errors /\ TRUE \in BOOLEAN
      BY Outcomes
    <2>2. w \in Attempts /\ w.pc = "idle" /\ w.cred = None /\ w.why = "check" /\ w.late
      BY <2>0, <2>1 DEF Idle, Attempts, Places
    <2>3. proc' = [proc EXCEPT ![p] = w]
      BY <1>4, <2>1 DEF Expire
    <2>4. w.pc \notin Holding /\ proc[p].pc \notin Holding
      BY <1>4, <2>2 DEF Holding
    <2>5. ~Begins(p)
      BY <2>2, <2>3, Puts DEF Begins, Inv
    <2> QED BY <1>1, <1>2, <1>3, <2>2, <2>3, <2>4, <2>5, Aside
  <1>5. CASE proc[p].pc # "wait"
    <2>1. PICK w : w = [proc[p] EXCEPT !.late = TRUE]
      OBVIOUS
    <2>2. w \in Attempts /\ w.pc = proc[p].pc /\ w.cred = proc[p].cred /\ w.why = proc[p].why
          /\ w.err = proc[p].err /\ w.late
      BY <1>1, <2>1 DEF Attempts
    <2>3. proc' = [proc EXCEPT ![p] = w]
      BY <1>5, <2>1 DEF Expire
    <2>4. proc' \in [Procs -> Attempts] /\ proc'[p] = w /\ \A q \in Procs \ {p} : proc'[q] = proc[q]
      BY <2>2, <2>3, Puts DEF Inv
    <2>5. \A q \in Procs : Stays(q)
      BY <2>2, <2>4 DEF Stays
    <2>6. Types'
      BY <1>2, <2>4 DEF Inv, Types
    <2> QED BY <1>1, <1>2, <1>3, <2>5, <2>6, Bystander
  <1> QED BY <1>4, <1>5

-----------------------------------------------------------------------------
(* The check without the slot, and the user's requests.                    *)

LEMMA Given ==
    ASSUME Inv
    PROVE  /\ env.kind \in Kinds /\ site \in Sites /\ jar \in 0..MaxSession /\ row \in Rows \cup {None}
           /\ slot \in Slots /\ proc \in [Procs -> Attempts] /\ pend \in Challenges \cup {None}
           /\ hist \in Histories /\ Remembered
           /\ (row # None \/ pend # None => env.kind \in WithCredentials)
  BY DEF Inv, Types, Serialised

LEMMA LoadInv == ASSUME Inv, NEW p \in Workers, loadCredentials(p) PROVE Inv' /\ RightJar
  <1>1. p \in Procs /\ proc[p].pc = "idle" /\ proc[p].cred = None /\ ~Begins(p)
    BY DEF loadCredentials, Procs, Inv, Serialised, Begins
  <1>2. UNCHANGED <<env, site, jar, row, pend, hist>> /\ Remembered'
    BY Given DEF loadCredentials, Remembered
  <1>3. slot' \in Slots /\ slot'.owner = slot.owner /\ slot'.last = slot.last /\ slot'.holder = slot.holder
    <2>1. slot \in Slots /\ slot' = [slot EXCEPT !.heirs = @ \ {p}]
      BY Given DEF loadCredentials
    <2> QED BY <2>1 DEF Slots
  <1>4. PICK w : /\ proc' = [proc EXCEPT ![p] = w] /\ w \in Attempts /\ w.why = "check" /\ w.err = "ok"
                 /\ \/ w.pc = "page"
                    \/ w.pc = "wait" /\ w.cred \in Creds /\ env.kind \in WithCredentials
    <2>1. CASE row = None \/ env.kind \notin WithCredentials
      <3> DEFINE w == [Idle EXCEPT !.pc = "page"]
      <3>1. w \in Attempts /\ w.why = "check" /\ w.err = "ok" /\ w.pc = "page"
        BY DEF Idle, Attempts, Places, Errors
      <3>2. proc' = [proc EXCEPT ![p] = w]
        BY <2>1 DEF loadCredentials
      <3> QED BY <3>1, <3>2
    <2>2. CASE row # None /\ env.kind \in WithCredentials
      <3>1. row \in Rows
        BY <2>2, Given
      <3>2. row.id \in Nat /\ row.expired \in BOOLEAN /\ Cred(row.user, row.pass, row.sess) \in Creds
        BY <3>1 DEF Rows, Cred, Creds
      <3> DEFINE w == [Idle EXCEPT !.pc = "wait", !.cred = Cred(row.user, row.pass, row.sess),
                                   !.id = row.id, !.marked = row.expired]
      <3>3. w \in Attempts /\ w.why = "check" /\ w.err = "ok" /\ w.pc = "wait" /\ w.cred \in Creds
        BY <3>2 DEF Idle, Attempts, Places, Errors
      <3>4. proc' = [proc EXCEPT ![p] = w]
        BY <2>2 DEF loadCredentials
      <3> QED BY <2>2, <3>3, <3>4
    <2> QED BY <2>1, <2>2
  <1>5. w.pc \notin Holding /\ proc[p].pc \notin Holding
    BY <1>1, <1>4 DEF Holding
  <1>6. /\ w.pc \in {"wait", "mark", "write"} => w.cred \in Creds
        /\ w.pc \in {"wait", "write"} => env.kind \in WithCredentials
        /\ w.pc = "idle" => w.cred = None
        /\ w.err = "context" => w.late
    BY <1>4
  <1> QED BY <1>1, <1>2, <1>3, <1>4, <1>5, <1>6, Given, Aside

LEMMA MarkInv == ASSUME Inv, NEW p \in Workers, MarkSessionExpired(p) PROVE Inv' /\ RightJar
  <1>1. p \in Procs /\ proc[p].pc = "mark" /\ proc[p].pc \notin Holding
    BY DEF MarkSessionExpired, Procs, Holding
  <1>2. UNCHANGED <<env, site, jar, slot, pend>>
    BY DEF MarkSessionExpired
  <1>3. /\ hist' \in Histories /\ row' \in Rows \cup {None} /\ Remembered'
        /\ row' # None \/ pend' # None => env.kind \in WithCredentials
    <2>1. CASE Transitions(p)
      <3>1. row \in Rows /\ row.expired = FALSE /\ hist.told \in Nat /\ hist.told <= 1 /\ hist.told # 1
        BY <2>1, Given DEF Transitions, Histories, Remembered, Rows
      <3>2. hist.told = 0 /\ hist' = [hist EXCEPT !.told = 1]
        BY <2>1, <3>1 DEF MarkSessionExpired
      <3>3. row' = [row EXCEPT !.expired = TRUE]
        BY <2>1 DEF MarkSessionExpired
      <3>4. hist' \in Histories /\ hist'.told = 1
        BY <3>2, Given DEF Histories
      <3>5. row' \in Rows /\ row'.expired
        BY <3>1, <3>3 DEF Rows
      <3>6. row # None
        BY <2>1 DEF Transitions
      <3> QED BY <1>2, <3>4, <3>5, <3>6, Given DEF Remembered
    <2>2. CASE ~Transitions(p)
      BY <1>2, <2>2, Given DEF MarkSessionExpired, Remembered
    <2> QED BY <2>1, <2>2
  <1>4. proc[p].err \in Errors /\ proc[p].late \in BOOLEAN /\ (proc[p].err = "context" => proc[p].late)
    BY <1>1, Given DEF Attempts, Inv, OwnErrors
  <1>5. PICK w : w = [Idle EXCEPT !.err = proc[p].err, !.late = proc[p].late]
    OBVIOUS
  <1>6. w \in Attempts /\ w.pc = "idle" /\ w.cred = None /\ w.why = "check"
        /\ w.err = proc[p].err /\ w.late = proc[p].late
    BY <1>4, <1>5 DEF Idle, Attempts, Places
  <1>7. proc' = [proc EXCEPT ![p] = w]
    BY <1>5 DEF MarkSessionExpired
  <1>8. ~Begins(p) /\ w.pc \notin Holding
    BY <1>1, <1>6, <1>7, Puts DEF Begins, Holding, Inv
  <1> QED BY <1>1, <1>2, <1>3, <1>4, <1>6, <1>7, <1>8, Given, Aside

LEMMA AskInv ==
    ASSUME Inv, NEW why \in {"create", "update", "test", "warm"}, NEW c \in Creds, NEW id \in Nat,
           Free, env.kind \in WithCredentials, Ask(why, c, id)
    PROVE  Inv' /\ RightJar
  <1>1. User \in Procs /\ User \notin Workers /\ proc[User].pc \notin Holding
    BY Assumed DEF Procs, Free, Holding
  <1>2. UNCHANGED <<env, site, jar, row, slot, pend>> /\ hist' \in Histories /\ hist'.told = hist.told
    BY HistOf DEF Ask
  <1>3. Remembered'
    BY <1>2, Given DEF Remembered
  <1>4. PICK w : w = [Idle EXCEPT !.pc = "wait", !.why = why, !.cred = c, !.id = id]
    OBVIOUS
  <1>5. w \in Attempts /\ w.pc = "wait" /\ w.cred = c /\ w.err = "ok"
    BY <1>4 DEF Idle, Attempts, Places, Errors
  <1>6. proc' = [proc EXCEPT ![User] = w] /\ w.pc \notin Holding
    BY <1>4, <1>5 DEF Ask, Holding
  <1>7. /\ w.pc \in {"wait", "mark", "write"} => w.cred \in Creds
        /\ w.err = "context" => w.late
    BY <1>5
  <1> QED BY <1>1, <1>2, <1>3, <1>5, <1>6, <1>7, Given, Aside

LEMMA WriteInv == ASSUME Inv, Write PROVE Inv' /\ RightJar
  <1>1. User \in Procs /\ User \notin Workers /\ proc[User].pc = "write" /\ proc[User].pc \notin Holding
        /\ env.kind \in WithCredentials
    BY Assumed DEF Procs, Write, Holding, Inv, Serialised
  <1>2. UNCHANGED <<env, site, jar, slot, pend>>
    BY DEF Write
  <1>3. proc[User].cred \in Creds
    BY <1>1 DEF Inv, Serialised
  <1>4. proc[User].cred.user \in Accounts /\ proc[User].cred.pass \in Accounts
    BY <1>3 DEF Creds
  <1>5. \/ row = None /\ row' = CreateRow(proc[User].cred.user, proc[User].cred.pass, 0)
        \/ row # None /\ row' = UpdateRow(proc[User].cred.user, proc[User].cred.pass)
        \/ row' = row
    BY DEF Write
  <1>6. /\ row' \in Rows \cup {None}
        /\ row = None /\ row' # None => row'.id \in Nat
        /\ row # None /\ row' # None => row'.expired = row.expired
    <2>1. CASE row = None /\ row' = CreateRow(proc[User].cred.user, proc[User].cred.pass, 0)
      <3>1. PICK n \in Nat : n = hist.ids + 1
        BY Given DEF Histories
      <3> QED BY <1>4, <2>1, <3>1, Assumed DEF CreateRow, Rows
    <2>2. CASE row # None /\ row' = UpdateRow(proc[User].cred.user, proc[User].cred.pass)
      <3>1. row \in Rows
        BY <2>2, Given
      <3>2. row' \in Rows /\ row'.expired = row.expired
        BY <1>4, <2>2, <3>1 DEF UpdateRow, Rows
      <3> QED BY <2>2, <3>2
    <2>3. CASE row' = row
      BY <2>3, Given
    <2> QED BY <1>5, <2>1, <2>2, <2>3
  <1>7. hist' \in Histories /\ Remembered'
    <2>1. CASE row = None /\ row' # None
      <3>1. hist' = [hist EXCEPT !.told = 0, !.ids = row'.id]
        BY <2>1 DEF Write
      <3>2. hist' \in Histories /\ hist'.told = 0
        BY <1>6, <2>1, <3>1, Given DEF Histories
      <3> QED BY <3>2 DEF Remembered
    <2>2. CASE ~(row = None /\ row' # None)
      BY <1>6, <2>2, Given DEF Write, Remembered
    <2> QED BY <2>1, <2>2
  <1>8. Idle \in Attempts /\ Idle.pc = "idle" /\ Idle.err = "ok" /\ Idle.pc \notin Holding
    BY DEF Idle, Attempts, Places, Errors, Holding
  <1>9. proc' = [proc EXCEPT ![User] = Idle]
    BY DEF Write
  <1>10. /\ Idle.pc \in {"wait", "mark", "write"} => Idle.cred \in Creds
         /\ Idle.err = "context" => Idle.late
    BY <1>8
  <1> QED BY <1>1, <1>2, <1>6, <1>7, <1>8, <1>9, <1>10, Given, Aside

\* A check reads on or ends.
LEMMA ReadsInv ==
    ASSUME Inv, NEW p \in Workers, proc[p].pc \in {"page", "topic", "file"},
           UNCHANGED <<env, site, jar, row, slot, pend>>, hist' \in {hist, Count},
           \/ \E err \in {"ok", "error", "expired"} : Done(p, err)
           \/ \E pc \in {"topic", "file"}, found \in Nat, tok \in SUBSET (Cells \X Nat) :
                 proc' = [proc EXCEPT ![p] =
                    [@ EXCEPT !.pc = pc, !.tok = tok, !.found = found, !.page = site.rel]]
           \/ proc' = [proc EXCEPT ![p] = [@ EXCEPT !.pc = "file", !.page = site.rel]]
    PROVE  Inv' /\ RightJar
  <1>1. p \in Procs /\ proc[p].pc \notin Holding /\ proc[p] \in Attempts
        /\ proc[p].why = "check" /\ (proc[p].err = "context" => proc[p].late)
    BY Given DEF Procs, Holding, Inv, Serialised, OwnErrors
  <1>2. hist' \in Histories /\ hist'.told = hist.told
    BY HistOf
  <1>3. Remembered'
    BY <1>2, Given DEF Remembered
  <1>4. site.rel \in Nat
    BY Given, Assumed DEF Sites
  <1>5. PICK w : /\ proc' = [proc EXCEPT ![p] = w] /\ w \in Attempts /\ w.why = "check"
                 /\ w.err = "context" => w.late
                 /\ w.pc \in {"topic", "file"} \/ (w.pc = "idle" /\ w.cred = None)
    <2>1. ASSUME NEW err \in {"ok", "error", "expired"}, Done(p, err)
          PROVE  \E w : /\ proc' = [proc EXCEPT ![p] = w] /\ w \in Attempts /\ w.why = "check"
                        /\ w.err = "context" => w.late
                        /\ w.pc \in {"topic", "file"} \/ (w.pc = "idle" /\ w.cred = None)
      <3> DEFINE w == [Idle EXCEPT !.err = err]
      <3>1. w \in Attempts /\ w.why = "check" /\ w.err = err /\ w.pc = "idle" /\ w.cred = None
        BY DEF Idle, Attempts, Places, Errors
      <3>2. proc' = [proc EXCEPT ![p] = w]
        BY <2>1 DEF Done
      <3> QED BY <3>1, <3>2
    <2>2. ASSUME NEW pc \in {"topic", "file"}, NEW found \in Nat, NEW tok \in SUBSET (Cells \X Nat),
                 proc' = [proc EXCEPT ![p] =
                    [@ EXCEPT !.pc = pc, !.tok = tok, !.found = found, !.page = site.rel]]
          PROVE  \E w : /\ proc' = [proc EXCEPT ![p] = w] /\ w \in Attempts /\ w.why = "check"
                        /\ w.err = "context" => w.late
                        /\ w.pc \in {"topic", "file"} \/ (w.pc = "idle" /\ w.cred = None)
      <3> DEFINE w == [proc[p] EXCEPT !.pc = pc, !.tok = tok, !.found = found, !.page = site.rel]
      <3>1. w \in Attempts /\ w.why = "check" /\ (w.err = "context" => w.late) /\ w.pc \in {"topic", "file"}
        BY <1>1, <1>4 DEF Attempts, Places
      <3>2. proc' = [proc EXCEPT ![p] = w]
        BY <2>2
      <3> QED BY <3>1, <3>2
    <2>3. ASSUME proc' = [proc EXCEPT ![p] = [@ EXCEPT !.pc = "file", !.page = site.rel]]
          PROVE  \E w : /\ proc' = [proc EXCEPT ![p] = w] /\ w \in Attempts /\ w.why = "check"
                        /\ w.err = "context" => w.late
                        /\ w.pc \in {"topic", "file"} \/ (w.pc = "idle" /\ w.cred = None)
      <3> DEFINE w == [proc[p] EXCEPT !.pc = "file", !.page = site.rel]
      <3>1. w \in Attempts /\ w.why = "check" /\ (w.err = "context" => w.late) /\ w.pc \in {"topic", "file"}
        BY <1>1, <1>4 DEF Attempts, Places
      <3>2. proc' = [proc EXCEPT ![p] = w]
        BY <2>3
      <3> QED BY <3>1, <3>2
    <2> QED BY <2>1, <2>2, <2>3
  <1>6. ~Begins(p) /\ w.pc \notin Holding
    BY <1>1, <1>5, Puts DEF Begins, Holding, Inv
  <1>7. /\ w.pc \in {"wait", "mark", "write"} => w.cred \in Creds
        /\ w.pc \in {"wait", "write"} => env.kind \in WithCredentials
        /\ w.pc = "idle" => w.cred = None
    BY <1>5
  <1> QED BY <1>1, <1>2, <1>3, <1>5, <1>6, <1>7, Given, Aside

LEMMA CheckInv == ASSUME Inv, NEW p \in Workers, Check(p) PROVE Inv' /\ RightJar
  <1>1. proc[p].pc = "page" /\ UNCHANGED <<env, site, jar, row, slot, pend>> /\ hist' \in {hist, Count}
    BY DEF Check
  <1>2. gateError(p) \in {"ok", "error", "expired"}
    BY DEF gateError
  <1>3. CASE \E err \in {"ok", "error", "expired"} : Done(p, err)
    BY <1>1, <1>3, ReadsInv
  <1>4. ASSUME NEW tok \in Tokens(p), env.kind # "lostfilm",
               IF tok = {} THEN Done(p, gateError(p))
               ELSE IF tok = topic[p].tok THEN Done(p, "ok")
               ELSE proc' = [proc EXCEPT ![p] =
                     [@ EXCEPT !.pc = IF ReadsTopicPage(env.kind) THEN "topic" ELSE "file",
                               !.tok = tok, !.found = site.rel, !.page = site.rel]]
        PROVE  Inv' /\ RightJar
    <2>1. tok \in SUBSET (Cells \X Nat)
      <3>1. ErrorPageToken \in SUBSET (Cells \X Nat)
        BY DEF ErrorPageToken, Cells
      <3>2. Token(env.kind, Page(Live(Jar(p)))) \in SUBSET (Cells \X Nat)
        BY <1>4, TokenCells DEF Inv
      <3> QED BY <1>4, <3>1, <3>2 DEF Tokens
    <2>2. CASE proc' = [proc EXCEPT ![p] =
                     [@ EXCEPT !.pc = IF ReadsTopicPage(env.kind) THEN "topic" ELSE "file",
                               !.tok = tok, !.found = site.rel, !.page = site.rel]]
      <3>1. site.rel \in Nat
        BY Given, Assumed DEF Sites
      <3> DEFINE pc == IF ReadsTopicPage(env.kind) THEN "topic" ELSE "file"
      <3>2. pc \in {"topic", "file"}
        OBVIOUS
      <3>3. proc' = [proc EXCEPT ![p] =
                    [@ EXCEPT !.pc = pc, !.tok = tok, !.found = site.rel, !.page = site.rel]]
        BY <2>2
      <3> HIDE DEF pc
      <3> QED BY <1>1, <2>1, <3>1, <3>2, <3>3, ReadsInv
    <2> QED BY <1>2, <1>3, <1>4, <2>2
  <1> QED BY <1>3, <1>4 DEF Check

LEMMA FetchInv == ASSUME Inv, NEW p \in Workers, FetchTopicPage(p) PROVE Inv' /\ RightJar
  <1>1. proc[p].pc = "topic" /\ UNCHANGED <<env, site, jar, row, slot, pend>> /\ hist' \in {hist, Count}
    BY DEF FetchTopicPage
  <1> QED BY <1>1, ReadsInv DEF FetchTopicPage

LEMMA DownloadInv == ASSUME Inv, NEW p \in Workers, Download(p) PROVE Inv' /\ RightJar
  <1>1. proc[p].pc = "file" /\ UNCHANGED <<env, site, jar, row, slot, pend>> /\ hist' \in {hist, Count}
    BY DEF Download
  <1>2. \E err \in {"ok", "error", "expired"} : Done(p, err)
    BY DEF Download, gateError
  <1> QED BY <1>1, <1>2, ReadsInv

LEMMA UserInv ==
    ASSUME Inv, NEW u \in Accounts, NEW pw \in Accounts,
           Create(u, pw) \/ Update(u, pw) \/ Test \/ Warm
    PROVE  Inv' /\ RightJar
  <1>1. Cred(u, pw, 0) \in Creds
    BY Assumed DEF Cred, Creds
  <1>2. row # None => /\ row.id \in Nat /\ Cred(row.user, row.pass, row.sess) \in Creds
                      /\ env.kind \in WithCredentials
    BY Given DEF Rows, Cred, Creds
  <1>3. CASE Create(u, pw)
    BY <1>1, <1>3, AskInv DEF Create
  <1>4. CASE Update(u, pw)
    BY <1>1, <1>2, <1>4, AskInv DEF Update
  <1>5. CASE Test
    BY <1>2, <1>5, AskInv DEF Test
  <1>6. CASE Warm
    BY <1>2, <1>6, AskInv DEF Warm
  <1> QED BY <1>3, <1>4, <1>5, <1>6

LEMMA StillInv ==
    ASSUME Inv, NEW u \in Accounts,
           Rename(u) \/ Delete \/ Refresh \/ Abandon \/ Kill \/ Publish \/ Drift \/ Noise
    PROVE  Inv' /\ RightJar
  <1>1. env' = env /\ jar' = jar /\ proc' = proc /\ slot' = slot /\ hist' \in {hist, Count}
    BY DEF Rename, Delete, Refresh, Abandon, Kill, Publish, Drift, Noise
  <1>2. hist' \in Histories /\ hist'.told = hist.told
    BY <1>1, HistOf
  <1>3. /\ row' \in Rows \cup {None}
        /\ row' # None => row # None /\ row'.expired = row.expired
    <2>1. CASE Rename(u)
      <3>1. row \in Rows /\ row # None /\ row' = UpdateRow(u, row.pass)
        BY <2>1, Given DEF Rename
      <3>2. row' \in Rows /\ row'.expired = row.expired
        BY <3>1 DEF UpdateRow, Rows
      <3> QED BY <3>1, <3>2
    <2>2. CASE Delete
      BY <2>2 DEF Delete
    <2>3. CASE ~Rename(u) /\ ~Delete
      <3>1. row' = row
        BY <2>3 DEF Refresh, Abandon, Kill, Publish, Drift, Noise
      <3> QED BY <3>1, Given
    <2> QED BY <2>1, <2>2, <2>3
  <1>4. /\ pend' \in Challenges \cup {None}
        /\ pend' # None => pend # None
    <2>1. CASE Refresh
      <3>1. pend \in Challenges /\ pend # None
        BY <2>1, Given DEF Refresh
      <3>2. PICK n \in Nat : n = pend.sid + 1
        BY <3>1 DEF Challenges
      <3>3. PICK shown \in BOOLEAN : pend' = [pend EXCEPT !.sid = n, !.seen = IF shown THEN n ELSE pend.seen]
        BY <2>1, <3>2 DEF Refresh
      <3>4. PICK m \in Nat : pend' = [pend EXCEPT !.sid = n, !.seen = m]
        BY <3>1, <3>2, <3>3 DEF Challenges
      <3>5. pend' \in Challenges
        BY <3>1, <3>2, <3>4 DEF Challenges
      <3> QED BY <3>1, <3>5
    <2>2. CASE Abandon
      BY <2>2 DEF Abandon
    <2>3. CASE ~Refresh /\ ~Abandon
      <3>1. pend' = pend
        BY <2>3 DEF Rename, Delete, Kill, Publish, Drift, Noise
      <3> QED BY <3>1, Given
    <2> QED BY <2>1, <2>2, <2>3
  <1>5. site' \in Sites /\ site'.acct = site.acct
    <2>0. site \in Sites
      BY Given
    <2>1. CASE Kill
      <3>1. PICK s \in site.live : site' = [site EXCEPT !.live = site.live \ {s}]
        BY <2>1 DEF Kill
      <3> QED BY <2>0, <3>1 DEF Sites
    <2>2. CASE Publish
      <3>1. site.rel + 1 \in Releases /\ site' = [site EXCEPT !.rel = site.rel + 1]
        BY <2>0, <2>2, SessionsAssumption DEF Publish, Sites, Releases, SessionsAssumption
      <3>2. PICK n \in Releases : site' = [site EXCEPT !.rel = n]
        BY <3>1
      <3> QED BY <2>0, <3>2 DEF Sites
    <2>3. CASE Drift
      <3>1. PICK shown \in SUBSET Cells : site' = [site EXCEPT !.shown = shown]
        <4>1. PICK c \in Cells \ {"seeds"} :
                 site' = [site EXCEPT !.shown = IF c \in site.shown THEN site.shown \ {c} ELSE site.shown \cup {c}]
          BY <2>3 DEF Drift
        <4> QED BY <2>0, <4>1 DEF Sites
      <3> QED BY <2>0, <3>1 DEF Sites
    <2>4. CASE Noise
      <3>1. 1 - site.seeds \in {0, 1} /\ site' = [site EXCEPT !.seeds = 1 - site.seeds]
        BY <2>0, <2>4 DEF Noise, Sites
      <3>2. PICK n \in {0, 1} : site' = [site EXCEPT !.seeds = n]
        BY <3>1
      <3> QED BY <2>0, <3>2 DEF Sites
    <2>5. CASE ~Kill /\ ~Publish /\ ~Drift /\ ~Noise
      <3>1. site' = site
        BY <2>5 DEF Rename, Delete, Refresh, Abandon
      <3> QED BY <2>0, <3>1
    <2> QED BY <2>1, <2>2, <2>3, <2>4, <2>5
  <1>6. Remembered' /\ (row' # None \/ pend' # None => env.kind \in WithCredentials)
    BY <1>2, <1>3, <1>4, Given DEF Remembered
  <1> QED BY <1>1, <1>2, <1>3, <1>4, <1>5, <1>6, Still

LEMMA ForgetInv == ASSUME Inv, Forget PROVE Inv' /\ RightJar
  <1>1. UNCHANGED <<env, site, row, slot, proc, pend>> /\ jar' = 0 /\ hist' = Count
    BY DEF Forget
  <1>2. hist' \in Histories /\ hist'.told = hist.told
    BY <1>1, HistOf
  <1>3. Types'
    BY <1>1, <1>2, Assumed DEF Inv, Types
  <1>4. Owned'
    BY <1>1 DEF Inv, Owned, Fine
  <1>5. Serialised' /\ StoredOnly' /\ OwnErrors' /\ Remembered'
    BY <1>1, <1>2 DEF Inv, Serialised, StoredOnly, OwnErrors, Remembered
  <1> QED BY <1>1, <1>3, <1>4, <1>5 DEF Inv, RightJar

LEMMA RestartInv == ASSUME Inv, Restart PROVE Inv' /\ RightJar
  <1>1. /\ UNCHANGED <<env, site, row>> /\ jar' = 0 /\ pend' = None /\ hist' = Count
        /\ slot' = [holder |-> None, owner |-> None, last |-> None, heirs |-> {}]
        /\ proc' = [p \in Procs |-> Idle]
    BY DEF Restart
  <1>2. Idle \in Attempts /\ Idle.pc = "idle" /\ Idle.cred = None /\ Idle.why = "check" /\ Idle.err = "ok"
    BY DEF Idle, Attempts, Places, Errors
  <1>3. \A p \in Procs : proc'[p] = Idle
    BY <1>1
  <1>4. hist' \in Histories /\ hist'.told = hist.told
    BY <1>1, HistOf
  <1>5. slot' \in Slots /\ slot'.owner = None /\ slot'.last = None
    BY <1>1 DEF Slots
  <1>6. proc' \in [Procs -> Attempts]
    BY <1>1, <1>2
  <1>7. Types'
    BY <1>1, <1>4, <1>5, <1>6, Given, Assumed DEF Inv, Types
  <1>8. Serialised'
    BY <1>1, <1>2, <1>3 DEF Inv, Serialised, Holding, Procs
  <1>9. Owned' /\ StoredOnly' /\ OwnErrors'
    BY <1>2, <1>3, <1>5 DEF Owned, StoredOnly, OwnErrors
  <1>10. Remembered'
    BY <1>1, <1>4 DEF Inv, Remembered
  <1> QED BY <1>1, <1>7, <1>8, <1>9, <1>10 DEF Inv, RightJar

-----------------------------------------------------------------------------
(* Interactive login.                                                      *)

\* A session that someone still refers to stays its account's.
LEMMA PersistInv ==
    ASSUME Inv, env.kind \in WithCredentials, NEW id \in Nat, NEW u \in Accounts, NEW h \in {hist, Count},
           Persist(id, u, h), pend' \in Challenges \cup {None}, UNCHANGED <<env, jar, slot, proc>>
    PROVE  Inv' /\ RightJar
  <1>1. /\ site' \in Sites /\ NewSession \in SessionIds /\ NewSession \notin InUse
        /\ \A s \in SessionIds \ {NewSession} : site'.acct[s] = site.acct[s]
    BY NewId DEF Persist, Inv
  <1>2. \A s \in SessionIds \cap InUse : site'.acct[s] = site.acct[s]
    BY <1>1
  <1>3. /\ jar # 0 => site'.acct[jar] = site.acct[jar]
        /\ slot.owner # None /\ slot.owner.sess # 0 => site'.acct[slot.owner.sess] = site.acct[slot.owner.sess]
        /\ \A p \in Procs : proc[p].cred # None /\ proc[p].cred.sess # 0
              => site'.acct[proc[p].cred.sess] = site.acct[proc[p].cred.sess]
    <2>1. \A n \in 0..MaxSession : n # 0 => n \in SessionIds
      BY Assumed DEF SessionIds
    <2>2. jar \in 0..MaxSession
      BY Given
    <2>3. slot.owner # None => slot.owner.sess \in 0..MaxSession
      BY Given DEF Slots, Creds
    <2>4. \A p \in Procs : proc[p].cred # None => proc[p].cred.sess \in 0..MaxSession
      BY Given DEF Attempts, Creds
    <2> QED BY <1>2, <2>1, <2>2, <2>3, <2>4, Used DEF Inv
  <1>4. NewSession \in 0..MaxSession
    BY <1>1, Assumed
  <1>5. PICK n \in Nat : n = hist.ids + 1
    BY Given DEF Histories
  <1>6. row' \in Rows \cup {None} /\ (row' # row => row'.id \in Nat)
    <2>1. row # None => SetSession(NewSession) \in Rows
      <3>1. row # None => row \in Rows
        BY Given
      <3> QED BY <1>4, <3>1 DEF SetSession, Rows
    <2>2. CreateRow(u, u, NewSession) \in Rows
      BY <1>4, <1>5 DEF CreateRow, Rows
    <2>3. \A x \in Rows : x.id \in Nat
      BY DEF Rows
    <2> QED BY <2>1, <2>2, <2>3, Given DEF Persist, persistSession, storeReauthSession
  <1>7. h \in Histories /\ h.told = hist.told
    BY HistOf
  <1>8. hist' \in Histories /\ Remembered'
    <2>1. CASE row' = row
      BY <1>7, <2>1, Given DEF Persist, Remembered
    <2>2. CASE row' # row
      <3>1. PICK m \in Nat : m = Max({h.ids, row'.id})
        <4>1. h.ids \in Nat /\ row'.id \in Nat
          BY <1>6, <1>7, <2>2 DEF Histories
        <4>2. \A a, b \in Nat : Max({a, b}) \in Nat
          <5>1. ASSUME NEW a \in Nat, NEW b \in Nat
                PROVE  \E x \in {a, b} : \A y \in {a, b} : x >= y
            OBVIOUS
          <5> QED BY <5>1 DEF Max
        <4> QED BY <4>1, <4>2
      <3>2. hist' = [h EXCEPT !.told = 0, !.ids = m]
        BY <2>2, <3>1 DEF Persist
      <3>3. hist' \in Histories /\ hist'.told = 0
        BY <1>7, <3>1, <3>2 DEF Histories
      <3> QED BY <3>3 DEF Remembered
    <2> QED BY <2>1, <2>2
  <1>9. Types'
    BY <1>1, <1>6, <1>8 DEF Inv, Types
  <1>10. Serialised' /\ StoredOnly' /\ OwnErrors'
    BY DEF Inv, Serialised, StoredOnly, OwnErrors
  <1>11. Owned'
    <2> SUFFICES ASSUME env.kind \in Private \cup {"lostfilm"} PROVE Owned'
      BY DEF Owned
    <2>1. ASSUME slot.owner # None, \A p \in Procs : proc[p].pc \notin {"restored", "confirm"}
          PROVE  Fine(slot.owner)'
      <3>1. Fine(slot.owner) /\ (env.kind = "lostfilm" => slot.owner.sess # 0)
        BY <2>1 DEF Inv, Owned, StoredOnly
      <3> QED BY <1>3, <2>1, <3>1 DEF Fine, Identity
    <2>2. ASSUME NEW p \in Procs, proc[p].pc \in {"restored", "confirm"}
          PROVE  Fine(proc[p].cred)'
      <3>1. Fine(proc[p].cred) /\ (env.kind = "lostfilm" => proc[p].cred.sess # 0) /\ proc[p].cred # None
        BY <2>2, Assumed DEF Inv, Owned, StoredOnly, Serialised, Holding
      <3> QED BY <1>3, <3>1 DEF Fine, Identity
    <2> QED BY <2>1, <2>2 DEF Inv, Owned
  <1>12. RightJar
    BY DEF RightJar, Begins
  <1> QED BY <1>8, <1>9, <1>10, <1>11, <1>12 DEF Inv

LEMMA BeginInv ==
    ASSUME Inv, NEW u \in Accounts, NEW pw \in Accounts, NEW id \in Nat, Begin(u, pw, id)
    PROVE  Inv' /\ RightJar
  <1>1. UNCHANGED <<env, jar, slot, proc>> /\ env.kind \in WithCredentials
    BY DEF Begin, WithCredentials, Stored, Kinds
  <1>2. CASE pend' = Challenge(u, pw, id) /\ hist' = Count /\ UNCHANGED <<site, row>>
    <2>1. Challenge(u, pw, id) \in Challenges
      BY DEF Challenge, Challenges
    <2>2. hist' \in Histories /\ hist'.told = hist.told
      BY <1>2, HistOf
    <2>3. Remembered'
      BY <1>2, <2>2, Given DEF Remembered
    <2> QED BY <1>1, <1>2, <2>1, <2>2, <2>3, Given, Still
  <1>3. CASE Persist(id, u, Count) /\ UNCHANGED pend
    BY <1>1, <1>3, Given, PersistInv
  <1> QED BY <1>2, <1>3 DEF Begin

LEMMA CompleteInv == ASSUME Inv, pend # None, Complete PROVE Inv' /\ RightJar
  <1>1. UNCHANGED <<env, jar, slot, proc>> /\ pend' = None /\ env.kind \in WithCredentials
    BY Given DEF Complete
  <1>2. pend.id \in Nat /\ pend.user \in Accounts
    BY Given DEF Challenges
  <1>3. CASE Persist(pend.id, pend.user, hist)
    BY <1>1, <1>2, <1>3, PersistInv
  <1>4. CASE UNCHANGED <<site, row>> /\ hist' \in {hist, Count}
    <2>1. hist' \in Histories /\ hist'.told = hist.told
      BY <1>4, HistOf
    <2>2. Remembered'
      BY <1>4, <2>1, Given DEF Remembered
    <2> QED BY <1>1, <1>4, <2>1, <2>2, Given, Still
  <1> QED BY <1>3, <1>4 DEF Complete

-----------------------------------------------------------------------------
LEMMA StepInv == ASSUME Inv, [Next]_vars PROVE Inv' /\ RightJar
  <1>0. "a" \in Accounts
    BY Assumed
  <1>1. ASSUME NEW p \in Procs, Step(p) PROVE Inv' /\ RightJar
    BY <1>1, AcquireInv, ExpireInv, VerifyInv, RestoreInv, RestoredInv, LoginInv, ConfirmInv DEF Step
  <1>2. ASSUME NEW p \in Workers,
               loadCredentials(p) \/ MarkSessionExpired(p) \/ Check(p) \/ FetchTopicPage(p) \/ Download(p)
        PROVE  Inv' /\ RightJar
    BY <1>2, LoadInv, MarkInv, CheckInv, FetchInv, DownloadInv
  <1>3. ASSUME NEW u \in Accounts, NEW pw \in Accounts, Create(u, pw) \/ Update(u, pw) \/ Test \/ Warm
        PROVE  Inv' /\ RightJar
    BY <1>3, UserInv
  <1>4. ASSUME NEW u \in Accounts,
               Rename(u) \/ Delete \/ Refresh \/ Abandon \/ Kill \/ Publish \/ Drift \/ Noise
        PROVE  Inv' /\ RightJar
    BY <1>4, StillInv
  <1>5. ASSUME NEW u \in Accounts, NEW pw \in Accounts, BeginInteractive(u, pw)
        PROVE  Inv' /\ RightJar
    BY <1>5, BeginInv DEF BeginInteractive
  <1>6. CASE ReauthBegin
    <2>1. row.user \in Accounts /\ row.pass \in Accounts /\ row.id \in Nat
      BY <1>6, Given DEF ReauthBegin, Rows
    <2> QED BY <1>6, <2>1, BeginInv DEF ReauthBegin
  <1>7. CASE CompleteInteractive \/ ReauthComplete
    BY <1>7, CompleteInv DEF CompleteInteractive, ReauthComplete
  <1>8. CASE UNCHANGED vars
    <2>1. Remembered' /\ UNCHANGED <<env, site, jar, row, slot, proc, pend, hist>>
      BY <1>8, Given DEF vars, Remembered
    <2> QED BY <2>1, Given, Still
  <1>9. CASE Next
    BY <1>0, <1>1, <1>2, <1>3, <1>4, <1>5, <1>6, <1>7, <1>9, WriteInv, ForgetInv, RestartInv DEF Next, Move
  <1> QED BY <1>8, <1>9

-----------------------------------------------------------------------------
(* Reading on in the session one was told of.                              *)

\* Who reads has the credential it began with.
ReaderKept ==
    \A p \in Workers : proc'[p].pc \in {"page", "topic", "file"} /\ proc'[p].cred # None
        => proc'[p].cred = proc[p].cred /\ (Reads(p) \/ Begins(p))

LEMMA ReaderMoves ==
    ASSUME Inv, NEW p \in Procs, NEW w, proc' = [proc EXCEPT ![p] = w],
           w.pc \in {"page", "topic", "file"} /\ w.cred # None
              => w.cred = proc[p].cred /\ (w.pc # "page" => proc[p].pc \in {"page", "topic", "file"})
    PROVE  ReaderKept
  <1>1. proc'[p] = w /\ \A q \in Procs \ {p} : proc'[q] = proc[q]
    BY Given
  <1>2. Workers \subseteq Procs
    BY DEF Procs
  <1>3. ASSUME NEW q \in Workers, proc'[q].pc \in {"page", "topic", "file"}, proc'[q].cred # None
        PROVE  proc'[q].cred = proc[q].cred /\ (Reads(q) \/ Begins(q))
    <2>1. CASE q = p
      BY <1>1, <1>3, <2>1 DEF Reads, Begins
    <2>2. CASE q # p
      BY <1>1, <1>2, <1>3, <2>2 DEF Reads
    <2> QED BY <2>1, <2>2
  <1> QED BY <1>3 DEF ReaderKept

LEMMA ReaderStep == ASSUME Inv, NEW p \in Procs, Step(p) PROVE ReaderKept
  <1>1. proc[p] \in Attempts
    BY Given
  <1>2. ASSUME NEW pc, proc' = [proc EXCEPT ![p].pc = pc], pc \notin {"page", "topic", "file"}
        PROVE  ReaderKept
    <2>1. [proc[p] EXCEPT !.pc = pc].pc = pc
      BY <1>1 DEF Attempts
    <2> QED BY <1>2, <2>1, ReaderMoves
  <1>3. ASSUME NEW err \in Errors, proc' = [proc EXCEPT ![p] = Answered(p, err)] PROVE ReaderKept
    <2>1. /\ Answered(p, err).pc \in {"write", "page", "mark", "idle"}
          /\ Answered(p, err).pc # "idle" => Answered(p, err).cred = proc[p].cred
      BY Answers DEF Inv
    <2> QED BY <1>3, <2>1, ReaderMoves
  <1>4. ASSUME NEW err \in Errors, Settle(p, err) PROVE ReaderKept
    BY <1>3, <1>4 DEF Settle
  <1>5. \A c : ToLogin(c) \in {"restore", "login"}
    BY ToLoginIs
  <1>6. CASE acquire(p)
    <2>1. CASE proc' = [proc EXCEPT ![p] = Answered(p, slot.last.err)] /\ slot.last # None
      <3>1. slot.last.err \in Errors
        BY <2>1, Given DEF Slots
      <3> QED BY <1>3, <2>1, <3>1
    <2>2. CASE proc' = [proc EXCEPT ![p].pc =
                    IF ~Validates(p) /\ Owns(p) THEN "verify" ELSE ToLogin(proc[p].cred)]
      <3> DEFINE pc == IF ~Validates(p) /\ Owns(p) THEN "verify" ELSE ToLogin(proc[p].cred)
      <3>1. pc \notin {"page", "topic", "file"}
        BY <1>5
      <3>2. proc' = [proc EXCEPT ![p].pc = pc]
        BY <2>2
      <3> HIDE DEF pc
      <3> QED BY <1>2, <3>1, <3>2
    <2> QED BY <1>6, <2>1, <2>2 DEF acquire, Inherits
  <1>7. CASE Expire(p)
    <2>1. CASE proc' = [proc EXCEPT ![p] = [Idle EXCEPT !.err = "context", !.late = TRUE]]
      <3>1. [Idle EXCEPT !.err = "context", !.late = TRUE].pc = "idle"
        BY DEF Idle
      <3> QED BY <2>1, <3>1, ReaderMoves
    <2>2. CASE proc' = [proc EXCEPT ![p] = [proc[p] EXCEPT !.late = TRUE]]
      <3>1. [proc[p] EXCEPT !.late = TRUE].pc = proc[p].pc
            /\ [proc[p] EXCEPT !.late = TRUE].cred = proc[p].cred
        BY <1>1 DEF Attempts
      <3> QED BY <2>2, <3>1, ReaderMoves
    <2> QED BY <1>7, <2>1, <2>2 DEF Expire
  <1>8. CASE verify(p)
    BY <1>2, <1>4, <1>5, <1>8 DEF verify, Go, Errors
  <1>9. CASE restoreSession(p)
    <2>1. proc' = [proc EXCEPT ![p].pc = "restored"] /\ "restored" \notin {"page", "topic", "file"}
      BY <1>9 DEF restoreSession, Go
    <2> QED BY <1>2, <2>1
  <1>10. CASE restored(p)
    BY <1>2, <1>4, <1>10 DEF restored, Go, Errors
  <1>11. CASE confirm(p)
    BY <1>4, <1>11 DEF confirm, Errors
  <1>12. CASE login(p)
    <2>1. env.kind \in WithCredentials
      BY <1>12 DEF Inv, Serialised, login, Holding
    <2>2. \A r \in Login(env.kind, Right(proc[p].cred), Live(jar)) : r.err \in Errors
      BY <2>1
      DEF WithCredentials, Private, Stored, Login, RuTrackerLogin, KinozalLogin, TapochekLogin,
          TolokaLogin, AniDubLogin, LostFilmLogin, Result, Errors
    <2> QED BY <1>2, <1>4, <1>12, <2>2 DEF login, Go, Errors
  <1> QED BY <1>6, <1>7, <1>8, <1>9, <1>10, <1>11, <1>12 DEF Step

LEMMA ReaderNext == ASSUME Inv, Move PROVE ReaderKept
  <1>1. User \in Procs /\ Workers \subseteq Procs /\ Idle.pc = "idle" /\ User \notin Workers
    BY Assumed DEF Procs, Idle
  <1>2. CASE UNCHANGED proc
    BY <1>2 DEF ReaderKept, Reads
  <1>3. ASSUME NEW p \in Procs, NEW w, proc' = [proc EXCEPT ![p] = w],
               w.pc \notin {"page", "topic", "file"}
        PROVE  ReaderKept
    BY <1>3, ReaderMoves
  <1>4. ASSUME NEW p \in Workers, NEW err, Done(p, err) PROVE ReaderKept
    <2>1. [Idle EXCEPT !.err = err].pc = "idle"
      BY DEF Idle
    <2> QED BY <1>1, <1>3, <1>4, <2>1 DEF Done
  <1>5. ASSUME NEW p \in Workers, loadCredentials(p) PROVE ReaderKept
    <2> DEFINE w == IF row = None \/ env.kind \notin WithCredentials THEN [Idle EXCEPT !.pc = "page"]
                    ELSE [Idle EXCEPT !.pc = "wait", !.cred = Cred(row.user, row.pass, row.sess),
                                      !.id = row.id, !.marked = row.expired]
    <2>1. proc' = [proc EXCEPT ![p] = w]
      BY <1>5 DEF loadCredentials
    <2>2. w.pc = "wait" \/ (w.pc = "page" /\ w.cred = None)
      BY DEF Idle
    <2> HIDE DEF w
    <2> QED BY <1>1, <2>1, <2>2, ReaderMoves
  <1>6. ASSUME NEW p \in Workers, MarkSessionExpired(p) PROVE ReaderKept
    <2>1. [Idle EXCEPT !.err = proc[p].err, !.late = proc[p].late].pc = "idle"
      BY DEF Idle
    <2> QED BY <1>1, <1>3, <1>6, <2>1 DEF MarkSessionExpired
  <1>7. ASSUME NEW p \in Workers, Check(p) \/ FetchTopicPage(p) PROVE ReaderKept
    <2>1. proc[p].pc \in {"page", "topic", "file"} /\ proc[p] \in Attempts
      BY <1>1, <1>7, Given DEF Check, FetchTopicPage
    <2>2. ASSUME NEW pc, NEW tok, NEW found, NEW page,
                 proc' = [proc EXCEPT ![p] =
                    [proc[p] EXCEPT !.pc = pc, !.tok = tok, !.found = found, !.page = page]]
          PROVE  ReaderKept
      <3>1. [proc[p] EXCEPT !.pc = pc, !.tok = tok, !.found = found, !.page = page].cred = proc[p].cred
        BY <2>1 DEF Attempts
      <3> QED BY <1>1, <2>1, <2>2, <3>1, ReaderMoves
    <2>3. CASE proc' = [proc EXCEPT ![p] = [proc[p] EXCEPT !.pc = "file", !.page = site.rel]]
      <3>1. [proc[p] EXCEPT !.pc = "file", !.page = site.rel].cred = proc[p].cred
        BY <2>1 DEF Attempts
      <3> QED BY <1>1, <2>1, <2>3, <3>1, ReaderMoves
    <2>4. CASE Check(p)
      BY <1>4, <2>2, <2>4 DEF Check
    <2>5. CASE FetchTopicPage(p)
      BY <1>4, <2>3, <2>5 DEF FetchTopicPage
    <2> QED BY <1>7, <2>4, <2>5
  <1>8. ASSUME NEW p \in Workers, Download(p) PROVE ReaderKept
    BY <1>4, <1>8 DEF Download
  <1>9. ASSUME NEW why, NEW c, NEW id, Ask(why, c, id) PROVE ReaderKept
    <2>1. [Idle EXCEPT !.pc = "wait", !.why = why, !.cred = c, !.id = id].pc = "wait"
      BY DEF Idle
    <2> QED BY <1>1, <1>3, <1>9, <2>1 DEF Ask
  <1>10. CASE Test \/ Warm \/ (\E u, pw \in Accounts : Create(u, pw) \/ Update(u, pw))
    BY <1>9, <1>10 DEF Test, Warm, Create, Update
  <1>11. CASE Write
    BY <1>1, <1>3, <1>11 DEF Write
  <1>12. CASE Restart
    <2>1. \A q \in Workers : proc'[q].pc = "idle"
      BY <1>1, <1>12 DEF Restart
    <2> QED BY <2>1 DEF ReaderKept
  <1>13. CASE \/ \E u, pw \in Accounts : BeginInteractive(u, pw)
              \/ \E u \in Accounts : Rename(u)
              \/ Delete \/ Refresh \/ Abandon \/ ReauthBegin \/ CompleteInteractive \/ ReauthComplete
              \/ Kill \/ Forget \/ Publish \/ Drift \/ Noise
    BY <1>2, <1>13
    DEF BeginInteractive, Begin, Rename, Delete, Refresh, Abandon, ReauthBegin, CompleteInteractive,
        ReauthComplete, Complete, Kill, Forget, Publish, Drift, Noise
  <1> QED
    BY <1>5, <1>6, <1>7, <1>8, <1>10, <1>11, <1>12, <1>13, ReaderStep DEF Move

\* Whose a session is that someone refers to does not change.
LEMMA AccountsStay == ASSUME Inv, Move PROVE \A s \in InUse : site'.acct[s] = site.acct[s]
  <1>1. site \in Sites /\ InUse \subseteq SessionIds
    <2>1. /\ row # None => row.sess \in 0..MaxSession
          /\ \A q \in Procs : proc[q].cred # None => proc[q].cred.sess \in 0..MaxSession
          /\ slot.owner # None => slot.owner.sess \in 0..MaxSession
          /\ slot.last # None => slot.last.fp.sess \in 0..MaxSession
          /\ jar \in 0..MaxSession
      BY Given DEF Rows, Attempts, Slots, Creds
    <2>2. \A s \in InUse : s \in 0..MaxSession /\ s # 0
      BY <2>1 DEF InUse
    <2> QED BY <2>2, Given, Assumed DEF SessionIds
  <1>2. CASE site'.acct = site.acct
    BY <1>2
  <1>3. ASSUME NEW u \in Accounts, Fresh # {}, site' = SignedIn(u)
        PROVE  \A s \in InUse : site'.acct[s] = site.acct[s]
    BY <1>1, <1>3, NewId DEF Inv
  <1>4. CASE UNCHANGED site
    BY <1>2, <1>4
  <1>5. ASSUME NEW p \in Procs, Step(p) PROVE \A s \in InUse : site'.acct[s] = site.acct[s]
    <2>1. CASE login(p)
      <3>1. proc[p].cred.user \in Accounts
        BY <2>1 DEF login, Inv, Serialised, Holding, Creds
      <3> QED BY <1>3, <1>4, <2>1, <3>1 DEF login
    <2>2. CASE ~login(p)
      BY <1>4, <1>5, <2>2 DEF Step, acquire, Expire, verify, restoreSession, restored, confirm
    <2> QED BY <2>1, <2>2
  <1>6. ASSUME NEW p \in Workers,
               loadCredentials(p) \/ MarkSessionExpired(p) \/ Check(p) \/ FetchTopicPage(p) \/ Download(p)
        PROVE  \A s \in InUse : site'.acct[s] = site.acct[s]
    BY <1>4, <1>6 DEF loadCredentials, MarkSessionExpired, Check, FetchTopicPage, Download
  <1>7. ASSUME NEW id, NEW u \in Accounts, NEW h, Persist(id, u, h)
        PROVE  \A s \in InUse : site'.acct[s] = site.acct[s]
    BY <1>3, <1>7 DEF Persist
  <1>8. CASE \/ \E u, pw \in Accounts : BeginInteractive(u, pw)
             \/ ReauthBegin \/ CompleteInteractive \/ ReauthComplete
    <2>1. ReauthBegin => row.user \in Accounts
      BY Given DEF ReauthBegin, Rows
    <2>2. CompleteInteractive \/ ReauthComplete => pend.user \in Accounts
      BY Given DEF CompleteInteractive, ReauthComplete, Challenges
    <2> QED BY <1>4, <1>7, <1>8, <2>1, <2>2
            DEF BeginInteractive, Begin, ReauthBegin, CompleteInteractive, ReauthComplete, Complete
  <1>9. CASE \/ \E u, pw \in Accounts : Create(u, pw) \/ Update(u, pw)
             \/ \E u \in Accounts : Rename(u)
             \/ Test \/ Warm \/ Write \/ Delete \/ Refresh \/ Abandon \/ Forget \/ Restart
    BY <1>4, <1>9 DEF Create, Update, Test, Warm, Ask, Rename, Write, Delete, Refresh, Abandon, Forget, Restart
  <1>10. CASE Kill \/ Publish \/ Drift \/ Noise
    <2>1. site'.acct = site.acct
      BY <1>1, <1>10 DEF Kill, Publish, Drift, Noise, Sites
    <2> QED BY <1>2, <2>1
  <1> QED BY <1>5, <1>6, <1>8, <1>9, <1>10 DEF Move

\* Another session comes into the jar by a sign-in, and it is of that account.
LEMMA JarMoves ==
    ASSUME Inv, Move, jar' \notin {0, jar}, env.kind \in Private \cup {"lostfilm"}
    PROVE  \E q \in Procs : /\ proc[q].pc \in {"restore", "login"}
                            /\ site'.acct[jar'] = Identity(proc[q].cred)
  <1>1. ASSUME jar' = jar \/ jar' = 0 PROVE FALSE
    BY <1>1
  <1>2. ASSUME NEW q \in Procs, restoreSession(q)
        PROVE  site'.acct[jar'] = Identity(proc[q].cred)
    <2>1. proc[q].pc = "restore" /\ jar' = proc[q].cred.sess /\ site' = site
      BY <1>2 DEF restoreSession
    <2>2. env.kind = "lostfilm"
      BY <2>1 DEF Inv, StoredOnly, Private, Stored
    <2> QED BY <2>1, <2>2 DEF Identity
  <1>3. ASSUME NEW q \in Procs, login(q)
        PROVE  site'.acct[jar'] = Identity(proc[q].cred)
    <2>1. PICK r \in Login(env.kind, Right(proc[q].cred), Live(jar)) :
             /\ r.jar = "new" => Fresh # {}
             /\ site' = IF r.jar = "new" THEN SignedIn(proc[q].cred.user) ELSE site
             /\ jar' = CASE r.jar = "new" -> NewSession [] r.jar = "guest" -> 0 [] OTHER -> jar
      BY <1>1, <1>3 DEF login
    <2>2. r.jar = "new"
      BY <1>1, <2>1
    <2>3. env.kind # "lostfilm"
      BY <2>1, <2>2 DEF Login, LostFilmLogin, Result
    <2>4. proc[q].cred.user \in Accounts
      BY <1>3 DEF login, Inv, Serialised, Holding, Creds
    <2>5. site'.acct[NewSession] = proc[q].cred.user /\ jar' = NewSession
      BY <2>1, <2>2, <2>4, NewId DEF Inv
    <2> QED BY <2>3, <2>5 DEF Identity
  <1>4. ASSUME NEW q \in Procs, Step(q)
        PROVE  proc[q].pc \in {"restore", "login"} /\ site'.acct[jar'] = Identity(proc[q].cred)
    <2>1. restoreSession(q) \/ login(q)
      BY <1>1, <1>4 DEF Step, acquire, Expire, verify, restored, confirm
    <2> QED BY <1>2, <1>3, <2>1 DEF restoreSession, login
  <1>5. \E q \in Procs : Step(q)
    <2>1. ASSUME NEW p \in Workers,
                 loadCredentials(p) \/ MarkSessionExpired(p) \/ Check(p) \/ FetchTopicPage(p) \/ Download(p)
          PROVE  FALSE
      BY <1>1, <2>1 DEF loadCredentials, MarkSessionExpired, Check, FetchTopicPage, Download
    <2>2. CASE \/ \E u, pw \in Accounts : Create(u, pw) \/ Update(u, pw) \/ BeginInteractive(u, pw)
               \/ \E u \in Accounts : Rename(u)
               \/ Test \/ Warm \/ Write \/ Delete \/ Refresh \/ Abandon
               \/ ReauthBegin \/ CompleteInteractive \/ ReauthComplete
               \/ Kill \/ Forget \/ Restart \/ Publish \/ Drift \/ Noise
      BY <1>1, <2>2
      DEF Create, Update, Test, Warm, Ask, BeginInteractive, Begin, Rename, Write, Delete, Refresh, Abandon,
          ReauthBegin, CompleteInteractive, ReauthComplete, Complete, Kill, Forget, Restart, Publish, Drift, Noise
    <2> QED BY <2>1, <2>2 DEF Move
  <1> QED BY <1>4, <1>5

LEMMA ReadsRight == ASSUME Inv, SignedInAsOwner, [Next]_vars PROVE SignedInAsOwner'
  <1>1. CASE UNCHANGED vars
    BY <1>1 DEF vars, SignedInAsOwner, Reads, Identity
  <1>2. CASE Next
    <2>0. Move /\ away' = {p \in Workers : Reads(p)' /\ Reads(p) /\ (p \in away \/ Replaced(p))}
      BY <1>2 DEF Next
    <2>1. env' = env
      BY StepInv, <2>0 DEF Move, Step, acquire, Expire, verify, restoreSession, restored, login, confirm,
         loadCredentials, MarkSessionExpired, Check, FetchTopicPage, Download, Create, Update, Test, Warm, Ask,
         BeginInteractive, Begin, Rename, Write, Delete, Refresh, Abandon, ReauthBegin, CompleteInteractive,
         ReauthComplete, Complete, Kill, Forget, Restart, Publish, Drift, Noise
    <2> SUFFICES ASSUME NEW p \in Workers, Reads(p)', env.kind \in Private \cup {"lostfilm"},
                        jar' # 0, p \notin away'
                 PROVE  site'.acct[jar'] = Identity(proc[p].cred)'
      BY <2>1 DEF SignedInAsOwner
    <2>2. proc'[p].cred = proc[p].cred /\ (Reads(p) \/ Begins(p)) /\ proc[p].cred # None
      BY <2>0, ReaderNext DEF ReaderKept, Reads
    <2>3. p \in Procs
      BY DEF Procs
    <2>4. Identity(proc[p].cred)' = Identity(proc[p].cred)
      BY <2>0, <2>1, <2>2, <2>3, AccountsStay, Used DEF Identity, Inv
    <2>5. CASE Begins(p)
      BY <1>2, <2>4, <2>5, StepInv DEF RightJar
    <2>6. CASE Reads(p)
      <3>1. p \notin away /\ ~Replaced(p)
        BY <2>0, <2>6
      <3>2. CASE jar' = jar
        BY <2>0, <2>4, <2>6, <3>1, <3>2, AccountsStay, Used DEF SignedInAsOwner, Inv
      <3>3. CASE jar' # jar
        BY <2>0, <2>4, <3>1, <3>3, JarMoves DEF Replaced
      <3> QED BY <3>2, <3>3
    <2> QED BY <2>2, <2>5, <2>6
  <1> QED BY <1>1, <1>2

-----------------------------------------------------------------------------
(* One sign-in serves all.                                                 *)

Signing == {"restored", "login", "confirm"}

\* Since a credential signed in: it owns the slot's session, the jar is signed in
\* unless somebody is signing in over it, and no verifier has run out of time.
Good ==
    hist.good # None /\ SignInHolds(hist.good) =>
        /\ slot.owner = hist.good
        /\ (\A p \in Procs : proc[p].pc \notin Signing) => Live(jar)
        /\ \A p \in Procs : proc[p].pc = "verify" => ~proc[p].late

\* What NoNeedlessLogin asks of a step.
Needed ==
    \A p \in Workers : /\ proc[p].pc \in {"wait", "verify"}
                       /\ proc'[p].pc \in {"restore", "login"} /\ SignInHolds(proc[p].cred)
        => proc[p].cred \notin {hist.good} \cap {hist'.good}

\* A disturbance.
LEMMA GoodForgotten == ASSUME hist'.good = None, Inv PROVE Good' /\ Needed
  <1>1. \A p \in Workers : proc[p].pc \in {"wait", "verify"} => proc[p].cred # None
    BY Assumed DEF Inv, Serialised, Holding, Procs
  <1> QED BY <1>1 DEF Good, Needed

\* The session and who signs in stay.
LEMMA GoodStays ==
    ASSUME Inv, Good, env' = env, hist'.good = hist.good, slot'.owner = slot.owner,
           Live(jar) => Live(jar)',
           \A q \in Procs : /\ proc[q].pc \in Signing => proc'[q].pc \in Signing
                            /\ proc'[q].pc = "verify" => (proc[q].pc = "verify" /\ proc'[q].late = proc[q].late)
                                                           \/ ~proc'[q].late
    PROVE  Good'
  BY DEF Good, SignInHolds

LEMMA CountGood == Inv => Count.good = None /\ \A p : Counted(p).good \in {None, hist.good}
  <1> SUFFICES ASSUME Inv PROVE Count.good = None /\ \A p : Counted(p).good \in {None, hist.good}
    OBVIOUS
  <1>1. Count.good = None
    <2>1. hist \in Histories
      BY Given
    <2>2. PICK n \in Nat : n = hist.faults + 1
      BY <2>1 DEF Histories
    <2>3. Count = [hist EXCEPT !.faults = n, !.good = None]
      BY <2>2 DEF Count
    <2> QED BY <2>1, <2>3 DEF Histories
  <1> QED BY <1>1 DEF Counted

\* The holder's answer: the credential that signed in, if it did.
LEMMA GoodSettles ==
    ASSUME Inv, NEW p \in Procs, NEW err \in Errors, env' = env, proc[p].pc \in Holding, Settle(p, err),
           err = "ok" /\ SignInHolds(proc[p].cred) => Live(jar)'
    PROVE  Good' /\ (\A q \in Procs : proc'[q].pc \notin {"restore", "login", "verify"})
  <1>1. hist'.good = (IF err = "ok" THEN proc[p].cred ELSE None)
    BY Given DEF Settle, Histories
  <1>2. slot'.owner = (IF err = "ok" THEN proc[p].cred ELSE None)
    BY DEF Settle, Settled
  <1>3. Answered(p, err) \in Attempts /\ Answered(p, err).pc \in {"write", "page", "mark", "idle"}
    BY Answers DEF Inv
  <1>4. proc'[p] = Answered(p, err) /\ \A q \in Procs \ {p} : proc'[q] = proc[q]
    BY <1>3, Puts DEF Settle, Inv
  <1>5. slot.holder = p
    BY DEF Inv, Serialised
  <1>6. \A q \in Procs \ {p} : proc[q].pc \notin Holding
    BY <1>5, Alone
  <1>7. \A q \in Procs : proc'[q].pc \notin {"restore", "login", "verify"}
    BY <1>3, <1>4, <1>6 DEF Holding
  <1> QED BY <1>1, <1>2, <1>7 DEF Good, SignInHolds

\* Others go on without the slot.
LEMMA GoodAside ==
    ASSUME Inv, Good, env' = env, hist'.good \in {None, hist.good}, slot'.owner = slot.owner,
           Live(jar) => Live(jar)', NEW p \in Procs, proc[p].pc \notin Holding, proc'[p].pc \notin Holding,
           \A q \in Procs \ {p} : proc'[q] = proc[q]
    PROVE  Good' /\ Needed
  <1>1. \A q \in Procs : /\ proc[q].pc \in Signing => proc'[q].pc \in Signing
                         /\ proc'[q].pc = "verify" => proc[q].pc = "verify" /\ proc'[q].late = proc[q].late
    BY DEF Signing, Holding
  <1>2. CASE hist'.good = None
    BY <1>2, GoodForgotten
  <1>3. CASE hist'.good = hist.good
    <2>1. Good'
      BY <1>1, <1>3, GoodStays
    <2>2. Needed
      BY DEF Needed, Holding, Procs
    <2> QED BY <2>1, <2>2
  <1> QED BY <1>2, <1>3

LEMMA GoodStill ==
    ASSUME Inv, Good, env' = env, hist'.good \in {None, hist.good}, slot' = slot, proc' = proc,
           Live(jar) => Live(jar)'
    PROVE  Good' /\ Needed
  <1>1. CASE hist'.good = None
    BY <1>1, GoodForgotten
  <1>2. CASE hist'.good = hist.good
    <2>1. Good'
      BY <1>2, GoodStays
    <2>2. Needed
      BY DEF Needed
    <2> QED BY <2>1, <2>2
  <1> QED BY <1>1, <1>2

\* The holder goes on to sign in.
LEMMA GoodSigning ==
    ASSUME Inv, Good, env' = env, hist'.good \in {None, hist.good}, slot' = slot,
           NEW p \in Procs, proc[p].pc \in Holding \ {"verify"}, NEW pc \in Signing,
           proc' = [proc EXCEPT ![p].pc = pc]
    PROVE  Good' /\ Needed
  <1>1. proc[p] \in Attempts /\ slot.holder = p
    BY Given DEF Inv, Serialised
  <1>2. proc'[p].pc = pc /\ \A q \in Procs \ {p} : proc'[q] = proc[q]
    BY <1>1, Given DEF Attempts
  <1>3. \A q \in Procs \ {p} : proc[q].pc \notin Holding
    BY <1>1, Alone
  <1>4. \A q \in Procs : proc'[q].pc # "verify"
    BY <1>2, <1>3 DEF Holding, Signing
  <1>5. Good'
    <2>1. CASE hist'.good = None
      BY <2>1, GoodForgotten
    <2>2. CASE hist'.good = hist.good
      BY <1>2, <1>4, <2>2 DEF Good, SignInHolds
    <2> QED BY <2>1, <2>2
  <1>6. Needed
    BY <1>2 DEF Needed, Holding, Procs
  <1> QED BY <1>5, <1>6

LEMMA GoodAcquire == ASSUME Inv, Good, NEW p \in Procs, acquire(p) PROVE Good' /\ Needed
  <1>1. /\ proc[p].pc = "wait" /\ proc[p] \in Attempts /\ slot \in Slots /\ ~proc[p].late
        /\ proc[p].cred \in Creds /\ proc[p].cred # None /\ (p \in Workers => proc[p].why = "check")
    BY Given, Assumed DEF acquire, Inv, Serialised
  <1>2. env' = env /\ hist' = hist /\ jar' = jar /\ site' = site
    BY DEF acquire
  <1>3. CASE /\ Inherits(p) /\ slot' = slot /\ proc' = [proc EXCEPT ![p] = Answered(p, slot.last.err)]
    <2>1. slot.last.err \in Errors
      BY <1>1, <1>3 DEF Inherits, Slots
    <2>2. Answered(p, slot.last.err) \in Attempts
          /\ Answered(p, slot.last.err).pc \in {"write", "page", "mark", "idle"}
      BY <2>1, Answers DEF Inv
    <2>3. proc'[p] = Answered(p, slot.last.err) /\ \A q \in Procs \ {p} : proc'[q] = proc[q]
      BY <1>3, <2>2, Puts DEF Inv
    <2>4. proc'[p].pc \notin Holding /\ proc[p].pc \notin Holding
      BY <1>1, <2>2, <2>3 DEF Holding
    <2>5. Live(jar) => Live(jar)'
      BY <1>2 DEF Live
    <2> QED BY <1>2, <1>3, <2>3, <2>4, <2>5, GoodAside
  <1>4. CASE /\ slot' = [slot EXCEPT !.holder = p]
             /\ proc' = [proc EXCEPT ![p].pc =
                    IF ~Validates(p) /\ Owns(p) THEN "verify" ELSE ToLogin(proc[p].cred)]
    <2> DEFINE pc == IF ~Validates(p) /\ Owns(p) THEN "verify" ELSE ToLogin(proc[p].cred)
    <2>1. /\ slot'.owner = slot.owner
          /\ proc'[p].pc = pc /\ proc'[p].late = proc[p].late /\ \A q \in Procs \ {p} : proc'[q] = proc[q]
      BY <1>1, <1>4, Given DEF Slots, Attempts
    <2>2. Good'
      <3>1. \A q \in Procs : /\ proc[q].pc \in Signing => proc'[q].pc \in Signing
                             /\ proc'[q].pc = "verify" => (proc[q].pc = "verify" /\ proc'[q].late = proc[q].late)
                                                            \/ ~proc'[q].late
        <4>1. proc[p].pc \notin Signing
          BY <1>1 DEF Signing
        <4> QED BY <1>1, <2>1, <4>1
      <3>2. Live(jar) => Live(jar)'
        BY <1>2 DEF Live
      <3> QED BY <1>2, <2>1, <3>1, <3>2, GoodStays
    <2>3. Needed
      <3>1. ASSUME p \in Workers, SignInHolds(proc[p].cred), proc[p].cred = hist.good
            PROVE  pc = "verify"
        <4>1. slot.owner = proc[p].cred
          BY <1>1, <3>1 DEF Good
        <4>2. ~Validates(p)
          BY <1>1, <3>1 DEF Validates
        <4> QED BY <4>1, <4>2 DEF Owns
      <3> HIDE DEF pc
      <3> QED BY <2>1, <3>1 DEF Needed, Procs
    <2> QED BY <2>2, <2>3
  <1> QED BY <1>3, <1>4 DEF acquire

LEMMA GoodVerify == ASSUME Inv, Good, NEW p \in Procs, verify(p) PROVE Good' /\ Needed
  <1>1. proc[p].pc = "verify" /\ proc[p].pc \in Holding /\ slot.holder = p
        /\ proc[p].cred \in Creds /\ proc[p].cred # None /\ proc[p] \in Attempts
    BY Given, Assumed DEF verify, Holding, Inv, Serialised
  <1>2. \A q \in Procs \ {p} : proc[q].pc \notin Holding
    BY <1>1, Alone
  <1>3. UNCHANGED <<env, site, jar>>
    BY DEF verify
  <1>4. hist.good # None /\ SignInHolds(hist.good) => Live(jar) /\ ~proc[p].late
    BY <1>1, <1>2 DEF Good, Signing, Holding
  <1>5. CASE "yes" \in Verify(env.kind, Live(jar)) /\ Settle(p, "ok")
    <2>1. Live(jar)'
      BY <1>3, <1>5 DEF Verify, Live
    <2>2. Good' /\ (\A q \in Procs : proc'[q].pc \notin {"restore", "login", "verify"})
      BY <1>1, <1>3, <1>5, <2>1, Outcomes, GoodSettles
    <2> QED BY <2>2 DEF Needed, Procs
  <1>6. CASE /\ ~(hist.good # None /\ SignInHolds(hist.good)) /\ hist'.good = hist.good
             /\ proc' = [proc EXCEPT ![p].pc = ToLogin(proc[p].cred)]
    <2>1. \A q \in Procs \ {p} : proc'[q] = proc[q]
      BY <1>6, Given
    <2> QED BY <1>1, <1>2, <1>3, <1>6, <2>1 DEF Good, Needed, SignInHolds, Procs, Holding
  <1>7. CASE Verify(env.kind, Live(jar)) \ {"yes"} # {} /\ Go(p, ToLogin(proc[p].cred))
    <2>1. env.kind = "anidub" \/ ~Live(jar)
      BY <1>7 DEF Verify
    <2>2. ~(hist.good # None /\ SignInHolds(hist.good))
      BY <1>4, <2>1 DEF SignInHolds
    <2> QED BY <1>6, <1>7, <2>2 DEF Go
  <1>8. CASE /\ \E err \in {"error", "context"} : Fails(p, err)
             /\ proc' = [proc EXCEPT ![p].pc = ToLogin(proc[p].cred)]
             /\ hist' = Counted(p)
    <2>1. CASE proc[p].late
      BY <1>4, <1>6, <1>8, <2>1 DEF Counted
    <2>2. CASE ~proc[p].late
      BY <1>8, <2>2, CountGood, GoodForgotten DEF Counted
    <2> QED BY <2>1, <2>2
  <1> QED BY <1>5, <1>7, <1>8 DEF verify

LEMMA GoodRestore == ASSUME Inv, Good, NEW p \in Procs, restoreSession(p) PROVE Good' /\ Needed
  <1>1. proc[p].pc \in Holding \ {"verify"} /\ "restored" \in Signing
    BY DEF restoreSession, Holding, Signing
  <1>2. env' = env /\ hist' = hist /\ slot' = slot /\ proc' = [proc EXCEPT ![p].pc = "restored"]
    BY DEF restoreSession, Go
  <1> QED BY <1>1, <1>2, GoodSigning

LEMMA GoodRestored == ASSUME Inv, Good, NEW p \in Procs, restored(p) PROVE Good' /\ Needed
  <1>1. proc[p].pc \in Holding \ {"verify"} /\ proc[p].pc \in Holding /\ proc[p].pc = "restored"
    BY DEF restored, Holding
  <1>2. env' = env /\ site' = site /\ jar' = jar /\ "confirm" \in Signing /\ "login" \in Signing
    BY DEF restored, Signing
  <1>3. ASSUME NEW err \in Errors, Settle(p, err), err = "ok" => Live(jar) PROVE Good' /\ Needed
    <2>1. err = "ok" => Live(jar)'
      BY <1>2, <1>3 DEF Live
    <2>2. Good' /\ (\A q \in Procs : proc'[q].pc \notin {"restore", "login", "verify"})
      BY <1>1, <1>2, <1>3, <2>1, GoodSettles
    <2> QED BY <2>2 DEF Needed, Procs
  <1>4. CASE Go(p, "confirm")
    BY <1>1, <1>2, <1>4, GoodSigning DEF Go
  <1>5. CASE proc' = [proc EXCEPT ![p].pc = "login"] /\ slot' = slot /\ hist' \in {hist, Counted(p)}
    <2>1. hist'.good \in {None, hist.good}
      BY <1>5, CountGood
    <2> QED BY <1>1, <1>2, <1>5, <2>1, GoodSigning
  <1> QED BY <1>3, <1>4, <1>5, Outcomes DEF restored

LEMMA GoodLogin == ASSUME Inv, Good, NEW p \in Procs, login(p) PROVE Good' /\ Needed
  <1> DEFINE c == proc[p].cred
  <1>1. proc[p].pc \in Holding \ {"verify"} /\ proc[p].pc \in Holding /\ c \in Creds
        /\ env.kind \in WithCredentials /\ env' = env /\ "confirm" \in Signing
    BY DEF login, Holding, Inv, Serialised, Signing
  <1>2. ASSUME NEW err \in Errors, Settle(p, err), err = "ok" /\ SignInHolds(c) => Live(jar)'
        PROVE  Good' /\ Needed
    <2>1. Good' /\ (\A q \in Procs : proc'[q].pc \notin {"restore", "login", "verify"})
      BY <1>1, <1>2, GoodSettles
    <2> QED BY <2>1 DEF Needed, Procs
  <1>3. CASE \E err \in {"error", "context"} : Settle(p, err)
    BY <1>2, <1>3, Outcomes
  <1>4. ASSUME NEW res \in Login(env.kind, Right(c), Live(jar)),
               res.jar = "new" => Fresh # {},
               site' = IF res.jar = "new" THEN SignedIn(c.user) ELSE site,
               jar' = CASE res.jar = "new" -> NewSession [] res.jar = "guest" -> 0 [] OTHER -> jar,
               IF res.err = "ok" /\ Validates(p) THEN Go(p, "confirm") ELSE Settle(p, res.err)
        PROVE  Good' /\ Needed
    <2>1. res.err \in Errors
      BY <1>1, <1>4
      DEF WithCredentials, Private, Stored, Login, RuTrackerLogin, KinozalLogin, TapochekLogin, TolokaLogin,
          AniDubLogin, LostFilmLogin, Result, Errors
    <2>2. res.err = "ok" /\ SignInHolds(c) => res.jar = "new" \/ (res.jar = "kept" /\ Live(jar))
      BY <1>1, <1>4
      DEF WithCredentials, Private, Stored, Login, RuTrackerLogin, KinozalLogin, TapochekLogin, TolokaLogin,
          AniDubLogin, LostFilmLogin, Result, SignInHolds
    <2>3. res.jar = "new" => Live(jar)'
      <3> SUFFICES ASSUME res.jar = "new" PROVE Live(jar)'
        OBVIOUS
      <3>1. site' = [site EXCEPT !.acct[NewSession] = c.user, !.live = (site.live \cap InUse) \cup {NewSession}]
            /\ jar' = NewSession
        BY <1>4 DEF SignedIn
      <3>2. site \in Sites
        BY Given
      <3>3. site'.live = (site.live \cap InUse) \cup {NewSession}
        BY <3>1, <3>2 DEF Sites
      <3> QED BY <3>1, <3>3 DEF Live
    <2>4. res.jar = "kept" /\ Live(jar) => Live(jar)'
      BY <1>4 DEF Live
    <2>5. CASE res.err = "ok" /\ Validates(p)
      <3>1. Go(p, "confirm")
        BY <1>4, <2>5
      <3> QED BY <1>1, <3>1, GoodSigning DEF Go
    <2>6. CASE ~(res.err = "ok" /\ Validates(p))
      <3>1. Settle(p, res.err)
        BY <1>4, <2>6
      <3> QED BY <1>2, <2>1, <2>2, <2>3, <2>4, <3>1
    <2> QED BY <2>5, <2>6
  <1> QED BY <1>3, <1>4 DEF login

LEMMA GoodConfirm == ASSUME Inv, Good, NEW p \in Procs, confirm(p) PROVE Good' /\ Needed
  <1>1. proc[p].pc \in Holding /\ env' = env /\ site' = site /\ jar' = jar
    BY DEF confirm, Holding
  <1>2. PICK err \in Errors : Settle(p, err) /\ (err = "ok" /\ SignInHolds(proc[p].cred) => Live(jar))
    BY Outcomes DEF confirm, Verify, SignInHolds
  <1>3. err = "ok" /\ SignInHolds(proc[p].cred) => Live(jar)'
    BY <1>1, <1>2 DEF Live
  <1>4. Good' /\ (\A q \in Procs : proc'[q].pc \notin {"restore", "login", "verify"})
    BY <1>1, <1>2, <1>3, GoodSettles
  <1> QED BY <1>4 DEF Needed, Procs

LEMMA GoodCheck ==
    ASSUME Inv, Good, NEW p \in Workers,
           loadCredentials(p) \/ MarkSessionExpired(p) \/ Check(p) \/ FetchTopicPage(p) \/ Download(p)
    PROVE  Good' /\ Needed
  <1>1. p \in Procs /\ proc[p].pc \notin Holding /\ proc[p] \in Attempts /\ hist \in Histories /\ slot \in Slots
    BY Given DEF loadCredentials, MarkSessionExpired, Check, FetchTopicPage, Download, Procs, Holding
  <1>2. env' = env /\ site' = site /\ jar' = jar
    BY DEF loadCredentials, MarkSessionExpired, Check, FetchTopicPage, Download
  <1>3. slot'.owner = slot.owner
    BY <1>1 DEF loadCredentials, MarkSessionExpired, Check, FetchTopicPage, Download, Slots
  <1>4. hist'.good \in {None, hist.good}
    <2>1. [hist EXCEPT !.told = @ + 1].good = hist.good
      BY <1>1 DEF Histories
    <2> QED BY <2>1, CountGood
        DEF loadCredentials, MarkSessionExpired, Check, FetchTopicPage, Download
  <1>5. PICK w : proc' = [proc EXCEPT ![p] = w] /\ w.pc \notin Holding
    <2>1. CASE loadCredentials(p)
      <3> DEFINE v == IF row = None \/ env.kind \notin WithCredentials THEN [Idle EXCEPT !.pc = "page"]
                      ELSE [Idle EXCEPT !.pc = "wait", !.cred = Cred(row.user, row.pass, row.sess),
                                        !.id = row.id, !.marked = row.expired]
      <3>1. proc' = [proc EXCEPT ![p] = v]
        BY <2>1 DEF loadCredentials
      <3>2. v.pc \in {"page", "wait"}
        BY DEF Idle
      <3> HIDE DEF v
      <3> QED BY <3>1, <3>2 DEF Holding
    <2>2. CASE MarkSessionExpired(p)
      <3> DEFINE v == [Idle EXCEPT !.err = proc[p].err, !.late = proc[p].late]
      <3>1. proc' = [proc EXCEPT ![p] = v]
        BY <2>2 DEF MarkSessionExpired
      <3>2. v.pc = "idle"
        BY DEF Idle
      <3> HIDE DEF v
      <3> QED BY <3>1, <3>2 DEF Holding
    <2>3. CASE Check(p) \/ FetchTopicPage(p) \/ Download(p)
      <3>1. ASSUME NEW err, Done(p, err)
            PROVE  \E w : proc' = [proc EXCEPT ![p] = w] /\ w.pc \notin Holding
        <4>1. proc' = [proc EXCEPT ![p] = [Idle EXCEPT !.err = err]]
          BY <3>1 DEF Done
        <4>2. [Idle EXCEPT !.err = err].pc = "idle"
          BY DEF Idle
        <4> QED BY <4>1, <4>2 DEF Holding
      <3>2. ASSUME NEW pc \in {"topic", "file"}, NEW tok, NEW found, NEW page,
                   proc' = [proc EXCEPT ![p] =
                      [proc[p] EXCEPT !.pc = pc, !.tok = tok, !.found = found, !.page = page]]
            PROVE  \E w : proc' = [proc EXCEPT ![p] = w] /\ w.pc \notin Holding
        <4>1. [proc[p] EXCEPT !.pc = pc, !.tok = tok, !.found = found, !.page = page].pc = pc
          BY <1>1 DEF Attempts
        <4> QED BY <3>2, <4>1 DEF Holding
      <3>3. CASE proc' = [proc EXCEPT ![p] = [proc[p] EXCEPT !.pc = "file", !.page = site.rel]]
        <4>1. [proc[p] EXCEPT !.pc = "file", !.page = site.rel].pc = "file"
          BY <1>1 DEF Attempts
        <4> QED BY <3>3, <4>1 DEF Holding
      <3>4. CASE Check(p)
        BY <3>1, <3>2, <3>4 DEF Check
      <3>5. CASE FetchTopicPage(p)
        BY <3>1, <3>3, <3>5 DEF FetchTopicPage
      <3>6. CASE Download(p)
        BY <3>1, <3>6 DEF Download
      <3> QED BY <2>3, <3>4, <3>5, <3>6
    <2> QED BY <2>1, <2>2, <2>3
  <1>6. proc'[p].pc \notin Holding /\ \A q \in Procs \ {p} : proc'[q] = proc[q]
    BY <1>1, <1>5, Given
  <1>7. Live(jar) => Live(jar)'
    BY <1>2 DEF Live
  <1> QED BY <1>1, <1>2, <1>3, <1>4, <1>6, <1>7, GoodAside

LEMMA GoodCounted == ASSUME Inv, hist' = Count PROVE Good' /\ Needed
  BY CountGood, GoodForgotten

LEMMA GoodWrite == ASSUME Inv, Good, Write PROVE Good' /\ Needed
  <1>1. User \in Procs /\ proc[User].pc \notin Holding /\ hist \in Histories
    BY Given DEF Write, Procs, Holding
  <1>2. env' = env /\ site' = site /\ jar' = jar /\ slot' = slot /\ proc' = [proc EXCEPT ![User] = Idle]
    BY DEF Write
  <1>3. hist'.good = hist.good
    BY <1>1 DEF Write, Histories
  <1>4. proc'[User].pc \notin Holding /\ \A q \in Procs \ {User} : proc'[q] = proc[q]
    BY <1>1, <1>2, Given DEF Idle, Holding
  <1>5. Live(jar) => Live(jar)'
    BY <1>2 DEF Live
  <1> QED BY <1>1, <1>2, <1>3, <1>4, <1>5, GoodAside

LEMMA GoodComplete == ASSUME Inv, Good, Complete PROVE Good' /\ Needed
  <1>1. env' = env /\ jar' = jar /\ slot' = slot /\ proc' = proc /\ hist \in Histories /\ site \in Sites
    BY Given DEF Complete
  <1>2. CASE Persist(pend.id, pend.user, hist)
    <2>1. hist'.good = hist.good
      BY <1>1, <1>2 DEF Persist, Histories
    <2>2. site'.live = (site.live \cap InUse) \cup {NewSession}
      <3>1. site' = [site EXCEPT !.acct[NewSession] = pend.user,
                                 !.live = (site.live \cap InUse) \cup {NewSession}]
        BY <1>2 DEF Persist, SignedIn
      <3> QED BY <1>1, <3>1 DEF Sites
    <2>3. jar \in site.live => jar # 0 /\ jar \in InUse
      BY <1>1, Used, Assumed DEF Sites, Inv
    <2>4. Live(jar) => Live(jar)'
      BY <1>1, <2>2, <2>3 DEF Live
    <2> QED BY <1>1, <2>1, <2>4, GoodStill
  <1>3. CASE hist' \in {hist, Count} /\ site' = site
    <2>1. Live(jar) => Live(jar)'
      BY <1>1, <1>3 DEF Live
    <2> QED BY <1>1, <1>3, <2>1, CountGood, GoodStill
  <1> QED BY <1>2, <1>3 DEF Complete

LEMMA GoodWorld ==
    ASSUME Inv, Good, Refresh \/ Abandon \/ Publish \/ UNCHANGED vars
    PROVE  Good' /\ Needed
  <1>1. env' = env /\ jar' = jar /\ slot' = slot /\ proc' = proc /\ hist' \in {hist, Count}
    BY DEF Refresh, Abandon, Publish, vars
  <1>2. site'.live = site.live
    BY Given DEF Refresh, Abandon, Publish, vars, Sites
  <1>3. Live(jar) => Live(jar)'
    BY <1>1, <1>2 DEF Live
  <1> QED BY <1>1, <1>3, CountGood, GoodStill

LEMMA GoodBegin ==
    ASSUME Inv, Good, NEW u, NEW pw, NEW id, Begin(u, pw, id) PROVE Good' /\ Needed
  <1>1. CASE hist' = Count
    BY <1>1, GoodCounted
  <1>2. CASE Persist(id, u, Count)
    <2>1. Count \in Histories /\ Count.good = None
      BY HistOf, CountGood
    <2>2. hist'.good = None
      BY <1>2, <2>1 DEF Persist, Histories
    <2> QED BY <2>2, GoodForgotten
  <1> QED BY <1>1, <1>2 DEF Begin

LEMMA GoodNext == ASSUME Inv, Good, [Next]_vars PROVE Good' /\ Needed
  <1>1. ASSUME NEW p \in Procs, Step(p) PROVE Good' /\ Needed
    <2>1. CASE Expire(p)
      BY <2>1, GoodCounted DEF Expire
    <2> QED BY <1>1, <2>1, GoodAcquire, GoodVerify, GoodRestore, GoodRestored, GoodLogin, GoodConfirm DEF Step
  <1>2. ASSUME NEW p \in Workers,
               loadCredentials(p) \/ MarkSessionExpired(p) \/ Check(p) \/ FetchTopicPage(p) \/ Download(p)
        PROVE  Good' /\ Needed
    BY <1>2, GoodCheck
  <1>3. ASSUME NEW u \in Accounts, NEW pw \in Accounts,
               Create(u, pw) \/ Update(u, pw) \/ BeginInteractive(u, pw)
        PROVE  Good' /\ Needed
    BY <1>3, GoodCounted, GoodBegin DEF Create, Update, Ask, BeginInteractive
  <1>4. ASSUME NEW u \in Accounts, Rename(u) PROVE Good' /\ Needed
    BY <1>4, GoodCounted DEF Rename
  <1>5. CASE Test \/ Warm \/ Delete \/ Kill \/ Forget \/ Restart \/ Drift \/ Noise
    BY <1>5, GoodCounted DEF Test, Warm, Ask, Delete, Kill, Forget, Restart, Drift, Noise
  <1>6. CASE ReauthBegin
    BY <1>6, GoodBegin DEF ReauthBegin
  <1>7. CASE CompleteInteractive \/ ReauthComplete
    BY <1>7, GoodComplete DEF CompleteInteractive, ReauthComplete
  <1>8. CASE Write
    BY <1>8, GoodWrite
  <1>9. CASE Refresh \/ Abandon \/ Publish \/ UNCHANGED vars
    BY <1>9, GoodWorld
  <1> QED BY <1>1, <1>2, <1>3, <1>4, <1>5, <1>6, <1>7, <1>8, <1>9 DEF Next, Move

LEMMA GoodInit == Init => Good
  BY DEF Init, Good

-----------------------------------------------------------------------------
(* What a recorded token stands for.                                       *)

Reading == {"topic", "file"}

\* The page of release r with every cell on it.
PageOf(r) == [member |-> TRUE, shown |-> Cells,
              val |-> [c \in Cells |-> IF c = "hash" THEN r ELSE IF c = "seeds" THEN 0
                                       ELSE Content[r][c]]]
TokenOf(k, r) == Token(k, PageOf(r))

\* The tokens a check may take for release r's.
TokensOf(k, r) == {TokenOf(k, r)} \cup IF k = "generictorrentfile" THEN {ErrorPageToken} ELSE {}

\* The trackers whose token a template change moves.
Drifts == env.kind \in {"toloka", "anidub", "torznab"} /\ "drift" \in env.on

Topics == [tok : SUBSET (Cells \X Nat), rec : Nat, got : SUBSET Nat]

\* A download goes on with a release no newer than the page it reads, and with
\* that release's token; the token recorded is that of the release recorded.
Recorded ==
    /\ topic \in [Workers -> Topics]
    /\ "drift" \notin env.on => site.shown = Cells
    /\ \A p \in Workers : proc[p].pc \in Reading =>
          /\ env.kind # "lostfilm"
          /\ proc[p].found \in Releases /\ proc[p].page \in Releases
          /\ proc[p].found <= proc[p].page /\ proc[p].page <= site.rel
          /\ ~Drifts => proc[p].tok \in TokensOf(env.kind, proc[p].found)
    /\ \A p \in Workers :
          env.kind # "lostfilm" => topic[p].rec \in Releases
                                   /\ (~Drifts => topic[p].tok \in TokensOf(env.kind, topic[p].rec))
    /\ RecordedIsDelivered

\* What TokenIsTheRelease asks of a check.
Misread(p) ==
    env.kind = "generictorrentfile" /\ ErrorPageToken \in {topic[p].tok, proc'[p].tok}
SameId(p) == /\ env.kind \in GoById
             /\ \A c \in Seen(env.kind) : Content[site.rel][c] = Content[topic[p].rec][c]

TokenTells(p) ==
    ~Drifts =>
        /\ proc'[p].pc \in Reading => site.rel # topic[p].rec \/ Misread(p)
        /\ proc'[p].err = "ok" /\ proc'[p].pc = "idle" /\ env.kind \notin {"lostfilm", "genericmagnet"}
              => site.rel = topic[p].rec \/ Misread(p) \/ SameId(p)

\* A page that shows the cells reads as the full page of the release does.
LEMMA ReadsFull ==
    ASSUME NEW member, NEW cells \in SUBSET (Cells \ {"seeds"}), cells \subseteq site.shown
    PROVE  Read(Page(member), cells) = Read(PageOf(site.rel), cells)
  <1>1. \A c \in cells : c \in Cells /\ c # "seeds" /\ Page(member).val[c] = PageOf(site.rel).val[c]
    BY DEF Page, PageOf
  <1>2. cells \cap Page(member).shown = cells /\ cells \cap PageOf(site.rel).shown = cells
    BY DEF Page, PageOf
  <1> QED BY <1>1, <1>2 DEF Read

LEMMA ReadsNothing ==
    ASSUME NEW member, NEW cell, cell \notin site.shown
    PROVE  Read(Page(member), {cell}) = {}
  BY DEF Read, Page

\* Two releases whose pages read the same say the same in each cell read.
LEMMA ReadsAlike ==
    ASSUME NEW r \in Releases, NEW s \in Releases, NEW cells \in SUBSET Cells,
           Read(PageOf(r), cells) = Read(PageOf(s), cells)
    PROVE  /\ "hash" \in cells => r = s
           /\ \A c \in cells \ {"hash", "seeds"} : Content[r][c] = Content[s][c]
  <1>1. \A x : Read(PageOf(x), cells) = {<<c, PageOf(x).val[c]>> : c \in cells}
    BY DEF Read, PageOf
  <1>2. ASSUME NEW c \in cells PROVE PageOf(r).val[c] = PageOf(s).val[c]
    <2>1. <<c, PageOf(r).val[c]>> \in Read(PageOf(s), cells)
      BY <1>1
    <2>2. PICK d \in cells : <<c, PageOf(r).val[c]>> = <<d, PageOf(s).val[d]>>
      BY <1>1, <2>1
    <2> QED BY <2>2
  <1>3. ASSUME "hash" \in cells PROVE r = s
    BY <1>2, <1>3 DEF PageOf, Cells
  <1>4. ASSUME NEW c \in cells \ {"hash", "seeds"} PROVE Content[r][c] = Content[s][c]
    BY <1>2 DEF PageOf
  <1> QED BY <1>3, <1>4

\* The infohash tells two releases apart, and so do the cells Toloka and TapocheK
\* read, the registration date among them.
LEMMA ReadsApart ==
    ASSUME NEW r \in Releases, NEW s \in Releases
    PROVE  /\ Read(PageOf(r), {"hash"}) = Read(PageOf(s), {"hash"}) => r = s
           /\ Read(PageOf(r), {"id", "name", "size", "registered"})
                = Read(PageOf(s), {"id", "name", "size", "registered"}) => r = s
           /\ \A cells \in {{"id"}, {"id", "name", "size"}} :
                Read(PageOf(r), cells) = Read(PageOf(s), cells)
                    => \A c \in cells : Content[r][c] = Content[s][c]
  <1>1. ASSUME Read(PageOf(r), {"hash"}) = Read(PageOf(s), {"hash"}) PROVE r = s
    BY <1>1, ReadsAlike DEF Cells
  <1>2. ASSUME Read(PageOf(r), {"id", "name", "size", "registered"})
                 = Read(PageOf(s), {"id", "name", "size", "registered"})
        PROVE  r = s
    <2>1. \A c \in {"id", "name", "size", "registered"} : Content[r][c] = Content[s][c]
      BY <1>2, ReadsAlike DEF Cells
    <2>2. Cells \ {"hash", "seeds"} = {"id", "name", "size", "registered"}
      BY DEF Cells
    <2>3. Content[r] \in [Cells \ {"hash", "seeds"} -> Nat] /\ Content[s] \in [Cells \ {"hash", "seeds"} -> Nat]
      BY SessionsAssumption DEF SessionsAssumption
    <2>4. Content[r] = Content[s]
      BY <2>1, <2>2, <2>3
    <2> QED BY <2>4, ContentAssumption DEF ContentAssumption
  <1>3. ASSUME NEW cells \in {{"id"}, {"id", "name", "size"}},
               Read(PageOf(r), cells) = Read(PageOf(s), cells)
        PROVE  \A c \in cells : Content[r][c] = Content[s][c]
    <2>1. cells \in SUBSET Cells /\ cells \ {"hash", "seeds"} = cells
      BY <1>3 DEF Cells
    <2> QED BY <1>3, <2>1, ReadsAlike
  <1> QED BY <1>1, <1>2, <1>3

\* A page has the token of its release, or none.
LEMMA TokenOfPage ==
    ASSUME Inv, "drift" \notin env.on => site.shown = Cells, env.kind # "lostfilm", ~Drifts, NEW member
    PROVE  Token(env.kind, Page(member)) \in {{}, TokenOf(env.kind, site.rel)}
  <1> DEFINE Full == {{"hash"}, {"id"}, {"id", "name", "size"}, {"id", "name", "size", "registered"}}
  <1>1. \A cells \in Full : cells \in SUBSET (Cells \ {"seeds"})
    BY DEF Cells
  <1>2. \A cells \in Full :
           cells \subseteq site.shown => Read(Page(member), cells) = Read(PageOf(site.rel), cells)
    BY <1>1, ReadsFull
  <1>3. \A cell : cell \notin site.shown => Read(Page(member), {cell}) = {}
    BY ReadsNothing
  <1>4. env.kind \in {"toloka", "anidub", "torznab"} => site.shown = Cells
    BY DEF Drifts
  <1>5. Page(member).member = member /\ Page(member).shown = site.shown
        /\ PageOf(site.rel).member = TRUE /\ PageOf(site.rel).shown = Cells
    BY DEF Page, PageOf
  <1>6. env.kind \in Kinds \ {"lostfilm"}
    BY Given
  <1>7. /\ \A c \in {"hash", "id"} : Read(Page(member), {c}) \in {{}, Read(PageOf(site.rel), {c})}
        /\ "id" \in Cells /\ "hash" \in Cells /\ {"id", "registered"} \subseteq Cells
        /\ {"id", "name", "size", "registered"} \subseteq Cells /\ {"id", "name", "size"} \subseteq Cells
    BY <1>2, <1>3 DEF Cells
  <1> HIDE DEF Full
  <1>8. CASE env.kind \in {"toloka", "anidub", "torznab"}
    <2>1. /\ Read(Page(member), {"hash"}) = Read(PageOf(site.rel), {"hash"})
          /\ Read(Page(member), {"id", "name", "size"}) = Read(PageOf(site.rel), {"id", "name", "size"})
          /\ Read(Page(member), {"id", "name", "size", "registered"})
                = Read(PageOf(site.rel), {"id", "name", "size", "registered"})
      BY <1>2, <1>4, <1>7, <1>8 DEF Full
    <2> QED BY <1>4, <1>5, <1>7, <1>8, <2>1
            DEF TokenOf, Token, TolokaToken, AniDubToken, TorznabToken
  <1>9. CASE env.kind = "tapochek"
    <2>1. {"id", "name", "size", "registered"} \subseteq site.shown =>
             Read(Page(member), {"id", "name", "size", "registered"})
                = Read(PageOf(site.rel), {"id", "name", "size", "registered"})
      BY <1>2 DEF Full
    <2> QED BY <1>5, <1>7, <1>9, <2>1 DEF TokenOf, Token, TapochekToken
  <1>10. CASE env.kind \notin {"toloka", "anidub", "torznab", "tapochek"}
    BY <1>5, <1>6, <1>7, <1>10
    DEF TokenOf, Token, Kinds, WithCredentials, Private, Stored, RuTrackerToken, KinozalToken,
        NnmClubToken, RutorToken, AniLibriaToken, AniLibertyToken, NewznabToken, TorrentFileToken
  <1> QED BY <1>8, <1>9, <1>10

\* The token of a release is no other's, unless the plugin goes by the id.
LEMMA TokenOfRelease ==
    ASSUME Inv, env.kind \notin {"lostfilm", "genericmagnet"}, NEW r \in Releases, NEW s \in Releases,
           TokenOf(env.kind, r) = TokenOf(env.kind, s)
    PROVE  \/ r = s
           \/ env.kind \in GoById /\ \A c \in Seen(env.kind) : Content[r][c] = Content[s][c]
  <1>1. /\ Read(PageOf(r), {"hash"}) = Read(PageOf(s), {"hash"}) => r = s
        /\ Read(PageOf(r), {"id", "name", "size", "registered"})
                = Read(PageOf(s), {"id", "name", "size", "registered"}) => r = s
        /\ Read(PageOf(r), {"id"}) = Read(PageOf(s), {"id"})
                => \A c \in {"id"} : Content[r][c] = Content[s][c]
        /\ Read(PageOf(r), {"id", "name", "size"}) = Read(PageOf(s), {"id", "name", "size"})
                => \A c \in {"id", "name", "size"} : Content[r][c] = Content[s][c]
    BY ReadsApart
  <1>2. env.kind \in Kinds \ {"lostfilm", "genericmagnet"}
    BY Given
  <1>3. \A x : PageOf(x).member = TRUE /\ PageOf(x).shown = Cells
    BY DEF PageOf
  <1>4. /\ "hash" \in Cells /\ "id" \in Cells /\ {"id", "registered"} \subseteq Cells
        /\ {"id", "name", "size", "registered"} \subseteq Cells
    BY DEF Cells
  <1> QED
    BY <1>1, <1>2, <1>3, <1>4
    DEF TokenOf, Token, Kinds, WithCredentials, Private, Stored, RuTrackerToken, KinozalToken,
        TapochekToken, TolokaToken, AniDubToken, NnmClubToken, RutorToken, AniLibriaToken,
        AniLibertyToken, NewznabToken, TorznabToken, TorrentFileToken, GoById, Seen

\* Nobody starts to read, and the site only publishes.
LEMMA RecordedStays ==
    ASSUME Recorded, env' = env, topic' = topic, site \in Sites, site' \in Sites, site.rel <= site'.rel,
           "drift" \notin env.on => site'.shown = site.shown,
           \A q \in Workers : proc'[q].pc \in Reading => proc'[q] = proc[q]
    PROVE  Recorded'
  <1>1. site.rel \in Nat /\ site'.rel \in Nat /\ Releases \subseteq Nat
    BY Assumed DEF Sites
  <1>2. Drifts' <=> Drifts
    BY DEF Drifts
  <1>3. RecordedIsDelivered'
    BY DEF Recorded, RecordedIsDelivered
  <1>4. ASSUME NEW p \in Workers, proc'[p].pc \in Reading
        PROVE  /\ env.kind # "lostfilm"
               /\ proc'[p].found \in Releases /\ proc'[p].page \in Releases
               /\ proc'[p].found <= proc'[p].page /\ proc'[p].page <= site'.rel
               /\ ~Drifts => proc'[p].tok \in TokensOf(env.kind, proc'[p].found)
    <2>1. proc'[p] = proc[p] /\ proc[p].pc \in Reading
      BY <1>4
    <2>2. /\ env.kind # "lostfilm"
          /\ proc[p].found \in Releases /\ proc[p].page \in Releases
          /\ proc[p].found <= proc[p].page /\ proc[p].page <= site.rel
          /\ ~Drifts => proc[p].tok \in TokensOf(env.kind, proc[p].found)
      BY <2>1 DEF Recorded
    <2>3. proc[p].page \in Nat
      BY <1>1, <2>2
    <2>4. proc[p].page <= site'.rel
      BY <1>1, <2>2, <2>3
    <2> QED BY <2>1, <2>2, <2>4
  <1>5. \A p \in Workers :
          env.kind # "lostfilm" => topic'[p].rec \in Releases
                                   /\ (~Drifts => topic'[p].tok \in TokensOf(env.kind, topic'[p].rec))
    BY DEF Recorded
  <1>6. topic' \in [Workers -> Topics] /\ ("drift" \notin env.on => site'.shown = Cells)
    BY DEF Recorded
  <1> QED BY <1>2, <1>3, <1>4, <1>5, <1>6 DEF Recorded

\* A process that becomes something else than a reader.
LEMMA NoReader ==
    ASSUME Inv, NEW p \in Procs, NEW w, proc' = [proc EXCEPT ![p] = w], w.pc \notin Reading
    PROVE  \A q \in Workers : proc'[q].pc \in Reading => proc'[q] = proc[q]
  BY Given DEF Procs

LEMMA RecordedStep ==
    ASSUME Inv, Recorded, NEW p \in Procs, Step(p)
    PROVE  Recorded'
  <1>1. proc[p] \in Attempts /\ env' = env /\ topic' = topic /\ site \in Sites
    BY Given DEF Step, acquire, Expire, verify, restoreSession, restored, login, confirm
  <1>0. site.rel \in Nat
    BY <1>1, Assumed DEF Sites
  <1>2. ASSUME NEW pc, proc' = [proc EXCEPT ![p].pc = pc], pc \notin Reading
        PROVE  \A q \in Workers : proc'[q].pc \in Reading => proc'[q] = proc[q]
    <2>1. [proc[p] EXCEPT !.pc = pc].pc = pc
      BY <1>1 DEF Attempts
    <2> QED BY <1>2, <2>1, NoReader
  <1>3. ASSUME NEW err \in Errors, proc' = [proc EXCEPT ![p] = Answered(p, err)]
        PROVE  \A q \in Workers : proc'[q].pc \in Reading => proc'[q] = proc[q]
    <2>1. Answered(p, err).pc \in {"write", "page", "mark", "idle"}
      BY Answers DEF Inv
    <2> QED BY <1>3, <2>1, NoReader DEF Reading
  <1>4. ASSUME NEW err \in Errors, Settle(p, err)
        PROVE  \A q \in Workers : proc'[q].pc \in Reading => proc'[q] = proc[q]
    BY <1>3, <1>4 DEF Settle
  <1>5. \A c : ToLogin(c) \in {"restore", "login"}
    BY ToLoginIs
  <1>6. CASE site' = site /\ \A q \in Workers : proc'[q].pc \in Reading => proc'[q] = proc[q]
    <2>1. site.rel <= site'.rel
      BY <1>0, <1>6
    <2> QED BY <1>1, <1>6, <2>1, RecordedStays
  <1>7. CASE acquire(p)
    <2>1. CASE proc' = [proc EXCEPT ![p] = Answered(p, slot.last.err)] /\ slot.last # None
      <3>1. slot.last.err \in Errors
        BY <2>1, Given DEF Slots
      <3> QED BY <1>3, <1>6, <1>7, <2>1, <3>1 DEF acquire
    <2>2. CASE proc' = [proc EXCEPT ![p].pc =
                    IF ~Validates(p) /\ Owns(p) THEN "verify" ELSE ToLogin(proc[p].cred)]
      BY <1>2, <1>5, <1>6, <1>7, <2>2 DEF acquire, Reading
    <2> QED BY <1>7, <2>1, <2>2 DEF acquire, Inherits
  <1>8. CASE Expire(p)
    <2>1. proc[p].pc \notin Reading
      BY <1>8 DEF Expire, Reading
    <2>2. CASE proc' = [proc EXCEPT ![p] = [Idle EXCEPT !.err = "context", !.late = TRUE]]
      <3>1. [Idle EXCEPT !.err = "context", !.late = TRUE].pc = "idle"
        BY DEF Idle
      <3> QED BY <1>6, <1>8, <2>2, <3>1, NoReader DEF Expire, Reading
    <2>3. CASE proc' = [proc EXCEPT ![p] = [proc[p] EXCEPT !.late = TRUE]]
      <3>1. [proc[p] EXCEPT !.late = TRUE].pc = proc[p].pc
        BY <1>1 DEF Attempts
      <3> QED BY <1>6, <1>8, <2>1, <2>3, <3>1, NoReader DEF Expire
    <2> QED BY <1>8, <2>2, <2>3 DEF Expire
  <1>9. CASE verify(p)
    BY <1>2, <1>4, <1>5, <1>6, <1>9 DEF verify, Go, Reading, Errors
  <1>10. CASE restoreSession(p)
    BY <1>2, <1>6, <1>10 DEF restoreSession, Go, Reading
  <1>11. CASE restored(p)
    BY <1>2, <1>4, <1>6, <1>11 DEF restored, Go, Reading, Errors
  <1>12. CASE confirm(p)
    BY <1>4, <1>6, <1>12 DEF confirm, Errors
  <1>13. CASE login(p)
    <2>1. CASE (\E err \in {"error", "context"} : Settle(p, err)) /\ site' = site
      BY <1>4, <1>6, <2>1 DEF Errors
    <2>2. ASSUME NEW r \in Login(env.kind, Right(proc[p].cred), Live(jar)),
                 r.jar = "new" => Fresh # {},
                 site' = IF r.jar = "new" THEN SignedIn(proc[p].cred.user) ELSE site,
                 IF r.err = "ok" /\ Validates(p) THEN Go(p, "confirm") ELSE Settle(p, r.err)
          PROVE  Recorded'
      <3>1. env.kind \in WithCredentials /\ proc[p].cred \in Creds
        BY <1>13 DEF Inv, Serialised, login, Holding
      <3>2. r.err \in Errors
        BY <2>2, <3>1
        DEF WithCredentials, Private, Stored, Login, RuTrackerLogin, KinozalLogin, TapochekLogin,
            TolokaLogin, AniDubLogin, LostFilmLogin, Result, Errors
      <3>3. site' \in Sites /\ site'.rel = site.rel /\ site'.shown = site.shown
        <4>1. CASE r.jar = "new"
          <5>1. proc[p].cred.user \in Accounts
            BY <3>1 DEF Creds
          <5> QED BY <2>2, <4>1, <5>1, NewId DEF Inv
        <4>2. CASE r.jar # "new"
          BY <1>1, <2>2, <4>2
        <4> QED BY <4>1, <4>2
      <3>4. site.rel <= site'.rel
        BY <1>0, <3>3
      <3>5. \A q \in Workers : proc'[q].pc \in Reading => proc'[q] = proc[q]
        BY <1>2, <1>4, <2>2, <3>2 DEF Go, Reading
      <3> QED BY <1>1, <3>3, <3>4, <3>5, RecordedStays
    <2> QED BY <1>13, <2>1, <2>2 DEF login
  <1> QED BY <1>7, <1>8, <1>9, <1>10, <1>11, <1>12, <1>13 DEF Step

\* What the client is given is a release no older than the one the check saw,
\* lagging hosts apart.
LEMMA HandedOver ==
    ASSUME Inv, Recorded, NEW p \in Workers, proc[p].pc = "file", 
           NEW file \in {File(p)} \cup Mishaps,
           NEW out, out = Handed(env.kind, proc[p].found, proc[p].page, site.shown, file),
           out # Nothing
    PROVE  /\ out.rel \in Nat
           /\ out.is = "html" => env.kind \in Unchecked
           /\ out.is # "html" =>
                 /\ out.rel # 0
                 /\ ("mirror" \in env.on /\ env.kind # "rutor") \/ out.rel >= proc[p].found
  <1> DEFINE k == env.kind
             found == proc[p].found
             page == proc[p].page
  <1>1. k \in Kinds \ {"lostfilm"} /\ site.rel \in Nat /\ found \in Nat \ {0} /\ page \in Nat \ {0}
        /\ found <= page /\ page <= site.rel
    <2>1. \A r \in Releases : r \in Nat \ {0}
      BY Assumed DEF Releases
    <2>2. k # "lostfilm" /\ found \in Releases /\ page \in Releases
          /\ found <= page /\ page <= site.rel
      BY DEF Recorded, Reading
    <2> QED BY <2>1, <2>2, Given DEF Sites
  <1>2. \/ file = Nothing
        \/ /\ file.is \in {"torrent", "html"} /\ file.rel \in Nat \ {0}
           /\ file.rel = site.rel \/ "mirror" \in env.on
    <2>1. \/ file = Nothing \/ file = Payload("torrent", site.rel)
          \/ file = Payload("html", site.rel)
          \/ file = Payload("torrent", site.rel - 1) /\ "mirror" \in env.on /\ site.rel > 1
      BY DEF File, Mishaps, On
    <2> QED BY <1>1, <2>1 DEF Payload
  <1> HIDE DEF k, found, page
  <1>3. out = Handed(k, found, page, site.shown, file)
    BY DEF k, found, page
  <1>4. CASE out = file /\ (file.is = "torrent" \/ k \in Unchecked) /\ k # "rutor"
    <2>1. out.rel \in Nat \ {0} /\ (out.rel = site.rel \/ "mirror" \in env.on)
      BY <1>2, <1>4
    <2>2. out.is = "html" => k \in Unchecked
      BY <1>4
    <2> QED BY <1>1, <1>4, <2>1, <2>2 DEF k, found
  <1>5. CASE out \in {Payload("magnet", found), Payload("magnet", page), Payload("torrent", page)}
    <2>1. out.rel \in {found, page} /\ out.is # "html"
      BY <1>5 DEF Payload
    <2>2. out.rel \in Nat /\ out.rel # 0 /\ out.rel >= found
      BY <1>1, <2>1
    <2> QED BY <2>1, <2>2 DEF found
  <1>6. CASE k \in {"rutracker", "nnmclub", "rutor", "tapochek", "toloka", "anidub", "kinozal"}
    BY <1>3, <1>4, <1>5, <1>6
    DEF Handed, RuTrackerPayload, NnmClubPayload, RutorPayload, TapochekPayload, TolokaPayload,
        AniDubPayload, KinozalPayload, Unchecked
  <1>7. CASE k \in {"anilibria", "newznab", "torznab", "generictorrentfile", "aniliberty", "genericmagnet"}
    BY <1>3, <1>4, <1>5, <1>7
    DEF Handed, AniLibriaPayload, NewznabPayload, TorznabPayload, TorrentFilePayload, Unchecked
  <1> QED BY <1>1, <1>6, <1>7 DEF Kinds, WithCredentials, Private, Stored

LEMMA RecordedDone ==
    ASSUME Inv, Recorded, NEW p \in Workers, NEW err, Done(p, err),
           env' = env, site' = site, topic' = topic
    PROVE  Recorded' /\ proc'[p].pc = "idle" /\ proc'[p].err = err
  <1>1. [Idle EXCEPT !.err = err].pc = "idle" /\ [Idle EXCEPT !.err = err].err = err
    BY DEF Idle
  <1>2. p \in Procs /\ proc' = [proc EXCEPT ![p] = [Idle EXCEPT !.err = err]]
    BY DEF Procs, Done
  <1>3. \A q \in Workers : proc'[q].pc \in Reading => proc'[q] = proc[q]
    BY <1>1, <1>2, NoReader DEF Reading
  <1>4. site \in Sites /\ site.rel \in Nat
    BY Given, Assumed DEF Sites
  <1>5. Recorded'
    BY <1>3, <1>4, RecordedStays
  <1> QED BY <1>1, <1>2, <1>5, Given

\* p goes on to read.
LEMMA RecordedReads ==
    ASSUME Inv, Recorded, NEW p \in Workers, env' = env, site' = site, topic' = topic,
           NEW w, proc' = [proc EXCEPT ![p] = w], env.kind # "lostfilm",
           w.found \in Releases, w.page = site.rel, w.found <= site.rel,
           ~Drifts => w.tok \in TokensOf(env.kind, w.found)
    PROVE  Recorded'
  <1>1. p \in Procs /\ proc'[p] = w /\ \A q \in Workers \ {p} : proc'[q] = proc[q]
    BY Given DEF Procs
  <1>2. site.rel \in Releases /\ site.rel \in Nat
    BY Given, Assumed DEF Sites
  <1>3. Drifts' <=> Drifts
    BY DEF Drifts
  <1>4. RecordedIsDelivered'
    BY DEF Recorded, RecordedIsDelivered
  <1>5. ASSUME NEW q \in Workers, proc'[q].pc \in Reading
        PROVE  /\ env.kind # "lostfilm"
               /\ proc'[q].found \in Releases /\ proc'[q].page \in Releases
               /\ proc'[q].found <= proc'[q].page /\ proc'[q].page <= site.rel
               /\ ~Drifts => proc'[q].tok \in TokensOf(env.kind, proc'[q].found)
    <2>1. CASE q = p
      BY <1>1, <1>2, <2>1
    <2>2. CASE q # p
      BY <1>1, <1>5, <2>2 DEF Recorded
    <2> QED BY <2>1, <2>2
  <1>6. \A q \in Workers :
          env.kind # "lostfilm" => topic'[q].rec \in Releases
                                   /\ (~Drifts => topic'[q].tok \in TokensOf(env.kind, topic'[q].rec))
    BY DEF Recorded
  <1>7. topic' \in [Workers -> Topics] /\ ("drift" \notin env.on => site'.shown = Cells)
    BY DEF Recorded
  <1> QED BY <1>3, <1>4, <1>5, <1>6, <1>7 DEF Recorded

LEMMA RecordedCheck == ASSUME Inv, Recorded, NEW p \in Workers, Check(p) PROVE Recorded' /\ TokenTells(p)
  <1>1. env' = env /\ site' = site /\ topic' = topic /\ site.rel \in Releases /\ site.rel \in Nat
        /\ proc[p] \in Attempts
    BY Given, Assumed DEF Check, Sites, Procs
  <1>2. CASE Done(p, gateError(p)) \/ Done(p, "error")
    <2>1. gateError(p) # "ok"
      BY DEF gateError
    <2> QED BY <1>1, <1>2, <2>1, RecordedDone DEF TokenTells, Reading
  <1>3. CASE env.kind = "lostfilm" /\ Done(p, "ok")
    BY <1>1, <1>3, RecordedDone DEF TokenTells, Reading
  <1>4. ASSUME env.kind # "lostfilm", ~Drifts, NEW tok \in Tokens(p), tok # {}
        PROVE  tok \in TokensOf(env.kind, site.rel)
    BY <1>4, TokenOfPage DEF Recorded, Tokens, TokensOf
  <1>5. env.kind # "lostfilm" =>
           topic[p].rec \in Releases /\ (~Drifts => topic[p].tok \in TokensOf(env.kind, topic[p].rec))
    BY DEF Recorded
  <1>6. ASSUME env.kind # "lostfilm", NEW tok \in Tokens(p), tok # {}, tok = topic[p].tok, Done(p, "ok")
        PROVE  Recorded' /\ TokenTells(p)
    <2>1. Recorded' /\ proc'[p].pc = "idle"
      BY <1>1, <1>6, RecordedDone
    <2>2. ASSUME ~Drifts, env.kind # "genericmagnet"
          PROVE  site.rel = topic[p].rec \/ Misread(p) \/ SameId(p)
      <3>1. tok \in TokensOf(env.kind, site.rel) /\ tok \in TokensOf(env.kind, topic[p].rec)
        BY <1>4, <1>5, <1>6, <2>2
      <3>2. CASE env.kind = "generictorrentfile" /\ tok = ErrorPageToken
        BY <1>6, <3>2 DEF Misread
      <3>3. CASE TokenOf(env.kind, site.rel) = TokenOf(env.kind, topic[p].rec)
        BY <1>1, <1>5, <1>6, <2>2, <3>3, TokenOfRelease DEF SameId
      <3> QED BY <3>1, <3>2, <3>3 DEF TokensOf
    <2> QED BY <2>1, <2>2 DEF TokenTells, Reading
  <1>7. ASSUME env.kind # "lostfilm", NEW tok \in Tokens(p), tok # {}, tok # topic[p].tok,
               proc' = [proc EXCEPT ![p] =
                     [@ EXCEPT !.pc = IF ReadsTopicPage(env.kind) THEN "topic" ELSE "file",
                               !.tok = tok, !.found = site.rel, !.page = site.rel]]
        PROVE  Recorded' /\ TokenTells(p)
    <2> DEFINE w == [proc[p] EXCEPT !.pc = IF ReadsTopicPage(env.kind) THEN "topic" ELSE "file",
                               !.tok = tok, !.found = site.rel, !.page = site.rel]
    <2>1. w.found = site.rel /\ w.page = site.rel /\ w.tok = tok /\ w.pc \in Reading
      BY <1>1 DEF Attempts, Reading
    <2>2. proc' = [proc EXCEPT ![p] = w]
      BY <1>7
    <2> HIDE DEF w
    <2>3. w.found \in Releases /\ w.found <= site.rel
          /\ (~Drifts => w.tok \in TokensOf(env.kind, w.found))
      BY <1>1, <1>4, <1>7, <2>1
    <2>6. Recorded'
      BY <1>1, <1>7, <2>1, <2>2, <2>3, RecordedReads
    <2>4. proc'[p] = w
      BY <2>2, Given DEF Procs
    <2>5. ASSUME ~Drifts PROVE site.rel # topic[p].rec \/ Misread(p)
      <3>1. tok \in TokensOf(env.kind, site.rel) /\ topic[p].tok \in TokensOf(env.kind, topic[p].rec)
            /\ proc'[p].tok = tok
        BY <1>4, <1>5, <1>7, <2>1, <2>4, <2>5
      <3> QED BY <1>7, <3>1 DEF TokensOf, Misread
    <2> QED BY <2>1, <2>4, <2>5, <2>6 DEF TokenTells, Reading
  <1> QED BY <1>2, <1>3, <1>6, <1>7 DEF Check

LEMMA RecordedFetch == ASSUME Inv, Recorded, NEW p \in Workers, FetchTopicPage(p) PROVE Recorded'
  <1>1. env' = env /\ site' = site /\ topic' = topic /\ proc[p].pc \in Reading /\ proc[p] \in Attempts
    BY Given DEF FetchTopicPage, Procs, Reading
  <1>2. CASE Done(p, "error")
    BY <1>1, <1>2, RecordedDone
  <1>3. CASE proc' = [proc EXCEPT ![p] = [@ EXCEPT !.pc = "file", !.page = site.rel]]
    <2> DEFINE w == [proc[p] EXCEPT !.pc = "file", !.page = site.rel]
    <2>1. w.found = proc[p].found /\ w.page = site.rel /\ w.tok = proc[p].tok
      BY <1>1 DEF Attempts
    <2>2. proc' = [proc EXCEPT ![p] = w]
      BY <1>3
    <2>3. /\ env.kind # "lostfilm" /\ proc[p].found \in Releases /\ proc[p].page \in Releases
          /\ proc[p].found <= proc[p].page /\ proc[p].page <= site.rel
          /\ ~Drifts => proc[p].tok \in TokensOf(env.kind, proc[p].found)
      BY <1>1 DEF Recorded
    <2>4. proc[p].found <= site.rel
      <3>1. proc[p].found \in Nat /\ proc[p].page \in Nat /\ site.rel \in Nat
        BY <2>3, Given, Assumed DEF Sites
      <3> QED BY <2>3, <3>1
    <2> HIDE DEF w
    <2> QED BY <1>1, <2>1, <2>2, <2>3, <2>4, RecordedReads
  <1> QED BY <1>2, <1>3 DEF FetchTopicPage

LEMMA RecordedDownload == ASSUME Inv, Recorded, NEW p \in Workers, Download(p) PROVE Recorded'
  <1>1. env' = env /\ site' = site /\ proc[p].pc = "file" /\ proc[p].pc \in Reading
        /\ p \in Procs /\ proc[p] \in Attempts
    BY Given DEF Download, Procs, Reading
  <1>2. ASSUME NEW err, Done(p, err), topic' = topic PROVE Recorded'
    BY <1>1, <1>2, RecordedDone
  <1>3. ASSUME NEW got \in SUBSET Nat, Done(p, "ok"),
               topic' = [topic EXCEPT ![p] = [tok |-> proc[p].tok, rec |-> proc[p].found, got |-> got]],
               0 \in got => env.kind \in Unchecked,
               \/ "mirror" \in env.on /\ env.kind # "rutor"
               \/ \E r \in got : r = 0 \/ r >= proc[p].found
        PROVE  Recorded'
    <2>2. /\ env.kind # "lostfilm" /\ proc[p].found \in Releases /\ proc[p].found \in Nat
          /\ ~Drifts => proc[p].tok \in TokensOf(env.kind, proc[p].found)
      BY <1>1, Assumed DEF Recorded
    <2>3. topic \in [Workers -> Topics]
      BY DEF Recorded
    <2> DEFINE t == [tok |-> proc[p].tok, rec |-> proc[p].found, got |-> got]
    <2>4. t \in Topics /\ t.tok = proc[p].tok /\ t.rec = proc[p].found /\ t.got = got
      BY <1>1, <1>3, <2>2 DEF Topics, Attempts
    <2>5. topic' = [topic EXCEPT ![p] = t]
      BY <1>3
    <2> HIDE DEF t
    <2>6. topic' \in [Workers -> Topics] /\ topic'[p] = t /\ \A q \in Workers \ {p} : topic'[q] = topic[q]
      BY <2>3, <2>4, <2>5
    <2>7. proc'[p].pc \notin Reading /\ \A q \in Workers \ {p} : proc'[q] = proc[q]
      <3>1. [Idle EXCEPT !.err = "ok"].pc = "idle"
        BY DEF Idle
      <3> QED BY <1>1, <1>3, <3>1, Given DEF Done, Procs, Reading
    <2>8. ASSUME NEW q \in Workers
          PROVE  /\ 0 \in topic'[q].got => env.kind \in Unchecked
                 /\ \/ "mirror" \in env.on /\ env.kind # "rutor"
                    \/ \E r \in topic'[q].got : r = 0 \/ r >= topic'[q].rec
      <3>2. CASE q = p
        BY <1>3, <2>4, <2>6, <3>2
      <3>3. CASE q # p
        BY <2>6, <3>3 DEF Recorded, RecordedIsDelivered
      <3> QED BY <3>2, <3>3
    <2>9. RecordedIsDelivered'
      BY <1>1, <2>8 DEF RecordedIsDelivered
    <2>10. Drifts' <=> Drifts
      BY <1>1 DEF Drifts
    <2>11. \A q \in Workers :
              env.kind # "lostfilm" => topic'[q].rec \in Releases
                                       /\ (~Drifts => topic'[q].tok \in TokensOf(env.kind, topic'[q].rec))
      BY <2>2, <2>4, <2>6 DEF Recorded
    <2>12. \A q \in Workers : proc'[q].pc \in Reading => proc'[q] = proc[q]
      BY <2>7
    <2>13. "drift" \notin env.on => site.shown = Cells
      BY DEF Recorded
    <2>14. \A q \in Workers : proc'[q].pc \in Reading =>
          /\ env.kind # "lostfilm"
          /\ proc'[q].found \in Releases /\ proc'[q].page \in Releases
          /\ proc'[q].found <= proc'[q].page /\ proc'[q].page <= site.rel
          /\ ~Drifts => proc'[q].tok \in TokensOf(env.kind, proc'[q].found)
      BY <2>12 DEF Recorded
    <2> QED BY <1>1, <2>6, <2>9, <2>10, <2>11, <2>13, <2>14 DEF Recorded
  <1>4. PICK file \in {File(p)} \cup Mishaps :
           LET out == Handed(env.kind, proc[p].found, proc[p].page, site.shown, file) IN
           \/ /\ out # Nothing /\ Done(p, "ok")
              /\ topic' = [topic EXCEPT ![p] = [tok |-> proc[p].tok, rec |-> proc[p].found,
                                got |-> @.got \cup {IF out.is = "html" THEN 0 ELSE out.rel}]]
           \/ out = Nothing /\ Done(p, gateError(p)) /\ UNCHANGED topic
           \/ out.is = "html" /\ Done(p, "error") /\ UNCHANGED topic
    BY DEF Download
  <1> DEFINE out == Handed(env.kind, proc[p].found, proc[p].page, site.shown, file)
             new == IF out.is = "html" THEN 0 ELSE out.rel
  <1>5. CASE /\ out # Nothing /\ Done(p, "ok")
             /\ topic' = [topic EXCEPT ![p] = [tok |-> proc[p].tok, rec |-> proc[p].found,
                                got |-> @.got \cup {new}]]
    <2>1. /\ out.rel \in Nat
          /\ out.is = "html" => env.kind \in Unchecked
          /\ out.is # "html" =>
                /\ out.rel # 0
                /\ ("mirror" \in env.on /\ env.kind # "rutor") \/ out.rel >= proc[p].found
      BY <1>1, <1>5, HandedOver
    <2>2. /\ new \in Nat /\ (new = 0 => env.kind \in Unchecked)
          /\ ("mirror" \in env.on /\ env.kind # "rutor") \/ new = 0 \/ new >= proc[p].found
      BY <2>1
    <2> HIDE DEF out, new
    <2>3. PICK got : got = topic[p].got \cup {new}
      OBVIOUS
    <2>4. topic' = [topic EXCEPT ![p] = [tok |-> proc[p].tok, rec |-> proc[p].found, got |-> got]]
      BY <1>5, <2>3
    <2>5. topic[p].got \subseteq Nat /\ (0 \in topic[p].got => env.kind \in Unchecked)
      BY DEF Recorded, Topics, RecordedIsDelivered
    <2>6. got \in SUBSET Nat /\ (0 \in got => env.kind \in Unchecked)
      BY <2>2, <2>3, <2>5
    <2>7. \/ "mirror" \in env.on /\ env.kind # "rutor"
          \/ \E r \in got : r = 0 \/ r >= proc[p].found
      BY <2>2, <2>3
    <2> QED BY <1>3, <1>5, <2>4, <2>6, <2>7
  <1> QED BY <1>2, <1>4, <1>5

LEMMA RecordedNext == ASSUME Inv, Recorded, [Next]_vars PROVE Recorded'
  <1>1. site \in Sites /\ site.rel \in Nat /\ site.rel \in Releases
    BY Given, Assumed DEF Sites
  <1>2. ASSUME env' = env, topic' = topic, site' \in Sites, site'.rel = site.rel,
               "drift" \notin env.on => site'.shown = site.shown,
               \A q \in Workers : proc'[q].pc \in Reading => proc'[q] = proc[q]
        PROVE  Recorded'
    BY <1>1, <1>2, RecordedStays
  <1>3. ASSUME NEW q \in Procs, NEW w, w.pc \notin Reading, proc' = [proc EXCEPT ![q] = w],
               env' = env, topic' = topic, site' = site
        PROVE  Recorded'
    BY <1>1, <1>2, <1>3, NoReader
  <1>4. User \in Procs /\ Workers \subseteq Procs /\ Idle.pc = "idle" /\ Idle.pc \notin Reading
    BY DEF Procs, Idle, Reading
  <1>5. ASSUME NEW p \in Workers, loadCredentials(p) \/ MarkSessionExpired(p) PROVE Recorded'
    <2>1. CASE loadCredentials(p)
      <3> DEFINE w == IF row = None \/ env.kind \notin WithCredentials THEN [Idle EXCEPT !.pc = "page"]
                      ELSE [Idle EXCEPT !.pc = "wait", !.cred = Cred(row.user, row.pass, row.sess),
                                        !.id = row.id, !.marked = row.expired]
      <3>1. proc' = [proc EXCEPT ![p] = w]
        BY <2>1 DEF loadCredentials
      <3>2. w.pc \notin Reading
        BY DEF Idle, Reading
      <3> HIDE DEF w
      <3> QED BY <1>3, <1>4, <2>1, <3>1, <3>2 DEF loadCredentials
    <2>2. CASE MarkSessionExpired(p)
      <3>1. [Idle EXCEPT !.err = proc[p].err, !.late = proc[p].late].pc = "idle"
        BY DEF Idle
      <3> QED BY <1>3, <1>4, <2>2, <3>1 DEF MarkSessionExpired, Reading
    <2> QED BY <1>5, <2>1, <2>2
  <1>6. ASSUME NEW why, NEW c, NEW id, Ask(why, c, id) PROVE Recorded'
    <2>1. [Idle EXCEPT !.pc = "wait", !.why = why, !.cred = c, !.id = id].pc = "wait"
      BY DEF Idle
    <2> QED BY <1>3, <1>4, <1>6, <2>1 DEF Ask, Reading
  <1>7. CASE Test \/ Warm \/ (\E u, pw \in Accounts : Create(u, pw) \/ Update(u, pw))
    BY <1>6, <1>7 DEF Test, Warm, Create, Update
  <1>8. CASE Write
    BY <1>3, <1>4, <1>8 DEF Write
  <1>9. ASSUME NEW id, NEW u \in Accounts, NEW h, Persist(id, u, h), UNCHANGED <<env, proc, topic>>
        PROVE  Recorded'
    <2>1. site' \in Sites /\ site'.rel = site.rel /\ site'.shown = site.shown
      BY <1>9, NewId DEF Persist, Inv
    <2> QED BY <1>2, <1>9, <2>1
  <1>10. ASSUME UNCHANGED <<env, site, proc, topic>> PROVE Recorded'
    BY <1>1, <1>2, <1>10
  <1>11. CASE \E u, pw \in Accounts : BeginInteractive(u, pw)
    BY <1>9, <1>10, <1>11 DEF BeginInteractive, Begin
  <1>12. CASE ReauthBegin
    <2>1. row.user \in Accounts
      BY <1>12, Given DEF ReauthBegin, Rows
    <2> QED BY <1>9, <1>10, <1>12, <2>1 DEF ReauthBegin, Begin
  <1>13. CASE CompleteInteractive \/ ReauthComplete
    <2>1. pend.user \in Accounts
      BY <1>13, Given DEF CompleteInteractive, ReauthComplete, Challenges
    <2> QED BY <1>9, <1>10, <1>13, <2>1 DEF CompleteInteractive, ReauthComplete, Complete
  <1>14. CASE Delete \/ Refresh \/ Abandon \/ Forget \/ UNCHANGED vars \/ (\E u \in Accounts : Rename(u))
    BY <1>10, <1>14 DEF Delete, Refresh, Abandon, Forget, vars, Rename
  <1>15. CASE Restart
    <2>1. \A q \in Workers : proc'[q] = Idle
      BY <1>4, <1>15 DEF Restart
    <2> QED BY <1>1, <1>2, <1>4, <1>15, <2>1 DEF Restart
  <1>16. CASE Publish
    <2>1. site' = [site EXCEPT !.rel = @ + 1] /\ site.rel < MaxRelease
      BY <1>16 DEF Publish
    <2>2. site.rel + 1 \in Releases /\ site.rel <= site.rel + 1
      BY <1>1, <2>1, Assumed DEF Releases
    <2>3. site' \in Sites /\ site.rel <= site'.rel /\ site'.shown = site.shown
      BY <1>1, <2>1, <2>2 DEF Sites
    <2> QED BY <1>1, <1>16, <2>3, RecordedStays DEF Publish
  <1>17. CASE Drift
    <2>1. PICK c \in Cells : site' = [site EXCEPT !.shown = IF c \in @ THEN @ \ {c} ELSE @ \cup {c}]
      BY <1>17 DEF Drift
    <2>2. site' \in Sites /\ site'.rel = site.rel
      BY <1>1, <2>1 DEF Sites
    <2> QED BY <1>2, <1>17, <2>2 DEF Drift, On
  <1>18. CASE Noise
    <2>1. site' \in Sites /\ site'.rel = site.rel /\ site'.shown = site.shown
      BY <1>1, <1>18 DEF Noise, Sites
    <2> QED BY <1>2, <1>18, <2>1 DEF Noise
  <1>19. CASE Kill
    <2>1. site' \in Sites /\ site'.rel = site.rel /\ site'.shown = site.shown
      BY <1>1, <1>19 DEF Kill, Sites
    <2> QED BY <1>2, <1>19, <2>1 DEF Kill
  <1> QED
    BY <1>5, <1>7, <1>8, <1>11, <1>12, <1>13, <1>14, <1>15, <1>16, <1>17, <1>18, <1>19,
       RecordedStep, RecordedCheck, RecordedFetch, RecordedDownload
    DEF Next, Move

LEMMA RecordedInit == Init => Recorded
  <1> SUFFICES ASSUME Init PROVE Recorded
    OBVIOUS
  <1>1. Inv
    BY InitInv
  <1>2. site.rel = 1 /\ site.shown = Cells /\ \A p \in Workers : proc[p].pc = "idle"
    BY DEF Init, Idle, Procs
  <1> DEFINE t == [tok |-> IF env.kind = "lostfilm" THEN {} ELSE Token(env.kind, Page(TRUE)),
                   rec |-> 1, got |-> {1}]
  <1>3. topic = [p \in Workers |-> t]
    BY DEF Init
  <1>4. env.kind # "lostfilm" => Token(env.kind, Page(TRUE)) \in SUBSET (Cells \X Nat)
    BY <1>1, TokenCells DEF Inv
  <1>5. t \in Topics /\ t.rec = 1 /\ t.got = {1}
        /\ (env.kind # "lostfilm" => t.tok = Token(env.kind, Page(TRUE)))
    <2>1. PICK tok \in SUBSET (Cells \X Nat) :
             tok = IF env.kind = "lostfilm" THEN {} ELSE Token(env.kind, Page(TRUE))
      BY <1>4
    <2>2. t = [tok |-> tok, rec |-> 1, got |-> {1}]
      BY <2>1
    <2> HIDE DEF t
    <2>3. t \in Topics /\ t.rec = 1 /\ t.got = {1} /\ t.tok = tok
      BY <2>2 DEF Topics
    <2>4. env.kind # "lostfilm" => tok = Token(env.kind, Page(TRUE))
      BY <2>1
    <2> QED BY <2>3, <2>4
  <1> HIDE DEF t
  <1>6. ASSUME env.kind # "lostfilm" PROVE Token(env.kind, Page(TRUE)) = TokenOf(env.kind, 1)
    <2>1. \A cells \in SUBSET (Cells \ {"seeds"}) :
             Read(Page(TRUE), cells) = Read(PageOf(1), cells)
      BY <1>2, ReadsFull
    <2>2. Page(TRUE).member = TRUE /\ Page(TRUE).shown = Cells
          /\ PageOf(1).member = TRUE /\ PageOf(1).shown = Cells
      BY <1>2 DEF Page, PageOf
    <2>3. \A cells \in {{"hash"}, {"id"}, {"id", "name", "size"}, {"id", "name", "size", "registered"}} :
             Read(Page(TRUE), cells) = Read(PageOf(1), cells)
      BY <2>1 DEF Cells
    <2>4. env.kind \in Kinds \ {"lostfilm"}
      BY <1>1, <1>6, Given
    <2> QED
      BY <2>2, <2>3, <2>4
      DEF TokenOf, Token, Kinds, WithCredentials, Private, Stored, RuTrackerToken, KinozalToken,
          TapochekToken, TolokaToken, AniDubToken, NnmClubToken, RutorToken, AniLibriaToken,
          AniLibertyToken, NewznabToken, TorznabToken, TorrentFileToken
  <1>7. topic \in [Workers -> Topics] /\ \A p \in Workers : topic[p] = t
    BY <1>3, <1>5
  <1>8. RecordedIsDelivered
    BY <1>5, <1>7 DEF RecordedIsDelivered
  <1>9. 1 \in Releases
    BY Assumed
  <1>10. \A p \in Workers :
          env.kind # "lostfilm" => topic[p].rec \in Releases
                                   /\ (~Drifts => topic[p].tok \in TokensOf(env.kind, topic[p].rec))
    BY <1>5, <1>6, <1>7, <1>9 DEF TokensOf
  <1>11. \A p \in Workers : proc[p].pc \notin Reading
    BY <1>2 DEF Reading
  <1> QED BY <1>2, <1>7, <1>8, <1>10, <1>11 DEF Recorded

-----------------------------------------------------------------------------
\* The slot serialises who signs in, the jar is the owner's between sign-ins,
\* and the row remembers that its user was told.
THEOREM Invariant == Spec => []Inv
  <1>1. Inv /\ [Next]_vars => Inv'
    BY StepInv
  <1> QED BY <1>1, InitInv, PTL DEF Spec

\* A check reads its pages and its file as its own account or as a guest, from
\* the answer to its question for a session to its end, unless another account
\* signs in meanwhile (session.go, EnsureSession).
THEOREM JarIsRight == Spec => []SignedInAsOwner
  <1>1. Init => SignedInAsOwner
    BY DEF Init, Idle, SignedInAsOwner, Reads, Procs
  <1>2. Inv /\ SignedInAsOwner /\ [Next]_vars => SignedInAsOwner'
    BY ReadsRight
  <1> QED BY <1>1, <1>2, Invariant, PTL DEF Spec

\* An expired session is told once, however many checks meet it at the same
\* time (scheduler.go:904-917).
THEOREM ToldOnce == Spec => []ExpiryToldOnce
  <1>1. Inv => ExpiryToldOnce
    BY DEF Inv, Remembered, ExpiryToldOnce
  <1> QED BY <1>1, Invariant, PTL

\* Nobody ends with the error of another caller's deadline (session.go, settle).
THEOREM DeadlineIsOwn == Spec => []OwnDeadlineOnly
  <1>1. Inv => OwnDeadlineOnly
    BY DEF Inv, OwnErrors, OwnDeadlineOnly
  <1> QED BY <1>1, Invariant, PTL

\* While nothing happened to the session since a credential signed in, no check
\* with it logs in again (session.go, EnsureSession's verify).
THEOREM OneSignIn == Spec => NoNeedlessLogin
  <1>1. Inv /\ Good /\ [Next]_vars => Good'
    BY GoodNext
  <1>2. Inv /\ Good /\ [Next]_vars
          => [\A p \in Workers : /\ proc[p].pc \in {"wait", "verify"}
                                 /\ proc'[p].pc \in {"restore", "login"} /\ SignInHolds(proc[p].cred)
                => proc[p].cred \notin {hist.good} \cap {hist'.good}]_vars
    BY GoodNext DEF Needed
  <1>3. Spec => []Good
    BY <1>1, GoodInit, Invariant, PTL DEF Spec
  <1> QED BY <1>2, <1>3, Invariant, PTL DEF Spec, NoNeedlessLogin

\* A recorded token stands for a release the client was given, or a newer one, and
\* only of six plugins was it given a web page (the Download of each plugin,
\* checkUpdated).
THEOREM RecordedWasGiven == Spec => []RecordedIsDelivered
  <1>1. Inv /\ Recorded /\ [Next]_vars => Recorded'
    BY RecordedNext
  <1>2. Recorded => RecordedIsDelivered
    BY DEF Recorded
  <1> QED BY <1>1, <1>2, RecordedInit, Invariant, PTL DEF Spec

\* The change token moves exactly when the tracker published a release (the Check
\* of each plugin), whatever its pages say of its releases as long as some cell
\* moves: but three plugins go by the id alone, and any answer is a plain file.
THEOREM TokenMovesWithRelease == Spec => TokenIsTheRelease
  <1>1. Inv /\ Recorded /\ [Next]_vars => Recorded'
    BY RecordedNext
  <1> DEFINE Tells(p) ==
        LET misread == env.kind = "generictorrentfile"
                          /\ ErrorPageToken \in {topic[p].tok, proc'[p].tok}
            sameId == env.kind \in GoById
                         /\ \A c \in Seen(env.kind) : Content[site.rel][c] = Content[topic[p].rec][c]
        IN  Check(p) /\ ~(env.kind \in {"toloka", "anidub", "torznab"} /\ "drift" \in env.on) =>
              /\ proc'[p].pc \in {"topic", "file"} => site.rel # topic[p].rec \/ misread
              /\ proc'[p].err = "ok" /\ proc'[p].pc = "idle" /\ env.kind \notin {"lostfilm", "genericmagnet"}
                    => site.rel = topic[p].rec \/ misread \/ sameId
  <1>2. ASSUME Inv, Recorded, NEW p \in Workers PROVE Tells(p)
    BY <1>2, RecordedCheck DEF TokenTells, Drifts, Reading, Misread, SameId
  <1> HIDE DEF Tells
  <1>3. Inv /\ Recorded /\ [Next]_vars => [\A p \in Workers : Tells(p)]_vars
    BY <1>2
  <1>4. Spec => [][\A p \in Workers : Tells(p)]_vars
    BY <1>1, <1>3, RecordedInit, Invariant, PTL DEF Spec
  <1> QED BY <1>4 DEF TokenIsTheRelease, Tells
=============================================================================
