------------------------------- MODULE SignIn -------------------------------
(***************************************************************************)
(* Staying signed in: the access and refresh tokens of one user.           *)
(*                                                                         *)
(*   auth.Manager         issues pairs, rotates refresh tokens; a revoked  *)
(*                        one that is presented again revokes them all     *)
(*   handlers.Auth        POST /auth/login, /auth/refresh, /auth/logout    *)
(*   lib/api.ts           each request of a tab: 401, one shared refresh,  *)
(*                        one retry                                        *)
(*   lib/auth-store.ts    the pair of a tab, copied to localStorage        *)
(*                                                                         *)
(* A pair is its number, 0 for none: access and refresh token are issued   *)
(* together.  A tab reads localStorage when it is loaded and never again;  *)
(* the tabs of a browser share one.  Rotate and Revoke are transactions,   *)
(* but a refresh reads the token before it rotates it.                     *)
(***************************************************************************)
EXTENDS Integers, FiniteSets

CONSTANTS
    Tabs,
    BrowserOf,    \* the browser of each tab
    RequestsOf,   \* names for the API calls each tab has in flight at once
    MaxPairs,     \* bound: pairs issued
    MaxFaults     \* bound: failed statements, lost answers, reloads

Browsers == {BrowserOf[t] : t \in Tabs}

ASSUME SignInAssumption == MaxPairs \in Nat \ {0} /\ MaxFaults \in Nat

VARIABLES
    next,       \* the next pair
    revoked,    \* refresh tokens with a revoked_at
    expired,    \* access tokens past their 15 minutes
    store,      \* localStorage of each browser
    mem,        \* the auth store of each tab
    req,        \* the requests of each tab; one that ended is NoRequest again
    fly,        \* refreshInFlight of each tab: [pc, token, new]
    out,        \* the sign-out of each tab: [pc, token]
    strays,     \* refreshes on the server whose tab no longer listens
    chain,      \* ghost: the sign-in each pair descends from
    reused,     \* ghost: a revoked token was presented
    spoilt,     \* ghost: what the clients did that rotation does not survive
    faults

tokens == <<next, revoked, chain>>
page == <<store, mem>>
vars == <<tokens, expired, page, req, fly, out, strays, reused, spoilt, faults>>

Causes == {"shared", "reload", "logout"}
Pairs == 1..(next - 1)
NoRequest == [pc |-> "idle", access |-> 0, retried |-> FALSE]
NoRefresh == [pc |-> "none", token |-> 0, new |-> 0]
NoLogout == [pc |-> "none", token |-> 0]

Init ==
    /\ next = 1 /\ revoked = {} /\ expired = {} /\ chain = <<>>
    /\ store = [b \in Browsers |-> 0] /\ mem = [t \in Tabs |-> 0]
    /\ req = [t \in Tabs |-> [r \in RequestsOf[t] |-> NoRequest]]
    /\ fly = [t \in Tabs |-> NoRefresh] /\ out = [t \in Tabs |-> NoLogout]
    /\ strays = {} /\ reused = FALSE /\ spoilt = {} /\ faults = 0

Fault == faults < MaxFaults /\ faults' = faults + 1
Spoil(cause, happens) == spoilt' = IF happens THEN spoilt \cup {cause} ELSE spoilt

-----------------------------------------------------------------------------
(* The server.                                                             *)

\* Issue and Rotate insert the next token.
Inserted(login) ==
    /\ next' = next + 1
    /\ chain' = [pair \in 1..next |-> IF pair = next THEN login ELSE chain[pair]]

\* A new sign-in, by password or through the OIDC callback.
Login(t) ==
    /\ mem[t] = 0 /\ next <= MaxPairs
    /\ Inserted(next)
    /\ mem' = [mem EXCEPT ![t] = next]
    /\ store' = [store EXCEPT ![BrowserOf[t]] = next]
    /\ UNCHANGED <<revoked, expired, req, fly, out, strays, reused, spoilt, faults>>

\* RevokeAllForUser.
RevokeAll == revoked' = Pairs /\ reused' = TRUE

\* The refresh handler reads the token.
Read(token) ==
    IF token \in revoked THEN RevokeAll ELSE UNCHANGED <<revoked, reused>>

RefreshRead(t) ==
    /\ fly[t].pc = "sent"
    /\ Read(fly[t].token)
    /\ fly' = [fly EXCEPT ![t].pc = IF fly[t].token \in revoked THEN "refused" ELSE "read"]
    /\ UNCHANGED <<next, chain, expired, page, req, out, strays, spoilt, faults>>

\* Rotate: one transaction, which does not look at revoked_at again.
Rotated(token) ==
    /\ Inserted(chain[token])
    /\ revoked' = revoked \cup {token}

\* An error is answered 401, whether or not the transaction was committed.  At
\* the bound on pairs it fails.
Rotate(t) ==
    /\ fly[t].pc = "read"
    /\ \/ /\ next <= MaxPairs /\ Rotated(fly[t].token)
          /\ fly' = [fly EXCEPT ![t].pc = "answer", ![t].new = next]
          /\ UNCHANGED faults
       \/ /\ IF next > MaxPairs THEN UNCHANGED <<tokens, faults>>
             ELSE Fault /\ (Rotated(fly[t].token) \/ UNCHANGED tokens)
          /\ fly' = [fly EXCEPT ![t].pc = "refused"]
    /\ UNCHANGED <<expired, page, req, out, strays, reused, spoilt>>

\* A refresh nobody listens to any more; its context may be cancelled at any time.
StrayRead(s) ==
    /\ s.pc = "sent"
    /\ Read(s.token)
    /\ strays' = (strays \ {s}) \cup
                 (IF s.token \in revoked THEN {} ELSE {[s EXCEPT !.pc = "read"]})
    /\ UNCHANGED <<next, chain, expired, page, req, fly, out, spoilt, faults>>

StrayRotate(s) ==
    /\ s.pc = "read" /\ next <= MaxPairs
    /\ Rotated(s.token)
    /\ strays' = strays \ {s}
    /\ UNCHANGED <<expired, page, req, fly, out, reused, spoilt, faults>>

StrayCancel(s) ==
    /\ strays' = strays \ {s}
    /\ UNCHANGED <<tokens, expired, page, req, fly, out, reused, spoilt, faults>>

\* RequireAuth: the signature and the times of the access token, no table.
Serve(t, r) ==
    /\ req[t][r].pc = "sent"
    /\ req' = [req EXCEPT ![t][r] = IF @.access \in expired \cup {0} THEN [@ EXCEPT !.pc = "401"]
                                    ELSE NoRequest]
    /\ UNCHANGED <<tokens, expired, page, fly, out, strays, reused, spoilt, faults>>

\* Access tokens run out in the order they were issued.
Expire ==
    /\ \E pair \in Pairs \ expired :
          /\ 1..(pair - 1) \subseteq expired
          /\ expired' = expired \cup {pair}
    /\ UNCHANGED <<tokens, page, req, fly, out, strays, reused, spoilt, faults>>

-----------------------------------------------------------------------------
(* A tab.                                                                  *)

\* What the server still works on when the tab stops listening.
Orphan(t) ==
    IF fly[t].pc \in {"sent", "read"} THEN {[pc |-> fly[t].pc, token |-> fly[t].token]} ELSE {}

\* A signed-in page calls the API.
Send(t, r) ==
    /\ req[t][r] = NoRequest /\ mem[t] # 0
    /\ req' = [req EXCEPT ![t][r] = [pc |-> "sent", access |-> mem[t], retried |-> FALSE]]
    /\ UNCHANGED <<tokens, expired, page, fly, out, strays, reused, spoilt, faults>>

Signed(t, pair) ==
    /\ mem' = [mem EXCEPT ![t] = pair]
    /\ store' = [store EXCEPT ![BrowserOf[t]] = pair]

\* tryRefresh: join the refresh in flight, start one, or give up.
Join(t, r) ==
    /\ fly[t].pc # "none"
    /\ req' = [req EXCEPT ![t][r].pc = "waiting"]
    /\ UNCHANGED <<page, fly, strays, spoilt>>

\* Mutant: a request that met a 401 always sends a refresh of its own.
StartEach(t, r) ==
    /\ mem[t] # 0
    /\ strays' = strays \cup Orphan(t)
    /\ fly' = [fly EXCEPT ![t] = [pc |-> "sent", token |-> mem[t], new |-> 0]]
    /\ req' = [req EXCEPT ![t][r].pc = "waiting"]
    /\ UNCHANGED <<page, spoilt>>

Start(t, r) ==
    /\ fly[t].pc = "none" /\ mem[t] # 0
    /\ fly' = [fly EXCEPT ![t] = [pc |-> "sent", token |-> mem[t], new |-> 0]]
    /\ req' = [req EXCEPT ![t][r].pc = "waiting"]
    /\ Spoil("logout", out[t].pc # "none")
    /\ UNCHANGED <<page, strays>>

GiveUp(t, r) ==
    /\ fly[t].pc = "none" /\ mem[t] = 0
    /\ req' = [req EXCEPT ![t][r] = NoRequest]
    /\ Signed(t, 0)
    /\ UNCHANGED <<fly, strays, spoilt>>

\* A 401 of a first attempt; a second one is the caller's error.
Unauthorized(t, r) ==
    /\ req[t][r].pc = "401"
    /\ IF req[t][r].retried
       THEN /\ req' = [req EXCEPT ![t][r] = NoRequest]
            /\ UNCHANGED <<page, fly, strays, spoilt>>
       ELSE Join(t, r) \/ Start(t, r) \/ GiveUp(t, r)
    /\ UNCHANGED <<tokens, expired, out, reused, faults>>

\* Mutant: only one of them is woken.
SettleOne(t, next_) ==
    LET waiting == {r \in RequestsOf[t] : req[t][r].pc = "waiting"}
    IN  [r \in RequestsOf[t] |-> IF waiting # {} /\ r = CHOOSE w \in waiting : TRUE
                                 THEN next_ ELSE req[t][r]]

\* The refresh settles: every request that waited for it goes on.
Settle(t, next_) ==
    [r \in RequestsOf[t] |-> IF req[t][r].pc = "waiting" THEN next_ ELSE req[t][r]]

Refreshed(t) ==
    /\ fly[t].pc = "answer"
    /\ Signed(t, fly[t].new)
    /\ req' = [req EXCEPT ![t] = Settle(t, [pc |-> "sent", access |-> fly[t].new, retried |-> TRUE])]
    /\ fly' = [fly EXCEPT ![t] = NoRefresh]
    /\ UNCHANGED <<tokens, expired, out, strays, reused, spoilt, faults>>

\* Refused, or no answer came though the server may go on: the waiting requests clear the store and fail.
RefreshFailed(t) ==
    /\ \/ fly[t].pc = "refused" /\ UNCHANGED <<strays, faults>>
       \/ fly[t].pc = "answer" /\ Fault /\ UNCHANGED strays
       \/ fly[t].pc \in {"sent", "read"} /\ Fault /\ strays' = strays \cup Orphan(t)
    /\ Signed(t, 0)
    /\ req' = [req EXCEPT ![t] = Settle(t, NoRequest)]
    /\ fly' = [fly EXCEPT ![t] = NoRefresh]
    /\ UNCHANGED <<tokens, expired, out, reused, spoilt>>

\* useLogout: tell the server, then forget the pair whatever it answered.
LogoutSend(t) ==
    /\ out[t].pc = "none" /\ mem[t] # 0
    /\ out' = [out EXCEPT ![t] = [pc |-> "sent", token |-> mem[t]]]
    /\ Spoil("logout", fly[t].pc # "none")
    /\ UNCHANGED <<tokens, expired, page, req, fly, strays, reused, faults>>

LogoutServe(t) ==
    /\ out[t].pc = "sent"
    /\ \/ revoked' = revoked \cup {out[t].token} /\ UNCHANGED faults
       \/ Fault /\ UNCHANGED revoked
    /\ out' = [out EXCEPT ![t].pc = "done"]
    /\ UNCHANGED <<next, chain, expired, page, req, fly, strays, reused, spoilt>>

LogoutDone(t) ==
    /\ out[t].pc = "done"
    /\ Signed(t, 0)
    /\ out' = [out EXCEPT ![t] = NoLogout]
    /\ UNCHANGED <<tokens, expired, req, fly, strays, reused, spoilt, faults>>

\* The tab is opened or reloaded: the pair comes from localStorage and nothing is
\* in flight; a refresh the server has begun goes on there.
Reload(t) ==
    LET pair == store[BrowserOf[t]]
    IN  /\ Fault
        /\ mem' = [mem EXCEPT ![t] = pair]
        /\ req' = [req EXCEPT ![t] = [r \in RequestsOf[t] |-> NoRequest]]
        /\ strays' = strays \cup Orphan(t)
        /\ fly' = [fly EXCEPT ![t] = NoRefresh] /\ out' = [out EXCEPT ![t] = NoLogout]
        /\ spoilt' = spoilt
              \cup (IF fly[t].pc # "none" THEN {"reload"} ELSE {})
              \cup (IF out[t].pc # "none" THEN {"logout"} ELSE {})
              \cup (IF pair # 0 /\ \E o \in Tabs \ {t} : mem[o] = pair THEN {"shared"} ELSE {})
        /\ UNCHANGED <<tokens, expired, store, reused>>

-----------------------------------------------------------------------------

Server(t) == RefreshRead(t) \/ Rotate(t) \/ LogoutServe(t)
Tab(t) == Refreshed(t) \/ RefreshFailed(t) \/ LogoutDone(t)

Next ==
    \/ \E t \in Tabs : Login(t) \/ LogoutSend(t) \/ Reload(t) \/ Server(t) \/ Tab(t)
    \/ \E t \in Tabs : \E r \in RequestsOf[t] : Send(t, r) \/ Serve(t, r) \/ Unauthorized(t, r)
    \/ \E s \in strays : StrayRead(s) \/ StrayRotate(s) \/ StrayCancel(s)
    \/ Expire

Spec == Init /\ [][Next]_vars

\* The server answers what reached it and the tab's event loop runs.
LiveSpec ==
    /\ Spec
    /\ \A t \in Tabs : WF_vars(Server(t)) /\ WF_vars(Tab(t))
    /\ \A t \in Tabs : \A r \in RequestsOf[t] : WF_vars(Serve(t, r)) /\ WF_vars(Unauthorized(t, r))

-----------------------------------------------------------------------------
(* Properties.                                                             *)

TokenTypes ==
    /\ next \in Nat \ {0} /\ revoked \subseteq Pairs /\ chain \in [Pairs -> Pairs]
    /\ store \in [Browsers -> {0} \cup Pairs] /\ mem \in [Tabs -> {0} \cup Pairs]
    /\ fly \in [Tabs -> [pc : {"none", "sent", "read", "answer", "refused"},
                         token : {0} \cup Pairs, new : {0} \cup Pairs]]
    /\ out \in [Tabs -> [pc : {"none", "sent", "done"}, token : {0} \cup Pairs]]
    /\ \A t \in Tabs : /\ fly[t].pc # "none" => fly[t].token # 0
                       /\ fly[t].pc = "answer" => fly[t].new # 0
                       /\ out[t].pc # "none" => out[t].token # 0
    /\ strays \subseteq [pc : {"sent", "read"}, token : Pairs]

\* The types of the variables.
TypeOK ==
    /\ TokenTypes
    /\ next <= MaxPairs + 1 /\ expired \subseteq Pairs
    /\ \A t \in Tabs : req[t] \in [RequestsOf[t] -> [pc : {"idle", "sent", "401", "waiting"},
                                                   access : {0} \cup Pairs, retried : BOOLEAN]]
    /\ reused \in BOOLEAN /\ spoilt \subseteq Causes /\ faults \in 0..MaxFaults

\* Nobody is signed out by the rotation: a token is never presented after it was
\* revoked, and a signed-in tab at rest holds a live one, however its requests meet
\* the expiry and whatever statement or answer fails (a tab whose refresh failed
\* signs itself out, api.ts:105, and holds none); and a sign-in never has two live
\* tokens, as rotation promises.  Left out are the three things
\* the rotation does not survive: two tabs that loaded one pair, a reload and a
\* sign-out in the middle of a refresh.
StaysSignedIn ==
    spoilt = {} =>
        /\ ~reused
        /\ \A t \in Tabs : mem[t] # 0 /\ fly[t].pc = "none" /\ out[t].pc = "none"
                            => mem[t] \notin revoked
        /\ \A i, j \in Pairs \ revoked : chain[i] = chain[j] => i = j

\* Every request gets its answer or its error; none waits for a refresh that is
\* over.
RequestsEnd ==
    \A t \in Tabs : \A r \in RequestsOf[t] :
        req[t][r].pc = "waiting" ~> req[t][r] = NoRequest
=============================================================================
