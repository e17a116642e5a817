---------------------------- MODULE SignInProofs ----------------------------
(***************************************************************************)
(* Nobody is signed out by the rotation of refresh tokens: for any number  *)
(* of tabs, browsers, requests, pairs and faults.                          *)
(***************************************************************************)
EXTENDS SignIn, TLAPS

\* A token is at hand in one tab only, and what localStorage holds is a pair of
\* one of the browser's tabs.
OneHolder ==
    /\ \A t, u \in Tabs : t # u /\ mem[t] = mem[u] => mem[t] = 0
    /\ \A b \in Browsers : store[b] # 0 => \E t \in Tabs : BrowserOf[t] = b /\ mem[t] = store[b]

\* A tab that has nothing under way holds a token that is live.
AtRest ==
    \A t \in Tabs : mem[t] # 0 /\ fly[t].pc = "none" /\ out[t].pc = "none" => mem[t] \notin revoked

\* A refresh carries the tab's own token, live until it is rotated; what the
\* rotation answered is a live token that is nowhere else.
Refreshing ==
    \A t \in Tabs : fly[t].pc # "none" =>
        /\ out[t].pc = "none" /\ fly[t].token = mem[t]
        /\ fly[t].pc \in {"sent", "read"} => mem[t] \notin revoked
        /\ fly[t].pc = "answer" =>
              /\ fly[t].new \notin revoked
              /\ \A u \in Tabs : mem[u] # fly[t].new
              /\ \A u \in Tabs \ {t} : fly[u].pc = "answer" => fly[u].new # fly[t].new
              /\ \A s \in strays : s.token # fly[t].new

SigningOut == \A t \in Tabs : out[t].pc # "none" => out[t].token = mem[t] /\ fly[t].pc = "none"

\* A refresh nobody listens to has the only copy of a live token.
Straying ==
    \A s \in strays :
        /\ s.token \notin revoked
        /\ \A t \in Tabs : mem[t] # s.token
        /\ \A r \in strays : r.token = s.token => r = s

OneLiveToken == \A i, j \in Pairs \ revoked : chain[i] = chain[j] => i = j

Good == /\ ~reused /\ OneHolder /\ AtRest /\ Refreshing /\ SigningOut
        /\ Straying /\ OneLiveToken

Inv == TokenTypes /\ (spoilt = {} => Good)

-----------------------------------------------------------------------------
LEMMA InitInv == Init => Inv
  BY DEF Init, Inv, TokenTypes, Good, OneHolder, AtRest, Refreshing, SigningOut, Straying,
         OneLiveToken, Pairs, Browsers, NoRefresh, NoLogout

\* What a new pair changes.
LEMMA NewPair ==
    ASSUME TokenTypes, NEW login \in Pairs \cup {next}, Inserted(login)
    PROVE  /\ next \in Nat \ {0} /\ next' = next + 1 /\ Pairs' = Pairs \cup {next}
           /\ next \notin Pairs /\ next # 0 /\ 0 \notin Pairs
           /\ chain' \in [Pairs' -> Pairs'] /\ chain'[next] = login
           /\ \A i \in Pairs : chain'[i] = chain[i] /\ chain[i] # next
  <1>1. /\ next \in Nat \ {0} /\ next' = next + 1 /\ Pairs' = Pairs \cup {next}
        /\ next \notin Pairs /\ next # 0 /\ 0 \notin Pairs
    BY DEF TokenTypes, Inserted, Pairs
  <1>2. 1..next = Pairs \cup {next}
    BY <1>1 DEF Pairs
  <1> QED BY <1>1, <1>2 DEF TokenTypes, Inserted


\* Whoever keeps the tokens to itself.
LEMMA Untouched ==
    ASSUME Inv, UNCHANGED <<tokens, page, fly, out, strays, reused>>, spoilt \subseteq spoilt'
    PROVE  Inv'
  <1>1. spoilt' = {} => spoilt = {}
    OBVIOUS
  <1>2. TokenTypes'
    BY DEF Inv, TokenTypes, Pairs, tokens, page
  <1>3. Good => Good'
    BY DEF Good, OneHolder, AtRest, Refreshing, SigningOut, Straying, OneLiveToken, Pairs,
           tokens, page
  <1> QED BY <1>1, <1>2, <1>3 DEF Inv

-----------------------------------------------------------------------------
(* The server.                                                             *)

LEMMA LoginInv == ASSUME Inv, NEW t \in Tabs, Login(t) PROVE Inv'
  <1>0. TokenTypes /\ Inserted(next) /\ next \in Pairs \cup {next}
    BY DEF Inv, Login
  <1>1. TokenTypes'
    BY <1>0, NewPair DEF TokenTypes, Login, Browsers
  <1>2. ASSUME Good PROVE Good'
    <2>0. fly[t].pc = "none" /\ out[t].pc = "none"
      BY <1>0, <1>2 DEF Good, Refreshing, SigningOut, TokenTypes, Login
    <2>1. OneHolder'
      <3>1. /\ mem \in [Tabs -> {0} \cup Pairs] /\ mem[t] = 0 /\ mem' = [mem EXCEPT ![t] = next]
            /\ store \in [Browsers -> {0} \cup Pairs] /\ next \notin Pairs /\ next # 0
            /\ store' = [store EXCEPT ![BrowserOf[t]] = next]
        BY <1>0, NewPair DEF TokenTypes, Login
      <3>2. ASSUME NEW b \in Browsers, store'[b] # 0
            PROVE  \E u \in Tabs : BrowserOf[u] = b /\ mem'[u] = store'[b]
        <4>1. CASE b = BrowserOf[t]
          BY <3>1, <4>1
        <4>2. CASE b # BrowserOf[t]
          <5>1. store'[b] = store[b]
            BY <3>1, <4>2
          <5>2. PICK u \in Tabs : BrowserOf[u] = b /\ mem[u] = store[b]
            BY <1>2, <3>2, <5>1 DEF Good, OneHolder
          <5> QED BY <3>1, <3>2, <5>1, <5>2
        <4> QED BY <4>1, <4>2
      <3>3. \A u, v \in Tabs : u # v /\ mem'[u] = mem'[v] => mem'[u] = 0
        BY <1>2, <3>1 DEF Good, OneHolder
      <3> QED BY <3>2, <3>3 DEF OneHolder
    <2>2. AtRest'
      BY <1>0, <1>2, NewPair DEF Good, AtRest, TokenTypes, Login
    <2>3. Refreshing'
      BY <1>0, <1>2, <2>0, NewPair DEF Good, Refreshing, TokenTypes, Login
    <2>4. SigningOut' /\ Straying'
      BY <1>0, <1>2, <2>0, NewPair DEF Good, SigningOut, Straying, TokenTypes, Login
    <2>5. OneLiveToken'
      BY <1>0, <1>2, NewPair DEF Good, OneLiveToken, TokenTypes, Login
    <2> QED BY <1>2, <2>1, <2>2, <2>3, <2>4, <2>5 DEF Good, Login
  <1> QED BY <1>1, <1>2 DEF Inv, Login

\* The handler finds the token live, so nothing is revoked.
LEMMA RefreshReadInv == ASSUME Inv, NEW t \in Tabs, RefreshRead(t) PROVE Inv'
  <1>1. TokenTypes'
    BY DEF Inv, TokenTypes, RefreshRead, Read, RevokeAll, Pairs, page
  <1>2. ASSUME Good PROVE Good'
    <2>1. fly[t].token = mem[t] /\ mem[t] \notin revoked
      BY <1>2 DEF Good, Refreshing, RefreshRead
    <2>2. /\ revoked' = revoked /\ reused' = reused
          /\ fly' = [fly EXCEPT ![t].pc = "read"]
      BY <2>1 DEF RefreshRead, Read
    <2>3. Refreshing'
      BY <1>2, <2>2 DEF Inv, TokenTypes, Good, Refreshing, RefreshRead, page
    <2>4. OneHolder' /\ AtRest' /\ SigningOut'
      BY <1>2, <2>2 DEF Inv, TokenTypes, Good, OneHolder, AtRest, SigningOut, RefreshRead, page
    <2>5. Straying' /\ OneLiveToken'
      BY <1>2, <2>2 DEF Good, Straying, OneLiveToken, RefreshRead, page, Pairs
    <2> QED BY <1>2, <2>2, <2>3, <2>4, <2>5 DEF Good
  <1> QED BY <1>1, <1>2 DEF Inv, RefreshRead

\* The successor of a live token takes its place.
LEMMA RotatedKeeps ==
    ASSUME TokenTypes, NEW token \in Pairs \ revoked, OneLiveToken, Rotated(token)
    PROVE  /\ OneLiveToken' /\ chain' \in [Pairs' -> Pairs'] /\ next' \in Nat \ {0}
           /\ Pairs' = Pairs \cup {next} /\ next \notin Pairs \cup {0}
           /\ revoked' = revoked \cup {token} /\ revoked' \subseteq Pairs'
  <1>1. chain[token] \in Pairs \cup {next} /\ Inserted(chain[token]) /\ revoked' = revoked \cup {token}
    BY DEF Rotated, TokenTypes
  <1>2. OneLiveToken'
    BY <1>1, NewPair DEF OneLiveToken, TokenTypes
  <1> QED BY <1>1, <1>2, NewPair DEF TokenTypes

\* The same without looking at revoked_at: the types only.
LEMMA RotatedTypes ==
    ASSUME TokenTypes, NEW token \in Pairs, Rotated(token)
    PROVE  /\ chain' \in [Pairs' -> Pairs'] /\ next' \in Nat \ {0}
           /\ Pairs' = Pairs \cup {next} /\ revoked' \subseteq Pairs' /\ next \notin {0}
  <1>1. chain[token] \in Pairs \cup {next} /\ Inserted(chain[token]) /\ revoked' = revoked \cup {token}
    BY DEF Rotated, TokenTypes
  <1> QED BY <1>1, NewPair DEF TokenTypes

LEMMA RotateInv == ASSUME Inv, NEW t \in Tabs, Rotate(t) PROVE Inv'
  <1>0. TokenTypes /\ fly[t].pc = "read" /\ fly[t].token \in Pairs
    BY DEF Inv, TokenTypes, Rotate
  <1>1. CASE /\ Rotated(fly[t].token)
             /\ \/ fly' = [fly EXCEPT ![t].pc = "answer", ![t].new = next]
                \/ fly' = [fly EXCEPT ![t].pc = "refused"]
    <2>0. /\ \A u \in Tabs \ {t} : fly'[u] = fly[u]
          /\ fly'[t].pc \in {"answer", "refused"} /\ fly'[t].token = fly[t].token
          /\ fly'[t].pc = "answer" => fly'[t].new = next
      BY <1>0, <1>1 DEF TokenTypes
    <2>1. TokenTypes'
      <3>1. /\ chain' \in [Pairs' -> Pairs'] /\ next' \in Nat \ {0} /\ Pairs' = Pairs \cup {next}
            /\ revoked' \subseteq Pairs' /\ next # 0
        BY <1>0, <1>1, RotatedTypes
      <3>2. fly' \in [Tabs -> [pc : {"none", "sent", "read", "answer", "refused"},
                             token : {0} \cup Pairs', new : {0} \cup Pairs']]
        <4> DEFINE R(ids) == [pc : {"none", "sent", "read", "answer", "refused"}, token : ids, new : ids]
        <4>1. fly \in [Tabs -> R({0} \cup Pairs)] /\ R({0} \cup Pairs) \subseteq R({0} \cup Pairs')
          BY <1>0, <3>1 DEF TokenTypes
        <4>2. next \in {0} \cup Pairs'
          BY <3>1
        <4>3. ASSUME NEW f \in R({0} \cup Pairs)
              PROVE  /\ [f EXCEPT !.pc = "refused"] \in R({0} \cup Pairs')
                     /\ [f EXCEPT !.pc = "answer", !.new = next] \in R({0} \cup Pairs')
          BY <4>1, <4>2, <4>3
        <4> HIDE DEF R
        <4>4. fly' \in [Tabs -> R({0} \cup Pairs')]
          BY <1>1, <4>1, <4>3
        <4> QED BY <4>4 DEF R
      <3>3. store' = store /\ mem' = mem /\ out' = out /\ strays' = strays
        BY DEF Rotate, page
      <3>4. \A u \in Tabs : /\ fly'[u].pc # "none" => fly'[u].token # 0
                            /\ fly'[u].pc = "answer" => fly'[u].new # 0
        BY <1>0, <2>0, <3>1 DEF TokenTypes
      <3>5. /\ store' \in [Browsers -> {0} \cup Pairs'] /\ mem' \in [Tabs -> {0} \cup Pairs']
            /\ out' \in [Tabs -> [pc : {"none", "sent", "done"}, token : {0} \cup Pairs']]
            /\ strays' \subseteq [pc : {"sent", "read"}, token : Pairs']
            /\ \A u \in Tabs : out'[u].pc # "none" => out'[u].token # 0
        BY <1>0, <3>1, <3>3 DEF TokenTypes
      <3> QED BY <3>1, <3>2, <3>4, <3>5 DEF TokenTypes
    <2>2. ASSUME Good PROVE Good'
      <3>1. fly[t].token = mem[t] /\ mem[t] \in Pairs \ revoked /\ out[t].pc = "none" /\ mem[t] # 0
        BY <1>0, <2>2 DEF Good, Refreshing, TokenTypes, Pairs
      <3>2. /\ OneLiveToken' /\ next \notin Pairs \cup {0} /\ revoked' = revoked \cup {mem[t]}
            /\ Pairs' = Pairs \cup {next}
        BY <1>0, <1>1, <2>2, <3>1, RotatedKeeps DEF Good
      <3>3. OneHolder' /\ AtRest' /\ SigningOut'
        <4>1. /\ \A u \in Tabs : fly'[u].pc = "none" <=> fly[u].pc = "none"
              /\ mem' = mem /\ store' = store /\ out' = out
          BY <1>0, <2>0 DEF Rotate, page
        <4>2. \A u \in Tabs \ {t} : mem[u] # mem[t]
          BY <2>2, <3>1 DEF Good, OneHolder
        <4>3. OneHolder'
          BY <2>2, <4>1 DEF Good, OneHolder
        <4>4. AtRest'
          BY <1>0, <2>2, <3>2, <4>1, <4>2 DEF Good, AtRest
        <4>5. SigningOut'
          BY <2>2, <4>1 DEF Good, SigningOut
        <4> QED BY <4>3, <4>4, <4>5
      <3>4. Straying'
        BY <1>0, <1>1, <2>2, <3>1, <3>2 DEF TokenTypes, Good, Straying, Rotate, page
      <3>5. next \notin revoked /\ (\A u \in Tabs : mem[u] # next /\ fly[u].new # next)
            /\ \A s \in strays : s.token # next
        BY <1>0, <3>2 DEF TokenTypes
      <3>6. ASSUME NEW u \in Tabs \ {t}, fly[u].pc # "none"
            PROVE  mem[u] # mem[t] /\ (fly[u].pc = "answer" => fly[u].new # mem[t])
        BY <1>0, <2>2, <3>1, <3>6 DEF Good, OneHolder, Refreshing, TokenTypes
      <3>7. Refreshing'
        <4>1. mem' = mem /\ out' = out /\ strays' = strays
          BY DEF Rotate, page
        <4>2. \A u \in Tabs \ {t} : fly[u].pc = "answer" => fly[u].new # next
          BY <3>5
        <4>3. ASSUME NEW u \in Tabs \ {t}, fly'[u].pc # "none"
              PROVE  /\ out'[u].pc = "none" /\ fly'[u].token = mem'[u]
                     /\ fly'[u].pc \in {"sent", "read"} => mem'[u] \notin revoked'
                     /\ fly'[u].pc = "answer" =>
                           /\ fly'[u].new \notin revoked'
                           /\ \A v \in Tabs : mem'[v] # fly'[u].new
                           /\ \A v \in Tabs \ {u} : fly'[v].pc = "answer" => fly'[v].new # fly'[u].new
                           /\ \A s \in strays' : s.token # fly'[u].new
          BY <2>0, <2>2, <3>2, <3>5, <3>6, <4>1, <4>3 DEF Good, Refreshing
        <4>4. /\ out'[t].pc = "none" /\ fly'[t].token = mem'[t] /\ fly'[t].pc \notin {"sent", "read"}
              /\ fly'[t].pc = "answer" =>
                    /\ fly'[t].new \notin revoked'
                    /\ \A v \in Tabs : mem'[v] # fly'[t].new
                    /\ \A v \in Tabs \ {t} : fly'[v].pc = "answer" => fly'[v].new # fly'[t].new
                    /\ \A s \in strays' : s.token # fly'[t].new
          BY <2>0, <3>1, <3>2, <3>5, <4>1
        <4> QED BY <4>3, <4>4 DEF Refreshing
      <3> QED BY <2>2, <3>2, <3>3, <3>4, <3>7 DEF Good, Rotate
    <2> QED BY <2>1, <2>2 DEF Inv, Rotate
  <1>2. CASE UNCHANGED tokens /\ fly' = [fly EXCEPT ![t].pc = "refused"]
    <2>1. TokenTypes'
      BY <1>0, <1>2 DEF TokenTypes, Rotate, page, tokens, Pairs
    <2>2. ASSUME Good PROVE Good'
      <3>1. OneHolder' /\ AtRest' /\ SigningOut' /\ Straying' /\ OneLiveToken'
        BY <1>0, <1>2, <2>2 DEF TokenTypes, Good, OneHolder, AtRest, SigningOut, Straying,
             OneLiveToken, Rotate, page, tokens, Pairs
      <3>2. Refreshing'
        BY <1>0, <1>2, <2>2 DEF TokenTypes, Good, Refreshing, Rotate, page, tokens
      <3> QED BY <2>2, <3>1, <3>2 DEF Good, Rotate
    <2> QED BY <2>1, <2>2 DEF Inv, Rotate
  <1> QED BY <1>1, <1>2 DEF Rotate

-----------------------------------------------------------------------------
(* Refreshes nobody listens to.                                            *)

LEMMA StrayReadInv == ASSUME Inv, NEW s \in strays, StrayRead(s) PROVE Inv'
  <1>0. TokenTypes /\ s \in [pc : {"sent", "read"}, token : Pairs]
    BY DEF Inv, TokenTypes
  <1>1. TokenTypes'
    BY <1>0 DEF TokenTypes, StrayRead, Read, RevokeAll, Pairs, page
  <1>2. ASSUME Good PROVE Good'
    <2>1. s.token \notin revoked
      BY <1>2 DEF Good, Straying
    <2>2. /\ revoked' = revoked /\ reused' = reused
          /\ strays' = (strays \ {s}) \cup {[s EXCEPT !.pc = "read"]}
      BY <2>1 DEF StrayRead, Read
    <2>3. ASSUME NEW r \in strays'
          PROVE  \/ r.token = s.token /\ r = [s EXCEPT !.pc = "read"]
                 \/ r \in strays /\ r.token # s.token
      <3> DEFINE s2 == [s EXCEPT !.pc = "read"]
      <3>1. s2.token = s.token
        BY <1>0
      <3>2. CASE r \in strays \ {s}
        BY <1>2, <3>2 DEF Good, Straying
      <3>3. r \in strays \ {s} \/ r = s2
        BY <2>2, <2>3
      <3> HIDE DEF s2
      <3>4. CASE r = s2
        <4>1. r.token = s.token
          BY <3>1, <3>4
        <4>2. r = [s EXCEPT !.pc = "read"]
          BY <3>4 DEF s2
        <4> QED BY <4>1, <4>2
      <3> QED BY <3>2, <3>3, <3>4
    <2>4. Straying'
      BY <1>0, <1>2, <2>1, <2>2, <2>3 DEF Good, Straying, StrayRead, page
    <2>5. Refreshing'
      BY <1>0, <1>2, <2>2, <2>3 DEF Good, Refreshing, StrayRead, page
    <2>6. OneHolder' /\ AtRest' /\ SigningOut' /\ OneLiveToken'
      BY <1>2, <2>2 DEF Good, OneHolder, AtRest, SigningOut, OneLiveToken, StrayRead, page, Pairs
    <2> QED BY <1>2, <2>2, <2>4, <2>5, <2>6 DEF Good
  <1> QED BY <1>1, <1>2 DEF Inv, StrayRead

LEMMA StrayRotateInv == ASSUME Inv, NEW s \in strays, StrayRotate(s) PROVE Inv'
  <1>0. TokenTypes /\ s.token \in Pairs /\ Rotated(s.token)
    BY DEF Inv, TokenTypes, StrayRotate
  <1>1. TokenTypes'
    BY <1>0, RotatedTypes DEF TokenTypes, StrayRotate, page
  <1>2. ASSUME Good PROVE Good'
    <2>1. s.token \in Pairs \ revoked
      BY <1>0, <1>2 DEF Good, Straying
    <2>2. OneLiveToken' /\ revoked' = revoked \cup {s.token} /\ strays' = strays \ {s}
      BY <1>0, <1>2, <2>1, RotatedKeeps DEF Good, StrayRotate
    <2>3. OneHolder' /\ AtRest' /\ SigningOut' /\ Straying'
      BY <1>2, <2>2 DEF Good, OneHolder, AtRest, SigningOut, Straying, StrayRotate, page
    <2>4. Refreshing'
      BY <1>2, <2>2 DEF Good, Refreshing, Straying, StrayRotate, page
    <2> QED BY <1>2, <2>2, <2>3, <2>4 DEF Good, StrayRotate
  <1> QED BY <1>1, <1>2 DEF Inv, StrayRotate

LEMMA StrayCancelInv == ASSUME Inv, NEW s \in strays, StrayCancel(s) PROVE Inv'
  <1>1. TokenTypes'
    BY DEF Inv, TokenTypes, StrayCancel, Pairs, tokens, page
  <1>2. ASSUME Good PROVE Good'
    BY <1>2 DEF Good, OneHolder, AtRest, Refreshing, SigningOut, Straying, OneLiveToken,
                StrayCancel, tokens, page, Pairs
  <1> QED BY <1>1, <1>2 DEF Inv, StrayCancel

-----------------------------------------------------------------------------
(* A tab.                                                                  *)

LEMMA StartInv ==
    ASSUME Inv, NEW t \in Tabs, NEW r \in RequestsOf[t], Start(t, r),
           UNCHANGED <<tokens, expired, out, reused, faults>>
    PROVE  Inv'
  <1>0. fly' = [fly EXCEPT ![t] = [pc |-> "sent", token |-> mem[t], new |-> 0]]
    BY DEF Start
  <1>1. TokenTypes'
    BY <1>0 DEF Inv, TokenTypes, Start, Pairs, tokens, page
  <1>2. spoilt' = {} => spoilt = {} /\ out[t].pc = "none"
    BY DEF Start, Spoil
  <1>3. ASSUME Good, out[t].pc = "none" PROVE Good'
    <2>1. mem[t] \notin revoked
      BY <1>3 DEF Good, AtRest, Start
    <2>2. Refreshing'
      BY <1>0, <1>3, <2>1 DEF Inv, TokenTypes, Good, Refreshing, Start, tokens, page
    <2>3. OneHolder' /\ AtRest' /\ SigningOut' /\ Straying' /\ OneLiveToken'
      BY <1>0, <1>3 DEF Inv, TokenTypes, Good, OneHolder, AtRest, SigningOut, Straying,
           OneLiveToken, Start, tokens, page, Pairs
    <2> QED BY <1>3, <2>2, <2>3 DEF Good
  <1> QED BY <1>1, <1>2, <1>3 DEF Inv

\* One tab's state moves and nobody asks the server.
LEMMA TabTypes ==
    ASSUME TokenTypes, UNCHANGED tokens, NEW t \in Tabs, NEW pair \in {0} \cup Pairs,
           mem' = [mem EXCEPT ![t] = pair], 
           store' = store \/ store' = [store EXCEPT ![BrowserOf[t]] = pair],
           \/ fly' = fly
           \/ fly' = [fly EXCEPT ![t] = NoRefresh],
           \/ out' = out
           \/ out' = [out EXCEPT ![t] = NoLogout]
           \/ mem[t] # 0 /\ out' = [out EXCEPT ![t] = [pc |-> "sent", token |-> mem[t]]],
           strays' = strays \/ strays' = strays \cup Orphan(t)
    PROVE  TokenTypes'
  <1>1. Pairs' = Pairs /\ 0 \notin Pairs
    BY DEF tokens, Pairs
  <1>2. store' \in [Browsers -> {0} \cup Pairs] /\ mem' \in [Tabs -> {0} \cup Pairs]
    BY DEF TokenTypes, Browsers
  <1>3. /\ fly' \in [Tabs -> [pc : {"none", "sent", "read", "answer", "refused"},
                            token : {0} \cup Pairs, new : {0} \cup Pairs]]
        /\ \A u \in Tabs : /\ fly'[u].pc # "none" => fly'[u].token # 0
                           /\ fly'[u].pc = "answer" => fly'[u].new # 0
    <2>1. NoRefresh.pc = "none"
          /\ NoRefresh \in [pc : {"none", "sent", "read", "answer", "refused"},
                            token : {0} \cup Pairs, new : {0} \cup Pairs]
      BY DEF NoRefresh
    <2>2. CASE fly' = fly
      BY <2>2 DEF TokenTypes
    <2>3. CASE fly' = [fly EXCEPT ![t] = NoRefresh]
      BY <2>1, <2>3 DEF TokenTypes
    <2> QED BY <2>2, <2>3
  <1>4. /\ out' \in [Tabs -> [pc : {"none", "sent", "done"}, token : {0} \cup Pairs]]
        /\ \A u \in Tabs : out'[u].pc # "none" => out'[u].token # 0
    <2>1. CASE out' = out
      BY <2>1 DEF TokenTypes
    <2>3. CASE out' = [out EXCEPT ![t] = NoLogout]
      <3>1. NoLogout \in [pc : {"none", "sent", "done"}, token : {0} \cup Pairs] /\ NoLogout.pc = "none"
        BY DEF NoLogout
      <3> QED BY <2>3, <3>1 DEF TokenTypes
    <2>2. CASE mem[t] # 0 /\ out' = [out EXCEPT ![t] = [pc |-> "sent", token |-> mem[t]]]
      <3>1. mem[t] \in {0} \cup Pairs
        BY DEF TokenTypes
      <3>2. [pc |-> "sent", token |-> mem[t]] \in [pc : {"none", "sent", "done"}, token : {0} \cup Pairs]
        BY <3>1
      <3> QED BY <2>2, <3>2 DEF TokenTypes
    <2> QED BY <2>1, <2>2, <2>3
  <1>5. strays' \subseteq [pc : {"sent", "read"}, token : Pairs]
    <2>1. ASSUME fly[t].pc \in {"sent", "read"}
          PROVE  [pc |-> fly[t].pc, token |-> fly[t].token] \in [pc : {"sent", "read"}, token : Pairs]
      BY <2>1 DEF TokenTypes
    <2> QED BY <2>1 DEF TokenTypes, Orphan
  <1> QED BY <1>1, <1>2, <1>3, <1>4, <1>5 DEF TokenTypes, tokens

\* A tab that forgets its pair, and what it had under way.
LEMMA Forgotten ==
    ASSUME Inv, NEW t \in Tabs, Signed(t, 0), UNCHANGED <<tokens, reused, spoilt>>,
           strays' = strays \/ strays' = strays \cup Orphan(t),
           \/ fly' = [fly EXCEPT ![t] = NoRefresh]
           \/ fly' = fly /\ (Good => fly[t].pc = "none"),
           \/ out' = [out EXCEPT ![t] = NoLogout]
           \/ out' = out /\ (Good => out[t].pc = "none")
    PROVE  Inv'
  <1>1. TokenTypes'
    BY TabTypes DEF Inv, Signed
  <1>2. ASSUME Good PROVE Good'
    <2>1. \A s \in strays' \ strays : mem[t] # 0 /\ s.token = mem[t] /\ s.token \notin revoked
                                      /\ \A r \in strays' \ strays : r = s
      BY <1>2 DEF Good, Refreshing, Orphan, Inv, TokenTypes
    <2>2. mem' = [mem EXCEPT ![t] = 0] /\ \A u \in Tabs : mem'[u] # 0 => u # t /\ mem'[u] = mem[u]
      BY DEF Inv, TokenTypes, Signed
    <2>3. OneHolder'
      <3>1. \A b \in Browsers : store'[b] # 0 => b # BrowserOf[t] /\ store'[b] = store[b]
        BY DEF Inv, TokenTypes, Signed
      <3>2. ASSUME NEW b \in Browsers, store'[b] # 0
            PROVE  \E u \in Tabs : BrowserOf[u] = b /\ mem'[u] = store'[b]
        <4>1. PICK u \in Tabs : BrowserOf[u] = b /\ mem[u] = store[b]
          BY <1>2, <3>1, <3>2 DEF Good, OneHolder
        <4>2. mem'[u] = mem[u]
          BY <2>2, <3>1, <3>2, <4>1 DEF Inv, TokenTypes
        <4> QED BY <3>1, <3>2, <4>1, <4>2
      <3>3. \A u, v \in Tabs : u # v /\ mem'[u] = mem'[v] => mem'[u] = 0
        BY <1>2, <2>2 DEF Good, OneHolder, Inv, TokenTypes
      <3> QED BY <3>2, <3>3 DEF OneHolder
    <2>0. /\ fly'[t].pc = "none" /\ out'[t].pc = "none"
          /\ \A u \in Tabs \ {t} : fly'[u] = fly[u] /\ out'[u] = out[u]
      BY <1>2 DEF Inv, TokenTypes, NoRefresh, NoLogout
    <2>4. AtRest' /\ SigningOut' /\ OneLiveToken'
      BY <1>2, <2>0, <2>2 DEF Inv, TokenTypes, Good, AtRest, SigningOut, OneLiveToken, tokens, Pairs
    <2>5. \A s \in strays : s.token \notin revoked /\ s.token \in Pairs /\ s.token # 0
                            /\ \A u \in Tabs : mem[u] # s.token
      BY <1>2 DEF Inv, TokenTypes, Good, Straying, Pairs
    <2>6. Straying'
      <3>1. ASSUME NEW s \in strays', NEW u \in Tabs PROVE mem'[u] # s.token /\ s.token \notin revoked
        BY <1>2, <2>1, <2>2, <2>5 DEF Good, OneHolder, Inv, TokenTypes
      <3>2. ASSUME NEW s \in strays', NEW r \in strays', r.token = s.token PROVE r = s
        BY <1>2, <2>1, <2>5, <3>2 DEF Good, Straying
      <3> QED BY <3>1, <3>2 DEF Straying, tokens
    <2>7. ASSUME NEW u \in Tabs, fly'[u].pc # "none"
          PROVE  u # t /\ fly'[u] = fly[u] /\ mem'[u] = mem[u] /\ out'[u] = out[u]
      BY <2>0, <2>2, <2>7 DEF Inv, TokenTypes, Signed
    <2>8. ASSUME NEW u \in Tabs, fly'[u].pc = "answer"
          PROVE  /\ \A v \in Tabs : mem'[v] # fly'[u].new
                 /\ \A v \in Tabs \ {u} : fly'[v].pc = "answer" => fly'[v].new # fly'[u].new
                 /\ \A s \in strays' : s.token # fly'[u].new
      <3>1. u # t /\ fly'[u] = fly[u] /\ fly[u].new # 0
        BY <2>7, <2>8 DEF Inv, TokenTypes
      <3> QED BY <1>2, <2>1, <2>2, <2>7, <2>8, <3>1 DEF Good, Refreshing
    <2>9. Refreshing'
      BY <1>2, <2>7, <2>8 DEF Good, Refreshing, tokens
    <2> QED BY <1>2, <2>3, <2>4, <2>6, <2>9 DEF Good
  <1> QED BY <1>1, <1>2 DEF Inv

LEMMA GiveUpInv ==
    ASSUME Inv, NEW t \in Tabs, NEW r \in RequestsOf[t], GiveUp(t, r),
           UNCHANGED <<tokens, expired, out, reused, faults>>
    PROVE  Inv'
  <1>1. Good => out[t].pc = "none"
    BY DEF Good, SigningOut, Inv, TokenTypes, GiveUp
  <1> QED BY <1>1, Forgotten DEF GiveUp

LEMMA UnauthorizedInv ==
    ASSUME Inv, NEW t \in Tabs, NEW r \in RequestsOf[t], Unauthorized(t, r) PROVE Inv'
  <1>1. CASE Start(t, r)
    BY <1>1, StartInv DEF Unauthorized
  <1>2. CASE GiveUp(t, r)
    BY <1>2, GiveUpInv DEF Unauthorized
  <1>3. CASE UNCHANGED <<page, fly, strays, spoilt>>
    BY <1>3, Untouched DEF Unauthorized
  <1> QED BY <1>1, <1>2, <1>3 DEF Unauthorized, Join

LEMMA RefreshedInv == ASSUME Inv, NEW t \in Tabs, Refreshed(t) PROVE Inv'
  <1>0. /\ TokenTypes /\ fly[t].pc = "answer" /\ fly[t].new \in Pairs
        /\ fly' = [fly EXCEPT ![t] = NoRefresh] /\ mem' = [mem EXCEPT ![t] = fly[t].new]
        /\ store' = [store EXCEPT ![BrowserOf[t]] = fly[t].new]
        /\ tokens' = tokens /\ out' = out /\ strays' = strays /\ reused' = reused /\ spoilt' = spoilt
    BY DEF Inv, TokenTypes, Refreshed, Signed, tokens
  <1>1. TokenTypes'
    BY <1>0 DEF TokenTypes, NoRefresh, Pairs, tokens, Browsers
  <1>2. ASSUME Good PROVE Good'
    <2>1. /\ out[t].pc = "none" /\ fly[t].new \notin revoked /\ fly[t].new # 0
          /\ \A u \in Tabs : mem[u] # fly[t].new
          /\ \A u \in Tabs \ {t} : fly[u].pc = "answer" => fly[u].new # fly[t].new
          /\ \A s \in strays : s.token # fly[t].new
      BY <1>0, <1>2 DEF Good, Refreshing, TokenTypes
    <2>2. /\ mem'[t] = fly[t].new /\ fly'[t].pc = "none"
          /\ \A u \in Tabs \ {t} : mem'[u] = mem[u] /\ fly'[u] = fly[u]
      BY <1>0 DEF TokenTypes, NoRefresh
    <2>3. ASSUME NEW b \in Browsers, store'[b] # 0
          PROVE  \E u \in Tabs : BrowserOf[u] = b /\ mem'[u] = store'[b]
      <3>1. CASE b = BrowserOf[t]
        BY <1>0, <2>2, <3>1 DEF TokenTypes
      <3>2. CASE b # BrowserOf[t]
        <4>1. store'[b] = store[b]
          BY <1>0, <3>2 DEF TokenTypes
        <4>2. PICK u \in Tabs : BrowserOf[u] = b /\ mem[u] = store[b]
          BY <1>2, <2>3, <4>1 DEF Good, OneHolder
        <4> QED BY <2>2, <3>2, <4>1, <4>2
      <3> QED BY <3>1, <3>2
    <2>4. OneHolder'
      BY <1>2, <2>1, <2>2, <2>3 DEF Good, OneHolder
    <2>5. AtRest' /\ SigningOut' /\ OneLiveToken'
      BY <1>0, <1>2, <2>1, <2>2 DEF Good, AtRest, SigningOut, OneLiveToken, tokens, Pairs
    <2>6. Straying'
      BY <1>0, <1>2, <2>1, <2>2 DEF Good, Straying, tokens
    <2>7. ASSUME NEW u \in Tabs, fly'[u].pc = "answer"
          PROVE  /\ fly'[u].new \notin revoked'
                 /\ \A v \in Tabs : mem'[v] # fly'[u].new
                 /\ \A v \in Tabs \ {u} : fly'[v].pc = "answer" => fly'[v].new # fly'[u].new
                 /\ \A s \in strays' : s.token # fly'[u].new
      BY <1>0, <1>2, <2>1, <2>2, <2>7 DEF Good, Refreshing, tokens
    <2>8. Refreshing'
      BY <1>0, <1>2, <2>2, <2>7 DEF Good, Refreshing, tokens
    <2> QED BY <1>0, <1>2, <2>4, <2>5, <2>6, <2>8 DEF Good
  <1> QED BY <1>0, <1>1, <1>2 DEF Inv

LEMMA RefreshFailedInv == ASSUME Inv, NEW t \in Tabs, RefreshFailed(t) PROVE Inv'
  <1>1. Good => out[t].pc = "none"
    BY DEF Good, Refreshing, RefreshFailed
  <1>2. /\ strays' = strays \/ strays' = strays \cup Orphan(t)
        /\ Signed(t, 0) /\ UNCHANGED <<tokens, reused, spoilt, out>>
        /\ fly' = [fly EXCEPT ![t] = NoRefresh]
    BY DEF RefreshFailed
  <1> HIDE DEF Good
  <1> QED BY <1>1, <1>2, Forgotten

LEMMA LogoutSendInv == ASSUME Inv, NEW t \in Tabs, LogoutSend(t) PROVE Inv'
  <1>0. out' = [out EXCEPT ![t] = [pc |-> "sent", token |-> mem[t]]]
    BY DEF LogoutSend
  <1>1. TokenTypes'
    <2>1. mem[t] \in {0} \cup Pairs /\ mem' = [mem EXCEPT ![t] = mem[t]] /\ mem[t] # 0
      BY DEF Inv, TokenTypes, LogoutSend, page
    <2> QED BY <1>0, <2>1, TabTypes DEF Inv, LogoutSend, page
  <1>2. spoilt' = {} => spoilt = {} /\ fly[t].pc = "none"
    BY DEF LogoutSend, Spoil
  <1>3. ASSUME Good, fly[t].pc = "none" PROVE Good'
    <2>1. /\ out[t].pc = "none" /\ UNCHANGED <<tokens, page, fly, strays, reused>>
          /\ \A u \in Tabs : out'[u] = IF u = t THEN [pc |-> "sent", token |-> mem[t]] ELSE out[u]
      BY <1>0 DEF LogoutSend, Inv, TokenTypes
    <2>2. ~reused' /\ OneHolder' /\ Straying' /\ OneLiveToken'
      BY <1>3, <2>1 DEF Good, OneHolder, Straying, OneLiveToken, tokens, page, Pairs
    <2>3. AtRest'
      BY <1>3, <2>1 DEF Good, AtRest, tokens, page
    <2>4. Refreshing'
      BY <1>3, <2>1 DEF Good, Refreshing, tokens, page
    <2>5. SigningOut'
      BY <1>3, <2>1 DEF Good, SigningOut, page
    <2> QED BY <2>2, <2>3, <2>4, <2>5 DEF Good
  <1> QED BY <1>1, <1>2, <1>3 DEF Inv

LEMMA LogoutServeInv == ASSUME Inv, NEW t \in Tabs, LogoutServe(t) PROVE Inv'
  <1>0. /\ TokenTypes /\ out[t].pc = "sent" /\ out' = [out EXCEPT ![t].pc = "done"]
        /\ revoked' = revoked \cup {out[t].token} \/ revoked' = revoked
        /\ UNCHANGED <<next, chain, page, fly, strays, reused, spoilt>>
    BY DEF Inv, LogoutServe
  <1>1. TokenTypes'
    BY <1>0 DEF TokenTypes, Pairs, page
  <1>2. ASSUME Good PROVE Good'
    <2>1. out[t].token = mem[t] /\ mem[t] # 0 /\ fly[t].pc = "none"
      BY <1>0, <1>2 DEF Good, SigningOut, TokenTypes
    <2>2. \A u \in Tabs \ {t} : mem[u] # mem[t] /\ (fly[u].pc = "answer" => fly[u].new # mem[t])
      BY <1>2, <2>1 DEF Good, OneHolder, Refreshing
    <2>3. \A s \in strays : s.token # mem[t]
      BY <1>2 DEF Good, Straying
    <2>4. /\ out'[t].pc = "done" /\ out'[t].token = out[t].token
          /\ \A u \in Tabs \ {t} : out'[u] = out[u]
      BY <1>0 DEF TokenTypes
    <2>5. OneHolder' /\ AtRest' /\ SigningOut'
      BY <1>0, <1>2, <2>1, <2>2, <2>4 DEF Good, OneHolder, AtRest, SigningOut, page
    <2>6. Straying' /\ OneLiveToken'
      BY <1>0, <1>2, <2>1, <2>3 DEF Good, Straying, OneLiveToken, page, Pairs
    <2>7. Refreshing'
      BY <1>0, <1>2, <2>1, <2>2, <2>4 DEF Good, Refreshing, page
    <2> QED BY <1>0, <1>2, <2>5, <2>6, <2>7 DEF Good
  <1> QED BY <1>0, <1>1, <1>2 DEF Inv

LEMMA LogoutDoneInv == ASSUME Inv, NEW t \in Tabs, LogoutDone(t) PROVE Inv'
  <1>1. Good => fly[t].pc = "none"
    BY DEF Good, SigningOut, LogoutDone
  <1> QED BY <1>1, Forgotten DEF LogoutDone

LEMMA ReloadInv == ASSUME Inv, NEW t \in Tabs, Reload(t) PROVE Inv'
  <1>0. /\ TokenTypes /\ store[BrowserOf[t]] \in {0} \cup Pairs /\ BrowserOf[t] \in Browsers
        /\ mem' = [mem EXCEPT ![t] = store[BrowserOf[t]]]
        /\ strays' = strays \cup Orphan(t)
        /\ fly' = [fly EXCEPT ![t] = NoRefresh] /\ out' = [out EXCEPT ![t] = NoLogout]
        /\ UNCHANGED <<tokens, store, reused>>
    BY DEF Inv, TokenTypes, Reload, Browsers
  <1>1. TokenTypes'
    BY <1>0, TabTypes
  <1>2. spoilt' = {} => /\ spoilt = {} /\ fly[t].pc = "none" /\ out[t].pc = "none"
                        /\ \A u \in Tabs \ {t} : store[BrowserOf[t]] # 0 => mem[u] # store[BrowserOf[t]]
    BY DEF Reload
  <1>3. ASSUME Good, fly[t].pc = "none", out[t].pc = "none",
               \A u \in Tabs \ {t} : store[BrowserOf[t]] # 0 => mem[u] # store[BrowserOf[t]]
        PROVE  Good'
    <2>1. strays' = strays
      BY <1>0, <1>3 DEF Orphan
    <2>2. mem'[t] = store[BrowserOf[t]] /\ (mem'[t] # 0 => mem'[t] = mem[t])
      BY <1>0, <1>3 DEF TokenTypes, Good, OneHolder
    <2>3. \A u \in Tabs \ {t} : mem'[u] = mem[u] /\ fly'[u] = fly[u] /\ out'[u] = out[u]
      BY <1>0 DEF TokenTypes
    <2>4. fly'[t].pc = "none" /\ out'[t].pc = "none"
      BY <1>0 DEF TokenTypes, NoRefresh, NoLogout
    <2>5. ASSUME NEW b \in Browsers, store'[b] # 0
          PROVE  \E u \in Tabs : BrowserOf[u] = b /\ mem'[u] = store'[b]
      <3>1. CASE b = BrowserOf[t]
        BY <1>0, <2>2, <3>1
      <3>2. CASE b # BrowserOf[t]
        <4>1. PICK u \in Tabs : BrowserOf[u] = b /\ mem[u] = store[b]
          BY <1>0, <1>3, <2>5 DEF Good, OneHolder
        <4> QED BY <1>0, <2>3, <3>2, <4>1
      <3> QED BY <3>1, <3>2
    <2>6. OneHolder'
      BY <1>3, <2>2, <2>3, <2>5 DEF Good, OneHolder
    <2>7. AtRest' /\ SigningOut' /\ OneLiveToken'
      BY <1>0, <1>3, <2>2, <2>3, <2>4 DEF Good, AtRest, SigningOut, OneLiveToken, tokens, Pairs
    <2>8. Straying'
      BY <1>0, <1>3, <2>1, <2>2, <2>3 DEF Good, Straying, tokens, TokenTypes, Pairs
    <2>9. ASSUME NEW u \in Tabs, fly'[u].pc # "none"
          PROVE  u # t /\ \A v \in Tabs : fly[u].pc = "answer" => mem'[v] # fly[u].new
      <3>1. fly[u].pc = "answer" => fly[u].new # 0
        BY <1>0 DEF TokenTypes
      <3> QED BY <1>3, <2>2, <2>3, <2>4, <2>9, <3>1 DEF Good, Refreshing
    <2>10. Refreshing'
      BY <1>0, <1>3, <2>1, <2>3, <2>9 DEF Good, Refreshing, tokens
    <2> QED BY <1>0, <1>3, <2>6, <2>7, <2>8, <2>10 DEF Good
  <1> QED BY <1>1, <1>2, <1>3 DEF Inv

-----------------------------------------------------------------------------
LEMMA NextInv == Inv /\ [Next]_vars => Inv'
  <1> SUFFICES ASSUME Inv, [Next]_vars PROVE Inv'
    OBVIOUS
  <1>1. ASSUME NEW t \in Tabs,
               Login(t) \/ LogoutSend(t) \/ Reload(t) \/ Server(t) \/ Tab(t)
        PROVE  Inv'
    BY <1>1, LoginInv, LogoutSendInv, ReloadInv, RefreshReadInv, RotateInv, LogoutServeInv,
       RefreshedInv, RefreshFailedInv, LogoutDoneInv DEF Server, Tab
  <1>2. ASSUME NEW t \in Tabs, NEW r \in RequestsOf[t],
               Send(t, r) \/ Serve(t, r) \/ Unauthorized(t, r)
        PROVE  Inv'
    <2>1. CASE Send(t, r)
      BY <2>1, Untouched DEF Send
    <2>2. CASE Serve(t, r)
      BY <2>2, Untouched DEF Serve
    <2> QED BY <1>2, <2>1, <2>2, UnauthorizedInv
  <1>3. ASSUME NEW s \in strays, StrayRead(s) \/ StrayRotate(s) \/ StrayCancel(s) PROVE Inv'
    BY <1>3, StrayReadInv, StrayRotateInv, StrayCancelInv
  <1>4. CASE Expire
    BY <1>4, Untouched DEF Expire
  <1>5. CASE UNCHANGED vars
    BY <1>5, Untouched DEF vars, tokens, page
  <1> QED BY <1>1, <1>2, <1>3, <1>4, <1>5 DEF Next

\* However its requests meet the expiry of their tokens, and whatever statement
\* or answer fails, a user is not signed out by the rotation and a sign-in never
\* has two live tokens (auth.Manager, lib/api.ts).
THEOREM NobodySignedOut == Spec => []StaysSignedIn
  <1>1. Inv => StaysSignedIn
    BY DEF Inv, Good, AtRest, OneLiveToken, StaysSignedIn
  <1> QED BY <1>1, InitInv, NextInv, PTL DEF Spec
=============================================================================
