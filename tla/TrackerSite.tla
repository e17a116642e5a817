---------------------------- MODULE TrackerSite -----------------------------
(***************************************************************************)
(* What the tracker plugins make of a site's answers, plugin by plugin     *)
(* (internal/plugins/trackers): the result of a login or a probe of the    *)
(* session, the change token read from a topic page, and the payload that  *)
(* a download ends with.                                                   *)
(***************************************************************************)
EXTENDS Naturals, FiniteSets

Private == {"tapochek", "toloka", "anidub"}     \* log in on a jar of their own
Stored  == {"rutracker", "lostfilm"}            \* keep a session cookie in the row
WithCredentials == Private \cup Stored \cup {"kinozal"}
Kinds == WithCredentials \cup {"nnmclub", "rutor", "anilibria", "aniliberty", "newznab",
                               "torznab", "generictorrentfile", "genericmagnet"}

----------------------------------------------------------------------------
(* Login: the error, and the shared jar afterwards: kept, signed in anew,  *)
(* or a guest's.  right: the password is the account's; live: the jar that *)
(* is posted on is signed in already.                                      *)

Result(err, jar) == [err |-> err, jar |-> jar]

\* The page of a jar that is signed in carries the marker whatever was posted.
RuTrackerLogin(right, live) ==
    {Result("captcha", "kept")}
        \cup IF right THEN {Result("ok", "new")}
             ELSE {Result("error", "kept")} \cup IF live THEN {Result("ok", "kept")} ELSE {}

\* Succeeds unless the refusal is recognised in the undecoded page.
KinozalLogin(right) ==
    IF right THEN {Result("ok", "new")} ELSE {Result("error", "kept"), Result("ok", "kept")}

\* The jar is published only with the user id cookie in it.
TapochekLogin(right) == IF right THEN {Result("ok", "new")} ELSE {Result("error", "kept")}

TolokaLogin(right) == IF right THEN {Result("ok", "new")} ELSE {Result("error", "kept")}

\* A refusal nobody knows the words of publishes a guest's jar.
AniDubLogin(right) ==
    IF right THEN {Result("ok", "new")} ELSE {Result("error", "kept"), Result("ok", "guest")}

\* LostFilm never posts a password.
LostFilmLogin == {Result("expired", "kept")}

Login(k, right, live) ==
    CASE k = "rutracker" -> RuTrackerLogin(right, live)
      [] k = "kinozal"   -> KinozalLogin(right)
      [] k = "tapochek"  -> TapochekLogin(right)
      [] k = "toloka"    -> TolokaLogin(right)
      [] k = "anidub"    -> AniDubLogin(right)
      [] k = "lostfilm"  -> LostFilmLogin

\* Asks whether the jar is signed in, not as whom.
Verify(k, live) ==
    {IF live THEN "yes" ELSE "no"} \cup IF k = "anidub" THEN {"unsupported"} ELSE {}

----------------------------------------------------------------------------
(* Check: the change token of a topic page, {} when the page has none.     *)
(* page: [member, shown, val]: asked for with a signed-in jar, the cells   *)
(* the page shows, and what they say.                                      *)

Cells == {"hash", "id", "name", "size", "registered", "seeds"}

Read(page, cells) == {<<c, page.val[c]>> : c \in cells \cap page.shown}

\* The first magnet of the page; guests see it.
RuTrackerToken(page) == Read(page, {"hash"})
NnmClubToken(page)   == Read(page, {"hash"})
RutorToken(page)     == Read(page, {"hash"})

\* The hash is on a page for members.
KinozalToken(page) == IF page.member THEN Read(page, {"hash"}) ELSE {}

\* Mutant: cells that are missing are left out of the fingerprint.
TapochekTolerant(page) ==
    IF page.member /\ "id" \in page.shown THEN Read(page, {"id", "name", "size", "registered"}) ELSE {}

\* All four cells or nothing: a lost cell must not look like a new release.
TapochekToken(page) ==
    LET cells == {"id", "name", "size", "registered"} IN
    IF page.member /\ cells \subseteq page.shown THEN Read(page, cells) ELSE {}

\* Name and size may be missing.
TolokaToken(page) ==
    IF page.member /\ {"id", "registered"} \subseteq page.shown
    THEN Read(page, {"id", "name", "size", "registered"}) ELSE {}

AniDubToken(page) == Read(page, {"id", "name", "size"})

\* The highest torrent id of the title.
AniLibriaToken(page) == Read(page, {"id"})

\* The hash of the chosen variant's newest torrent.
AniLibertyToken(page) == Read(page, {"hash"})

\* The first item of the feed: its guid, or its infohash if it has one.
NewznabToken(page) == Read(page, {"id"})
TorznabToken(page) == IF "hash" \in page.shown THEN Read(page, {"hash"}) ELSE Read(page, {"id"})

\* The hash of whatever bytes the link answers; a magnet link is its own token.
TorrentFileToken(page) == Read(page, {"hash"})
ErrorPageToken == {<<"hash", 0>>}
MagnetToken == {<<"hash", 0>>}

\* The plugins that see no registration date and no infohash, and what they see.
GoById == {"anidub", "anilibria", "newznab"}
Seen(k) == IF k = "anidub" THEN {"id", "name", "size"} ELSE {"id"}

Token(k, page) ==
    CASE k = "rutracker"          -> RuTrackerToken(page)
      [] k = "kinozal"            -> KinozalToken(page)
      [] k = "tapochek"           -> TapochekToken(page)
      [] k = "toloka"             -> TolokaToken(page)
      [] k = "anidub"             -> AniDubToken(page)
      [] k = "nnmclub"            -> NnmClubToken(page)
      [] k = "rutor"              -> RutorToken(page)
      [] k = "anilibria"          -> AniLibriaToken(page)
      [] k = "aniliberty"         -> AniLibertyToken(page)
      [] k = "newznab"            -> NewznabToken(page)
      [] k = "torznab"            -> TorznabToken(page)
      [] k = "generictorrentfile" -> TorrentFileToken(page)
      [] k = "genericmagnet"      -> MagnetToken

----------------------------------------------------------------------------
(* Download: what is handed over.  A payload is [is, rel]: a torrent file  *)
(* or a magnet link of a release, or a web page taken for a torrent.       *)

Payload(is, rel) == [is |-> is, rel |-> rel]
Nothing == Payload("nothing", 0)

\* Which plugins read the topic page again, and which end with its magnet.
ReadsTopicPage(k) == k \notin {"kinozal", "aniliberty", "generictorrentfile", "genericmagnet"}

\* A torrent needs an account; otherwise, and when the file is none, the
\* magnet of the page.
RuTrackerPayload(rel, shown, file) ==
    IF file.is = "torrent" THEN file
    ELSE IF "hash" \in shown THEN Payload("magnet", rel) ELSE Nothing

NnmClubPayload(rel, shown) == IF "hash" \in shown THEN Payload("magnet", rel) ELSE Nothing

\* Mutant: whatever torrent a download host serves.
RutorTrustsHost(rel, shown, file) ==
    IF "hash" \notin shown THEN Nothing
    ELSE IF file.is = "torrent" THEN file ELSE Payload("magnet", rel)

\* A file only if it is the torrent of the page's magnet.
RutorPayload(rel, shown, file) ==
    IF "hash" \notin shown THEN Nothing
    ELSE IF file = Payload("torrent", rel) THEN file ELSE Payload("magnet", rel)

TapochekPayload(shown, file) ==
    IF "id" \in shown /\ file.is = "torrent" THEN file ELSE Nothing

TolokaPayload(shown, file) ==
    IF "id" \in shown /\ file.is = "torrent" THEN file ELSE Nothing

\* These hand over whatever the link answers.
AniDubPayload(shown, file) == IF "id" \in shown THEN file ELSE Nothing
KinozalPayload(file) == file

AniLibriaPayload(shown, file) == IF "id" \in shown THEN file ELSE Nothing
NewznabPayload(file) == file
TorznabPayload(file) == file
TorrentFilePayload(file) == file

Unchecked == {"anidub", "kinozal", "anilibria", "newznab", "torznab", "generictorrentfile"}

\* found: the release the check saw; rel: the one of the page read since.
Handed(k, found, rel, shown, file) ==
    CASE k = "rutracker"          -> RuTrackerPayload(rel, shown, file)
      [] k = "nnmclub"            -> NnmClubPayload(rel, shown)
      [] k = "rutor"              -> RutorPayload(rel, shown, file)
      [] k = "tapochek"           -> TapochekPayload(shown, file)
      [] k = "toloka"             -> TolokaPayload(shown, file)
      [] k = "anidub"             -> AniDubPayload(shown, file)
      [] k = "kinozal"            -> KinozalPayload(file)
      [] k = "anilibria"          -> AniLibriaPayload(shown, file)
      [] k = "newznab"            -> NewznabPayload(file)
      [] k = "torznab"            -> TorznabPayload(file)
      [] k = "generictorrentfile" -> TorrentFilePayload(file)
      [] k \in {"aniliberty", "genericmagnet"} -> Payload("magnet", found)
=============================================================================
