----------------------------- MODULE MCSessions -----------------------------
EXTENDS Sessions

\* The second release replaces the torrent of the first: only its date moves.
MCContent == <<[id |-> 1, name |-> 1, size |-> 1, registered |-> 1],
               [id |-> 1, name |-> 1, size |-> 1, registered |-> 2],
               [id |-> 2, name |-> 1, size |-> 2, registered |-> 3]>>

Row(u, p, s) == [id |-> 1, user |-> u, pass |-> p, sess |-> s, expired |-> FALSE]
Case(k, r, j, on, ws) == [kind |-> k, row |-> r, jar |-> j, on |-> on, active |-> ws]

\* Sessions under edits, deadlines and dead sessions; captcha logins; pages
\* that change under a session that may die.
Two == {"w1", "w2"}
MCScenarios ==
    {Case("tapochek", Row("a", "a", 0), 0, {"deadline", "kill", "update", "test"}, Two),
     Case("toloka", Row("a", "b", 0), 1, {"call", "deadline", "update", "forget", "warm"}, Two),
     Case("anidub", Row("a", "a", 0), 1, {"create", "delete", "kill", "restart"}, Two),
     Case("kinozal", Row("a", "a", 0), 1, {"update", "rename", "deadline"}, Two),
     Case("kinozal", Row("a", "b", 0), 0, {"call", "warm"}, Two),
     Case("lostfilm", Row("a", "a", 1), 0, {"kill", "captcha", "call", "deadline"}, Two),
     Case("rutracker", Row("a", "a", 1), 1, {"kill", "captcha", "call", "test"}, Two)}
    \cup {Case(k, Row("a", "a", 0), 1, {"kill", "call", "publish", "noise", "drift", "webpage"}, {"w1"}) :
             k \in WithCredentials \ Stored}
    \cup {Case("rutracker", Row("a", "a", 1), 1, {"kill", "call", "publish", "drift", "webpage"}, {"w1"})}
    \cup {Case(k, None, 0, {"call", "publish", "noise", "drift", "webpage"}, {"w1"}) :
             k \in Kinds \ WithCredentials}
    \cup {Case("rutor", None, 0, {"publish", "mirror"}, {"w1"}),
          Case("toloka", Row("a", "a", 0), 0, {"kill", "publish", "noise", "forget"}, {"w1"}),
          Case("anidub", Row("a", "a", 0), 0, {"kill", "publish", "noise", "restart"}, {"w1"})}

=============================================================================
