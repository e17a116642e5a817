------------------------------ MODULE MCSignIn ------------------------------
(* Two tabs, which may be those of one browser.                                *)
EXTENDS SignIn

MCRequests == [t \in Tabs |-> IF t = "t1" THEN {"r1", "r2"} ELSE {"r1"}]
OneBrowser == [t \in Tabs |-> "b"]
=============================================================================
