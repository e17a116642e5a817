------------------------------ MODULE MCDomains ------------------------------
(* A tracker with two domains, a later release that dropped the second, and an *)
(* administrator who adds a mirror, takes it away, or pins a domain.           *)
EXTENDS Domains, TLC

MCBuilds == {<<"a", "b">>, <<"a">>}
MCRequests == {[active |-> "c", custom |-> <<"c">>], [active |-> "b", custom |-> <<>>],
               [active |-> None, custom |-> <<"c">>]}

\* Workers are interchangeable.
WorkerSymmetry == Permutations(Workers)
=============================================================================
