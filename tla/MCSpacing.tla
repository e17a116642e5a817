----------------------------- MODULE MCSpacing -----------------------------
(* Three goroutines of a lane whose tracker asks for three units of time. *)
EXTENDS Spacing
CONSTANTS g1, g2, g3
MCGoroutines == {g1, g2, g3}
=============================================================================
