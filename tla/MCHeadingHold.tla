--------------------------- MODULE MCHeadingHold ---------------------------
(* Legs of six slots on bases that drift either way, wired right or wrong. *)
EXTENDS HeadingHold

Roundings == {-1}
Residuals == {-4, 3}
Drifts == {-1, 0, 1}
=============================================================================
