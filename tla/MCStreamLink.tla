---------------------------- MODULE MCStreamLink ----------------------------
(* One stream that drives forward and stops.                               *)
EXTENDS StreamLink

CONSTANT forward

OnlyPort == {Port}
=============================================================================
