--------------------------- MODULE MCTurnControl ---------------------------
(* Turns of both signs on bases of two coasts, wired right or wrong.       *)
EXTENDS TurnControl

BothWays == {5, -3}
Coasts == {1, 4}
=============================================================================
