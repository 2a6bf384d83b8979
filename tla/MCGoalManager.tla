--------------------------- MODULE MCGoalManager ---------------------------
(* Two destinations and a waypoint list, each sent at most once.           *)
EXTENDS GoalManager

CONSTANTS home, kitchen, route

Destinations == {home, kitchen}
Routes == {route}
NoRoutes == {}
=============================================================================
