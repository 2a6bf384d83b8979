--------------------------- MODULE MCRouteDriver ---------------------------
(* Forward and back with a gap, or forward by slots.                       *)
EXTENDS RouteDriver

CONSTANTS forward, reverse

OnlyPort == {Port}
ThereAndBack == <<forward, reverse>>
=============================================================================
