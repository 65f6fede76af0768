---------------------------- MODULE MCRouteDrawing ----------------------------
(***************************************************************************)
(* Small results to draw, for TLC.                                         *)
(***************************************************************************)
EXTENDS RouteDrawing

\* Up to three vehicles; a route has too few points, exactly enough for one,
\* two or three legs, or one more than that.
Lengths == 2..6

SmallResults == {<<>>} \cup UNION {[1..n -> Lengths] : n \in 1..3}

=============================================================================
