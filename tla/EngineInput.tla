---------------------------- MODULE EngineInput ----------------------------
(***************************************************************************)
(* What the engine accepts: coordinates as doubles and validate_inputs of  *)
(* engine/construction.cpp.                                                *)
(*                                                                         *)
(* A finite double is a whole number; one above a limit stands for all that*)
(* are.  No number is less than NaN, and NaN is less than none.            *)
(***************************************************************************)
EXTENDS Integers, Sequences

CONSTANTS MaxStops          \* 100

ASSUME EngineInputAssumption == MaxStops \in Nat \ {0}

Finite == -1000..1000
Infinity == 1001
NaN == 2000
Doubles == Finite \cup {-Infinity, Infinity, NaN}

\* The comparison < of doubles.
Less(x, y) == NaN \notin {x, y} /\ x < y

Coordinate(lat, lng) == [lat |-> lat, lng |-> lng]

\* std::isfinite in validate_coordinate
IsFinite(x) == x \in Finite

\* validate_coordinate
IsValidCoordinate(c) ==
    /\ IsFinite(c.lat) /\ IsFinite(c.lng)
    /\ ~Less(c.lat, -90) /\ ~Less(90, c.lat)
    /\ ~Less(c.lng, -180) /\ ~Less(180, c.lng)

\* validate_inputs; whatever is wrong, it throws std::invalid_argument.
IsValidInput(depot, stops, vehicles) ==
    /\ IsValidCoordinate(depot)
    /\ Len(stops) \in 1..MaxStops
    /\ vehicles \in 1..Len(stops)
    /\ \A i \in 1..Len(stops) : IsValidCoordinate(stops[i])

=============================================================================
