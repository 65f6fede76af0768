---------------------------- MODULE MCOptimizer ----------------------------
(***************************************************************************)
(* Small instances of the engine for TLC: points of a plane, with distances*)
(* that are whole numbers of the model's unit.                             *)
(***************************************************************************)
EXTENDS Optimizer

\* The distance of two points, rounded up, which keeps the triangle inequality.
Distances(points, unit) ==
    LET Square(p, q) ==
          (p.lat - q.lat) * (p.lat - q.lat) + (p.lng - q.lng) * (p.lng - q.lng)
        Rounded(n) == CHOOSE d \in 0..n : d * d >= n /\ \A e \in 0..(d - 1) : e * e < n
    IN  [p \in points |-> [q \in points |-> unit * Rounded(Square(p, q))]]

Input(depot, stops, vehicles) == [depot |-> depot, stops |-> stops, vehicles |-> vehicles]

AnyPlacing(points, numStops, vehicles) ==
    {Input(p, s, vehicles) : p \in points, s \in [1..numStops -> points]}

\* Three times their length: different sums of distances differ by more than Eps.
FarDistance == Distances(Places, 3)

\* Once: so close that sums can differ by less than kComparisonEpsilon.
CloseDistance == Distances(Places, 1)

\* A rhombus of sides 5 and diagonals 6 and 8, and its centre.
North == Coordinate(4, 0)
South == Coordinate(-4, 0)
East == Coordinate(0, 3)
West == Coordinate(0, -3)
Centre == Coordinate(0, 0)
RhombusPlaces == {North, South, East, West, Centre}
KitePlaces == RhombusPlaces \ {West}
RhombusInputs == AnyPlacing(RhombusPlaces, 4, 2)

\* Without most that are mirror images of others.
KiteInputs ==
    {i \in AnyPlacing(KitePlaces, 4, 2) :
        i.depot # South /\ (i.depot # North => i.stops[1] # South)}

\* A depot and five stops on which the first local search ends where annealing
\* can lead further, in most orders of the stops.
TownDepot == Coordinate(1, 1)
TownStops ==
    {Coordinate(-2, -1), Coordinate(2, 4), Coordinate(2, 1), Coordinate(0, 2), Coordinate(2, -1)}
TownInputs ==
    {Input(TownDepot, s, 2) : s \in
        {s \in [1..5 -> TownStops] : ToSet(s) = TownStops /\ s[1].lat = 2}}

\* What validate_inputs is there for.
BadInputs ==
    {Input(Centre, <<>>, 1), Input(Centre, <<North>>, 0), Input(Centre, <<North>>, 2),
     Input(Coordinate(NaN, 0), <<North>>, 1), Input(Centre, <<North, Coordinate(0, 181)>>, 2),
     Input(Centre, [i \in 1..(MaxStops + 1) |-> North], 2)}

SolvePlaces == KitePlaces \cup TownStops \cup {TownDepot}
SolveInputs ==
    KiteInputs \cup TownInputs \cup BadInputs
      \cup UNION {AnyPlacing({North, East, Centre}, n, 1) : n \in 1..3}
      \cup AnyPlacing({North, East, Centre}, 3, 3)

\* Points of a line.
LinePlaces == {Coordinate(0, -3), Centre, Coordinate(0, 5)}
LineInputs == AnyPlacing(LinePlaces, 4, 3)

\* A move on the line leaves one of three routes as it is; on the kite 2-opt has
\* crossings to undo.
EndPlaces == LinePlaces \cup KitePlaces
EndInputs == LineInputs \cup KiteInputs

=============================================================================
