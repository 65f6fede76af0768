----------------------------- MODULE Optimizer -----------------------------
(***************************************************************************)
(* optimize_routes of engine/optimizer.cpp: validation and construction    *)
(* (construction.cpp), local search (local_search.cpp), simulated annealing*)
(* (annealing.cpp), local search again, and the result.  An action is one  *)
(* turn of one of its loops.                                               *)
(*                                                                         *)
(* Distances between coordinates are integers; the generator of the        *)
(* annealing is a free choice among the moves it may propose and, for a    *)
(* worse one, between taking and leaving it.                               *)
(***************************************************************************)
EXTENDS Routes, EngineInput

CONSTANTS
    Places,         \* valid coordinates
    Distance,       \* Distance[p][q]: haversine_distance
    Inputs,         \* arguments: depot, stops, vehicles
    Iterations      \* bound: annealing turns (1000 + 200 per stop in the code)

ASSUME OptimizerAssumption ==
    /\ \A p \in Places : IsValidCoordinate(p)
    /\ Distance \in [Places -> [Places -> Nat]]
    /\ \A p, q \in Places : Distance[p][p] = 0 /\ Distance[p][q] = Distance[q][p]
    /\ \A p, q, r \in Places : Distance[p][r] <= Distance[p][q] + Distance[q][r]
    /\ \A i \in Inputs : IsValidInput(i.depot, i.stops, i.vehicles) =>
          i.depot \in Places /\ i.stops \in Seq(Places)
    /\ Iterations \in Nat

VARIABLES
    input,
    phase,
    D,              \* the distance matrix
    routes,         \* state.routes; while annealing, best_routes
    distances,      \* state.distances; while annealing, best_distances
    assigned,       \* ConstructionState.assigned, as a set
    todo,           \* the routes improve_with_two_opt has still to be called for
    current,        \* current_routes of the annealing
    iteration,
    result          \* OptimizationResult, once there is one

vars == <<input, phase, D, routes, distances, assigned, todo, current, iteration, result>>

Stops == 1..Len(input.stops)
Vehicles == 1..input.vehicles
Nodes == 0..Len(input.stops)            \* stop_node: a stop is its node, the depot 0

PlaceOf(node) == IF node = 0 THEN input.depot ELSE input.stops[node]

AllVehicles == [v \in Vehicles |-> v]

NoResult == [routes |-> <<>>, total |-> 0, longest |-> 0]

Running == {"seed", "assign", "local", "anneal", "final", "returned"}

TypeOK ==
    /\ phase \in {"called", "thrown"} \cup Running
    /\ phase \in Running =>
          /\ D \in [Nodes -> [Nodes -> Nat]]
          /\ routes \in [Vehicles -> Seq(Stops)]
          /\ distances \in [Vehicles -> Nat]
          /\ current \in [Vehicles -> Seq(Stops)]
          /\ assigned \in SUBSET Stops
          /\ todo \in Seq(Vehicles)
    /\ iteration \in 0..Iterations

Init ==
    /\ input \in Inputs
    /\ phase = "called"
    /\ D = <<>> /\ routes = <<>> /\ distances = <<>> /\ current = <<>> /\ todo = <<>>
    /\ assigned = {}
    /\ iteration = 0
    /\ result = NoResult

\* DistanceMatrix; several of the depot and the stops may share a place.
DistanceMatrix ==
    [a \in Nodes |-> [b \in Nodes |-> Distance[PlaceOf(a)][PlaceOf(b)]]]

\* What construction begins with; its endpoints are the last stops of the routes.
ConstructionState ==
    [ routes    |-> [v \in Vehicles |-> <<>>],
      distances |-> [v \in Vehicles |-> 0],
      assigned  |-> {} ]

\* validate_inputs, then the matrix and an empty ConstructionState.
Start ==
    /\ phase = "called"
    /\ IF IsValidInput(input.depot, input.stops, input.vehicles)
       THEN /\ phase' = "seed"
            /\ D' = DistanceMatrix
            /\ routes' = ConstructionState.routes
            /\ distances' = ConstructionState.distances
            /\ assigned' = ConstructionState.assigned
            /\ current' = routes'
       ELSE /\ phase' = "thrown"
            /\ UNCHANGED <<D, routes, distances, assigned, current>>
    /\ UNCHANGED <<input, todo, iteration, result>>

-----------------------------------------------------------------------------

(***************************************************************************)
(* Construction                                                            *)
(***************************************************************************)

\* How far a stop is from the seeds so far, or from the depot.
Separation(v, stop) ==
    IF v = 1 THEN D[0][stop]
    ELSE Min({D[routes[w][1]][stop] : w \in 1..(v - 1)})

\* The -1 kilometre the search begins with is less than any distance by more
\* than Eps.
SeedOf(v) ==
    Loop(LAMBDA best, stop :
           IF stop \notin assigned /\ Separation(v, stop) > best.separation + Eps
           THEN [stop |-> stop, separation |-> Separation(v, stop)]
           ELSE best,
         [stop |-> 1, separation |-> -1 - Eps], Len(input.stops)).stop

\* seed_vehicle_routes, one vehicle
SeedVehicle ==
    /\ phase = "seed"
    /\ LET v == Cardinality(assigned) + 1
           stop == SeedOf(v)
       IN  /\ routes' = [routes EXCEPT ![v] = Append(@, stop)]
           /\ distances' = [distances EXCEPT ![v] = 2 * D[0][stop]]
           /\ assigned' = assigned \cup {stop}
           /\ phase' = IF v < input.vehicles THEN "seed" ELSE "assign"
    /\ UNCHANGED <<input, D, todo, current, iteration, result>>

\* What a stop at the end of a route would add to it.
AddedDistance(v, stop) ==
    LET end == Node(routes[v], Len(routes[v]))
    IN  D[end][stop] + D[stop][0] - D[end][0]

Insertion(v, stop) ==
    [ found |-> TRUE, v |-> v, stop |-> stop, added |-> AddedDistance(v, stop),
      objective |-> Objective([distances EXCEPT ![v] = @ + AddedDistance(v, stop)]) ]

\* The search of assign_remaining_stops; any candidate is better than none.
InsertionsInto(v, start) ==
    Loop(LAMBDA best, stop :
           IF stop \in assigned THEN best
           ELSE IF best.found THEN Consider(best, Insertion(v, stop))
           ELSE Insertion(v, stop),
         start, Len(input.stops))
BestInsertion ==
    Loop(LAMBDA best, v : InsertionsInto(v, best), [found |-> FALSE], input.vehicles)

\* assign_remaining_stops, one stop
AssignStop ==
    /\ phase = "assign" /\ assigned # Stops
    /\ LET best == BestInsertion
       IN  /\ routes' = [routes EXCEPT ![best.v] = Append(@, best.stop)]
           /\ distances' = [distances EXCEPT ![best.v] = @ + best.added]
           /\ assigned' = assigned \cup {best.stop}
    /\ UNCHANGED <<input, D, phase, todo, current, iteration, result>>

ConstructionEnds ==
    /\ phase = "assign" /\ assigned = Stops
    /\ phase' = "local"
    /\ todo' = AllVehicles
    /\ UNCHANGED <<input, D, routes, distances, assigned, current, iteration, result>>

-----------------------------------------------------------------------------

(***************************************************************************)
(* Local search, before and after the annealing                            *)
(***************************************************************************)

Searching == phase \in {"local", "final"}

\* closed_route_distance measures along the coordinates, not in the matrix.
ClosedRouteDistance(route) ==
    Loop(LAMBDA total, i :
           total + Distance[PlaceOf(Node(route, i - 1))][PlaceOf(Node(route, i))],
         0, Len(route) + 1)

\* improve_with_two_opt: a pass that changes the route is followed by another,
\* one that does not by its distance
TwoOptPass ==
    /\ Searching /\ todo # <<>>
    /\ LET v == Head(todo)
           improved == TwoOpt(D, routes[v])
       IN  IF improved # routes[v]
           THEN /\ routes' = [routes EXCEPT ![v] = improved]
                /\ UNCHANGED <<distances, todo>>
           ELSE /\ distances' = [distances EXCEPT ![v] = ClosedRouteDistance(routes[v])]
                /\ todo' = Tail(todo)
                /\ UNCHANGED routes
    /\ UNCHANGED <<input, D, phase, assigned, current, iteration, result>>

BestMove ==
    SearchSwaps(D, routes, distances,
      SearchRelocations(D, routes, distances,
        [kind |-> "none", objective |-> Objective(distances)]))

\* The routes refresh_changed_routes is called for.
Changed_SourceOnly(m) == <<m.v>>
Changed(m) == <<m.v, m.w>>

\* improve_across_routes makes a move.
MakeMove ==
    /\ Searching /\ todo = <<>>
    /\ LET move == BestMove
       IN  /\ move.kind # "none"
           /\ routes' = Moved(routes, move)
           /\ todo' = Changed(move)
    /\ UNCHANGED <<input, D, phase, distances, assigned, current, iteration, result>>

\* No move is found, the first time: the annealing begins.
LocalSearchEnds ==
    /\ phase = "local" /\ todo = <<>>
    /\ BestMove.kind = "none"
    /\ phase' = "anneal"
    /\ current' = routes
    /\ UNCHANGED <<input, D, routes, distances, assigned, todo, iteration, result>>

-----------------------------------------------------------------------------

(***************************************************************************)
(* Simulated annealing                                                     *)
(***************************************************************************)

\* propose_annealing_neighbor: what its generator can lead to
Relocations(r) ==
    {Relocate(r, m[1], m[2], m[3], m[4]) : m \in
        {m \in Vehicles \X Stops \X Vehicles \X Stops :
           /\ m[1] # m[3] /\ GivesAway(r[m[1]])
           /\ m[2] <= Len(r[m[1]]) /\ m[4] <= Len(r[m[3]]) + 1}}

Swaps(r) ==
    {Swap(r, m[1], m[2], m[3], m[4]) : m \in
        {m \in Vehicles \X Stops \X Vehicles \X Stops :
           m[1] # m[3] /\ m[2] <= Len(r[m[1]]) /\ m[4] <= Len(r[m[3]])}}

Reversals(r) ==
    {ReverseSegment(r, m[1], m[2], m[3]) : m \in
        {m \in Vehicles \X Stops \X Stops :
           m[2] < m[3] /\ m[3] <= Len(r[m[1]])}}

HasMultiStopRoute(r) == \E v \in Vehicles : Len(r[v]) > 1

Proposals(r) ==
    IF HasMultiStopRoute(r) THEN Relocations(r) \cup Swaps(r) \cup Reversals(r) ELSE {}

\* annealing_objective_change, up to its scale: at most nothing
NotWorse(candidate, now) ==
    IF candidate.longest - now.longest \in -Eps..Eps
    THEN candidate.total <= now.total
    ELSE candidate.longest <= now.longest

\* best_routes gives way to a better candidate only.
BecomesBest_BetterThanLast(candidate) ==
    IsBetter(ObjectiveOf(D, candidate), ObjectiveOf(D, current))
BecomesBest(candidate) ==
    IsBetter(ObjectiveOf(D, candidate), Objective(distances))

Accept(candidate) ==
    /\ current' = candidate
    /\ IF BecomesBest(candidate)
       THEN /\ routes' = candidate
            /\ distances' = RouteDistances(D, candidate)
       ELSE UNCHANGED <<routes, distances>>

TurnLeft_OneTooMany == iteration <= Iterations
TurnLeft == iteration < Iterations

\* improve_with_simulated_annealing, one turn
AnnealStep ==
    /\ phase = "anneal" /\ TurnLeft
    /\ iteration' = iteration + 1
    /\ \E candidate \in Proposals(current) :
          \/ Accept(candidate)
          \/ /\ ~NotWorse(ObjectiveOf(D, candidate), ObjectiveOf(D, current))
             /\ UNCHANGED <<routes, distances, current>>
    /\ UNCHANGED <<input, D, phase, assigned, todo, result>>

\* The 32 attempts can all fail only where one can: at a route of one stop, or
\* with a single vehicle.
ProposalMayFail ==
    input.vehicles = 1 \/ \E v \in Vehicles : Len(current[v]) = 1

AnnealEnds_Returns ==
    /\ phase = "anneal"
    /\ ~TurnLeft \/ ProposalMayFail
    /\ phase' = "returned"
    /\ UNCHANGED <<input, D, routes, distances, assigned, todo, current, iteration, result>>
AnnealEnds ==
    /\ phase = "anneal"
    /\ ~TurnLeft \/ ProposalMayFail
    /\ phase' = "final"
    /\ todo' = AllVehicles
    /\ UNCHANGED <<input, D, routes, distances, assigned, current, iteration, result>>

-----------------------------------------------------------------------------

(***************************************************************************)
(* The result                                                              *)
(***************************************************************************)

\* build_route_coordinates
RouteCoordinates(route) ==
    <<input.depot>> \o [i \in DOMAIN route |-> PlaceOf(route[i])] \o <<input.depot>>

\* build_result; stops are counted from 0
BuildResult ==
    [ routes |-> [v \in Vehicles |->
        [ vehicle_id        |-> v,
          stop_order        |-> [i \in DOMAIN routes[v] |-> routes[v][i] - 1],
          route_coordinates |-> RouteCoordinates(routes[v]),
          distance_km       |-> distances[v] ]],
      total   |-> Objective(distances).total,
      longest |-> Objective(distances).longest ]

\* No move is found after the annealing: optimize_routes returns.
Return ==
    /\ phase = "final" /\ todo = <<>>
    /\ BestMove.kind = "none"
    /\ phase' = "returned"
    /\ result' = BuildResult
    /\ UNCHANGED <<input, D, routes, distances, assigned, todo, current, iteration>>

-----------------------------------------------------------------------------

Next ==
    \/ Start
    \/ SeedVehicle
    \/ AssignStop
    \/ ConstructionEnds
    \/ TwoOptPass
    \/ MakeMove
    \/ LocalSearchEnds
    \/ AnnealStep
    \/ AnnealEnds
    \/ Return

Spec == Init /\ [][Next]_vars

\* The function runs until it returns.
FairSpec == Spec /\ WF_vars(Next)

-----------------------------------------------------------------------------

(***************************************************************************)
(* Properties                                                              *)
(***************************************************************************)

StopsOf(r) == UNION {ToSet(r[v]) : v \in Vehicles}

NoStopTwice(r) ==
    \A v, w \in Vehicles : \A i \in 1..Len(r[v]), j \in 1..Len(r[w]) :
        r[v][i] = r[w][j] => v = w /\ i = j

\* Every assigned stop is on one route, once, whatever the moves did to it; that
\* is every stop once construction has ended.
EachStopOnce ==
    phase \in Running =>
        /\ StopsOf(routes) = assigned /\ NoStopTwice(routes)
        /\ phase = "anneal" => StopsOf(current) = Stops /\ NoStopTwice(current)
        /\ phase \notin {"seed", "assign"} => assigned = Stops

\* "Every vehicle remains non-empty" (optimizer.h): none of the searches takes
\* the last stop of a route.
EveryVehicleDrives ==
    phase \in Running \ {"seed"} =>
        \A v \in Vehicles :
            routes[v] # <<>> /\ (phase = "anneal" => current[v] # <<>>)

\* The distances that were added up, or kept while other routes changed, are
\* those of the routes, but for the routes 2-opt is about to measure.
DistancesAreCurrent ==
    \A v \in DOMAIN routes \ ToSet(todo) : distances[v] = RouteDistance(D, routes[v])

\* What the deltas predict for a move is what its routes come to.
PredictionsAreExact ==
    Searching /\ todo = <<>> =>
        \A v, w \in Vehicles : \A i \in 1..Len(routes[v]) : v # w =>
            /\ \A j \in 1..(Len(routes[w]) + 1) : Len(routes[v]) > 1 =>
                  RelocateObjective(D, routes, distances, v, i, w, j)
                    = ObjectiveOf(D, Relocate(routes, v, i, w, j))
            /\ \A j \in 1..Len(routes[w]) :
                  SwapObjective(D, routes, distances, v, i, w, j)
                    = ObjectiveOf(D, Swap(routes, v, i, w, j))

\* The result cannot be improved by more than Eps by moving or swapping a stop,
\* nor by reversing a part of a route.
ResultIsLocalOptimum ==
    phase = "returned" =>
        /\ \A r \in Relocations(routes) \cup Swaps(routes) :
              ~IsBetter(ObjectiveOf(D, r), ObjectiveOf(D, routes))
        /\ \A v \in Vehicles : \A s, e \in 1..Len(routes[v]) :
              s < e => RouteDistance(D, Reversed(routes[v], s, e)) + Eps
                         >= RouteDistance(D, routes[v])

\* The search is an implementation of Assignment: the best solution it has is the
\* plan, which no step makes worse, and the incremental distances it returns are
\* those along the coordinates it returns.
Promised == INSTANCE Assignment WITH
    state  <- IF phase \in Running \ {"returned"} THEN "solving" ELSE phase,
    plan   <- routes,
    answer <- result

ImplementsAssignment == Promised!Spec

\* The search ends.
Terminates == <>(phase \in {"thrown", "returned"})

=============================================================================
