----------------------------- MODULE Assignment -----------------------------
(***************************************************************************)
(* What optimize_routes (engine/optimizer.h) promises, whatever its search *)
(* does: arguments that violate a constraint are refused; for others a plan*)
(* grows stop by stop, is then replaced only by complete plans that are not*)
(* worse, and the answer is the last one, measured along its coordinates.  *)
(*                                                                         *)
(* A move is found by a comparison that is not transitive, so a weaker     *)
(* promise is worth stating as well: SpecWithin(leeway), in which the next *)
(* plan need only be as good as one whose longest route is longer than the *)
(* old plan's by leeway for each pair of stops.                            *)
(***************************************************************************)
EXTENDS Routes, EngineInput

CONSTANTS Distance, Inputs

VARIABLES input, state, plan, answer

vars == <<input, state, plan, answer>>

Stops == 1..Len(input.stops)
Vehicles == 1..input.vehicles

NoAnswer == [routes |-> <<>>, total |-> 0, longest |-> 0]

\* The coordinates a vehicle passes, and how far it drives.
Tour(route) ==
    <<input.depot>> \o [i \in DOMAIN route |-> input.stops[route[i]]] \o <<input.depot>>
Length(tour) ==
    Loop(LAMBDA total, i : total + Distance[tour[i]][tour[i + 1]], 0, Len(tour) - 1)

Lengths(p) == [v \in DOMAIN p |-> Length(Tour(p[v]))]

Visited(p) == UNION {ToSet(p[v]) : v \in DOMAIN p}

\* Every vehicle drives, and each stop is visited once.
Complete(p) ==
    /\ \A v \in Vehicles : p[v] # <<>>
    /\ Visited(p) = Stops
    /\ \A v, w \in Vehicles : \A i \in 1..Len(p[v]), j \in 1..Len(p[w]) :
          p[v][i] = p[w][j] => v = w /\ i = j

AnswerOf(p) ==
    [ routes |-> [v \in Vehicles |->
        [ vehicle_id        |-> v,
          stop_order        |-> [i \in DOMAIN p[v] |-> p[v][i] - 1],
          route_coordinates |-> Tour(p[v]),
          distance_km       |-> Length(Tour(p[v])) ]],
      total   |-> Objective(Lengths(p)).total,
      longest |-> Objective(Lengths(p)).longest ]

Init ==
    /\ input \in Inputs
    /\ state = "called"
    /\ plan = <<>>
    /\ answer = NoAnswer

Refuse ==
    /\ state = "called"
    /\ ~IsValidInput(input.depot, input.stops, input.vehicles)
    /\ state' = "thrown"
    /\ UNCHANGED <<input, plan, answer>>

Accept ==
    /\ state = "called"
    /\ IsValidInput(input.depot, input.stops, input.vehicles)
    /\ state' = "solving"
    /\ plan' = [v \in Vehicles |-> <<>>]
    /\ UNCHANGED <<input, answer>>

Grow ==
    /\ state = "solving"
    /\ \E v \in Vehicles, stop \in Stops \ Visited(plan) :
          plan' = [plan EXCEPT ![v] = Append(@, stop)]
    /\ UNCHANGED <<input, state, answer>>

Lengthened(objective, leeway) ==
    [objective EXCEPT !.longest = @ + leeway * (Len(input.stops) * Len(input.stops))]

Improve(leeway) ==
    /\ state = "solving"
    /\ Complete(plan) /\ Complete(plan')
    /\ ~IsBetter(Lengthened(Objective(Lengths(plan)), leeway), Objective(Lengths(plan')))
    /\ UNCHANGED <<input, state, answer>>

Answer ==
    /\ state = "solving"
    /\ Complete(plan)
    /\ state' = "returned"
    /\ answer' = AnswerOf(plan)
    /\ UNCHANGED <<input, plan>>

NextWithin(leeway) == Refuse \/ Accept \/ Grow \/ Improve(leeway) \/ Answer
Next == NextWithin(0)

Spec == Init /\ [][Next]_vars
SpecWithin(leeway) == Init /\ [][NextWithin(leeway)]_vars

=============================================================================
