------------------------------- MODULE Routes -------------------------------
(***************************************************************************)
(* Route assignments of the engine (engine/distance.cpp, local_search.cpp):*)
(* distances, the objective and its comparison, the three moves, and what  *)
(* the searches compute to judge a move without making it.                 *)
(*                                                                         *)
(* A route is the sequence of its stops.  Nodes are stops and the depot, 0;*)
(* D[a][b] is the distance matrix.  The doubles of the code are integers,  *)
(* in a unit of which Eps is kComparisonEpsilon, so sums are exact.        *)
(***************************************************************************)
EXTENDS Loops, Sequences, SequencesExt

CONSTANTS Eps

ASSUME RoutesAssumption == Eps \in Nat

\* The node at a position of a closed route: the depot off either end.
Node(route, i) == IF i \in 1..Len(route) THEN route[i] ELSE 0

\* matrix_route_distance, closed_route_distance
RouteDistance(D, route) ==
    Loop(LAMBDA total, i : total + D[Node(route, i - 1)][Node(route, i)],
         0, Len(route) + 1)

\* summarize_distances: the longest route first, then the total
Summary(distances) ==
    [ longest |-> Max(ToSet(distances)),
      total   |-> Loop(LAMBDA total, v : total + distances[v], 0, Len(distances)) ]
Objective(distances) == Once(Summary, distances)

\* is_better_objective
IsBetter_OrAsGood(candidate, current) ==
    \/ candidate.longest + Eps < current.longest
    \/ /\ candidate.longest - current.longest \in -Eps..Eps
       /\ candidate.total <= current.total
IsBetter(candidate, current) ==
    \/ candidate.longest + Eps < current.longest
    \/ /\ candidate.longest - current.longest \in -Eps..Eps
       /\ candidate.total + Eps < current.total

\* calculate_route_distances
RouteDistances(D, routes) == [v \in DOMAIN routes |-> RouteDistance(D, routes[v])]

\* The objective of routes as they are, summed afresh.
ObjectiveOf(D, routes) == Objective(RouteDistances(D, routes))

\* consider_move: a candidate is compared with the best so far, not with where
\* the search began.
Consider(best, candidate) ==
    Once(LAMBDA c : IF IsBetter(c.objective, best.objective) THEN c ELSE best, candidate)

-----------------------------------------------------------------------------

(***************************************************************************)
(* The moves                                                               *)
(***************************************************************************)

\* relocate_stop; position i of v goes to position j of w
Relocate_Copies(routes, v, i, w, j) ==
    [routes EXCEPT ![w] = InsertAt(@, j, routes[v][i])]
Relocate(routes, v, i, w, j) ==
    [routes EXCEPT ![v] = RemoveAt(@, i),
                   ![w] = InsertAt(@, j, routes[v][i])]

\* swap_stops
Swap(routes, v, i, w, j) ==
    [routes EXCEPT ![v][i] = routes[w][j], ![w][j] = routes[v][i]]

\* std::reverse of first..last
Reversed(route, first, last) ==
    [i \in 1..Len(route) |->
        IF i \in first..last THEN route[first + last - i] ELSE route[i]]

\* reverse_segment
ReverseSegment(routes, v, first, last) ==
    [routes EXCEPT ![v] = Reversed(@, first, last)]

-----------------------------------------------------------------------------

(***************************************************************************)
(* 2-opt                                                                   *)
(***************************************************************************)

\* Whether reversing s..e saves more than Eps on the two edges it replaces.
Shortens(D, route, s, e) ==
    D[Node(route, s - 1)][route[e]] + D[route[s]][Node(route, e + 1)] + Eps
      < D[Node(route, s - 1)][route[s]] + D[route[e]][Node(route, e + 1)]

\* improve_with_two_opt: the parts that begin at s, in place
ReverseFrom(D, route, s) ==
    Loop(LAMBDA r, k : IF Shortens(D, r, s, s + k) THEN Reversed(r, s, s + k) ELSE r,
         route, Len(route) - s)

\* improve_with_two_opt: one pass of its while loop
TwoOpt(D, route) ==
    IF Len(route) < 3 THEN route
    ELSE Loop(LAMBDA r, s : ReverseFrom(D, r, s), route, Len(route) - 1)

-----------------------------------------------------------------------------

(***************************************************************************)
(* What a move across routes would change                                  *)
(***************************************************************************)

\* removal_delta
RemovalDelta(D, route, i) ==
    D[Node(route, i - 1)][Node(route, i + 1)]
      - D[Node(route, i - 1)][route[i]] - D[route[i]][Node(route, i + 1)]

\* insertion_delta: the stop comes to stand at position i
InsertionDelta_AfterNext(D, route, stop, i) ==
    D[Node(route, i - 1)][stop] + D[stop][Node(route, i + 1)]
      - D[Node(route, i - 1)][Node(route, i + 1)]
InsertionDelta(D, route, stop, i) ==
    D[Node(route, i - 1)][stop] + D[stop][Node(route, i)]
      - D[Node(route, i - 1)][Node(route, i)]

\* replacement_delta
ReplacementDelta(D, route, i, stop) ==
    D[Node(route, i - 1)][stop] + D[stop][Node(route, i + 1)]
      - D[Node(route, i - 1)][route[i]] - D[route[i]][Node(route, i + 1)]

\* objective_with_changed_routes
ObjectiveWithChanged(distances, v, vDistance, w, wDistance) ==
    Objective([distances EXCEPT ![v] = vDistance, ![w] = wDistance])

\* What search_relocate_moves and search_swap_moves pass to it.
RelocateObjective(D, routes, distances, v, i, w, j) ==
    ObjectiveWithChanged(distances,
        v, Max({0, distances[v] + RemovalDelta(D, routes[v], i)}),
        w, distances[w] + InsertionDelta(D, routes[w], routes[v][i], j))

SwapObjective(D, routes, distances, v, i, w, j) ==
    ObjectiveWithChanged(distances,
        v, distances[v] + ReplacementDelta(D, routes[v], i, routes[w][j]),
        w, distances[w] + ReplacementDelta(D, routes[w], j, routes[v][i]))

Move(kind, v, i, w, j, objective) ==
    [kind |-> kind, v |-> v, i |-> i, w |-> w, j |-> j, objective |-> objective]

\* A route of one stop gives none away.
GivesAway_LastStopToo(route) == Len(route) > 0
GivesAway(route) == Len(route) > 1

\* search_relocate_moves, from its inner loop to its outer one
RelocationsInto(D, routes, distances, v, i, w, start) ==
    Loop(LAMBDA best, j :
           Consider(best, Move("relocate", v, i, w, j,
                      RelocateObjective(D, routes, distances, v, i, w, j))),
         start, Len(routes[w]) + 1)
RelocationsOf(D, routes, distances, v, i, start) ==
    Loop(LAMBDA best, w :
           IF w = v THEN best ELSE RelocationsInto(D, routes, distances, v, i, w, best),
         start, Len(routes))
RelocationsFrom(D, routes, distances, v, start) ==
    Loop(LAMBDA best, i : RelocationsOf(D, routes, distances, v, i, best),
         start, Len(routes[v]))
SearchRelocations(D, routes, distances, start) ==
    Loop(LAMBDA best, v :
           IF GivesAway(routes[v]) THEN RelocationsFrom(D, routes, distances, v, best)
           ELSE best,
         start, Len(routes))

\* search_swap_moves, from its inner loop to its outer one
SwapsAt(D, routes, distances, v, w, i, start) ==
    Loop(LAMBDA best, j :
           Consider(best, Move("swap", v, i, w, j,
                      SwapObjective(D, routes, distances, v, i, w, j))),
         start, Len(routes[w]))
SwapsBetween(D, routes, distances, v, w, start) ==
    Loop(LAMBDA best, i : SwapsAt(D, routes, distances, v, w, i, best),
         start, Len(routes[v]))
SwapsFrom(D, routes, distances, v, start) ==
    Loop(LAMBDA best, k : SwapsBetween(D, routes, distances, v, v + k, best),
         start, Len(routes) - v)
SearchSwaps(D, routes, distances, start) ==
    Loop(LAMBDA best, v : SwapsFrom(D, routes, distances, v, best),
         start, Len(routes))

\* The routes after a move that was found.
Moved(routes, m) ==
    IF m.kind = "relocate" THEN Relocate(routes, m.v, m.i, m.w, m.j)
    ELSE Swap(routes, m.v, m.i, m.w, m.j)

=============================================================================
