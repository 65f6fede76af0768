----------------------------- MODULE RouteDrawing -----------------------------
(***************************************************************************)
(* Drawing a result on the map: renderOptimizedRoutes and what it calls    *)
(* in frontend/js/app.js.  Planner takes the drawing of one vehicle as a   *)
(* single step that succeeds or fails; here it is what the code does.      *)
(* Google computes a road route through a bounded number of points, so a   *)
(* vehicle's route is asked for leg by leg, with an await for each, and a  *)
(* leg that fails takes back the legs that are already on the map.         *)
(*                                                                         *)
(* A point is its position in the route; a leg is the interval of points   *)
(* that one request covers, and stands for all the polylines of its reply. *)
(***************************************************************************)
EXTENDS Integers, Sequences, FiniteSets

CONSTANTS
    Results,            \* what the service may answer: for each vehicle, how many
                        \* coordinates its route has
    MaxIntermediates,   \* MAX_GOOGLE_INTERMEDIATES
    MaxDrawings         \* bound: how many results are drawn, one after the other

ASSUME DrawingAssumption ==
    /\ Results \subseteq Seq(Nat)
    /\ MaxIntermediates \in Nat
    /\ MaxDrawings \in Nat

VARIABLES
    round,      \* which result this is
    result,     \* the result that is on the map or on its way there
    phase,      \* "ended" (returned or thrown) or "drawing"
    vehicle,    \* the vehicle whose route is being drawn
    leg,        \* the first point of the leg that Google is asked for
    mine,       \* vehiclePolylines: its legs so far
    kept,       \* appState.routePolylines
    onMap,      \* the polylines that are on the map
    failures,   \* the vehicles noted as failed
    boxes       \* the checkboxes that can be used, and whether each is ticked

drawVars == <<round, result, phase, vehicle, leg, mine, kept, onMap, failures, boxes>>

Vehicles == 1..Len(result)

NoBoxes == [v \in {} |-> FALSE]

TypeOK ==
    /\ round \in 0..MaxDrawings
    /\ result \in Results \cup {<<>>}
    /\ phase \in {"ended", "drawing"}
    /\ vehicle \in 1..(Len(result) + 1)
    /\ leg \in Nat \ {0}
    /\ DOMAIN kept \subseteq Vehicles
    /\ failures \subseteq Vehicles
    /\ DOMAIN boxes \subseteq Vehicles

Init ==
    /\ round = 0 /\ result = <<>> /\ phase = "ended"
    /\ vehicle = 1 /\ leg = 1
    /\ mine = {} /\ kept = [v \in {} |-> {}] /\ onMap = {}
    /\ failures = {} /\ boxes = NoBoxes

-----------------------------------------------------------------------------

Leg(v, first, last) == [round |-> round, vehicle |-> v, first |-> first, last |-> last]

\* clearRenderedRoutes takes off the map what routePolylines knows of.
Known == UNION {kept[v] : v \in DOMAIN kept}

\* A result without routes, or with a malformed one, throws: nothing changes.
Begin(r) ==
    /\ phase = "ended" /\ round < MaxDrawings
    /\ r # <<>>
    /\ round' = round + 1
    /\ result' = r
    /\ phase' = "drawing"
    /\ vehicle' = 1 /\ leg' = 1 /\ mine' = {}
    /\ onMap' = onMap \ Known
    /\ kept' = [v \in {} |-> {}]
    /\ failures' = {}
    /\ boxes' = NoBoxes

\* Google's library is missing: the old routes are gone, and there is no new one.
LibraryMissing ==
    /\ phase = "drawing" /\ vehicle = 1 /\ mine = {}
    /\ phase' = "ended"
    /\ UNCHANGED <<round, result, vehicle, leg, mine, kept, onMap, failures, boxes>>

\* clearLocations and submitOptimization clear the map before the next result.
ClearMap ==
    /\ phase = "ended" /\ result # <<>>
    /\ onMap' = onMap \ Known
    /\ kept' = [v \in {} |-> {}]
    /\ boxes' = NoBoxes
    /\ result' = <<>> /\ vehicle' = 1 /\ failures' = {}
    /\ UNCHANGED <<round, phase, leg, mine>>

\* splitRouteCoordinates: where the leg that starts here ends
LegEnd_OnePointMore(points) ==
    IF leg + MaxIntermediates + 2 < points THEN leg + MaxIntermediates + 2 ELSE points
LegEnd(points) ==
    IF leg + MaxIntermediates + 1 < points THEN leg + MaxIntermediates + 1 ELSE points

\* The place of a vehicle's polylines in routePolylines is its own.
Place_FromZero(v) == v - 1
Place_Pushed(v) == Cardinality(DOMAIN kept) + 1
Place(v) == v

NextVehicle ==
    /\ vehicle' = vehicle + 1
    /\ leg' = 1
    /\ mine' = {}

Drawable == result[vehicle] >= 3

\* Google answers for one leg, and that was not the last one.
LegDrawn ==
    LET end == LegEnd(result[vehicle]) IN
    /\ phase = "drawing" /\ vehicle \in Vehicles /\ Drawable
    /\ end < result[vehicle]
    /\ mine' = mine \cup {Leg(vehicle, leg, end)}
    /\ onMap' = onMap \cup {Leg(vehicle, leg, end)}
    /\ leg' = end
    /\ UNCHANGED <<round, result, phase, vehicle, kept, failures, boxes>>

LastLegDrawn ==
    LET end  == LegEnd(result[vehicle])
        last == Leg(vehicle, leg, end) IN
    /\ phase = "drawing" /\ vehicle \in Vehicles /\ Drawable
    /\ end = result[vehicle]
    /\ onMap' = onMap \cup {last}
    /\ kept' = [v \in DOMAIN kept \cup {Place(vehicle)} |->
                    IF v = Place(vehicle) THEN mine \cup {last} ELSE kept[v]]
    /\ NextVehicle
    /\ UNCHANGED <<round, result, phase, failures, boxes>>

\* The route has fewer than three points, or Google has none for a leg.
TakenBack_LastLegOnly == {l \in mine : l.last = leg}
TakenBack == mine

RouteFails ==
    /\ phase = "drawing" /\ vehicle \in Vehicles
    /\ onMap' = onMap \ TakenBack
    /\ failures' = failures \cup {vehicle}
    /\ NextVehicle
    /\ UNCHANGED <<round, result, phase, kept, boxes>>

\* showRouteSummary: a box for every vehicle, of use where there is a route
Finish ==
    /\ phase = "drawing" /\ vehicle \notin Vehicles
    /\ phase' = "ended"
    /\ boxes' = [v \in DOMAIN kept |-> TRUE]
    /\ UNCHANGED <<round, result, vehicle, leg, mine, kept, onMap, failures>>

\* The user ticks a box, or unticks it.
Toggle(v) ==
    /\ phase = "ended" /\ v \in DOMAIN boxes
    /\ boxes' = [boxes EXCEPT ![v] = ~@]
    /\ onMap' = IF boxes'[v] THEN onMap \cup kept[v] ELSE onMap \ kept[v]
    /\ UNCHANGED <<round, result, phase, vehicle, leg, mine, kept, failures>>

Next ==
    \/ \E r \in Results : Begin(r)
    \/ LibraryMissing
    \/ ClearMap
    \/ LegDrawn
    \/ LastLegDrawn
    \/ RouteFails
    \/ Finish
    \/ \E v \in Vehicles : Toggle(v)

Spec == Init /\ [][Next]_drawVars

-----------------------------------------------------------------------------

(***************************************************************************)
(* Properties                                                              *)
(***************************************************************************)

\* Nothing stray is on the map, whatever failed and whatever was ticked before:
\* it shows the routes that are kept and not unticked, and the legs of the
\* vehicle that is being drawn (the catch block of renderVehicleRoute).
Unticked == {v \in DOMAIN boxes : ~boxes[v]}

NothingStray ==
    onMap = mine \cup UNION {kept[v] : v \in DOMAIN kept \ Unticked}

\* A route on the map is the vehicle's whole route and nobody else's: its legs
\* lead from its first point to its last, each begins where another ends, and
\* none has more points than Google takes (splitRouteCoordinates).
WholeRoute(v, legs) ==
    /\ \A l \in legs : /\ l.round = round /\ l.vehicle = v
                       /\ l.first < l.last
                       /\ l.last - l.first - 1 <= MaxIntermediates
    /\ {l.first : l \in legs} \cup {result[v]} = {l.last : l \in legs} \cup {1}
    /\ \A l1, l2 \in legs : l1.first = l2.first \/ l1.last = l2.last => l1 = l2

KeptAreWhole == \A v \in DOMAIN kept : WholeRoute(v, kept[v])

\* Every vehicle that has had its turn is either kept or noted as a failure.
EveryVehicleAccounted ==
    /\ DOMAIN kept \cap failures = {}
    /\ DOMAIN kept \cup failures = {v \in Vehicles : v < vehicle}

=============================================================================
