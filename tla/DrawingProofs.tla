---------------------------- MODULE DrawingProofs ----------------------------
(***************************************************************************)
(* Proofs about RouteDrawing, for results of any size, routes of any       *)
(* length and any number of points that Google takes.                      *)
(***************************************************************************)
EXTENDS RouteDrawing, SequenceTheorems, TLAPS

-----------------------------------------------------------------------------

(***************************************************************************)
(* The inductive invariant.                                                *)
(***************************************************************************)

\* The legs drawn so far lead from the first point of the vehicle's route to
\* the first point of the leg that is asked for.
PartialRoute ==
    /\ \A l \in mine : /\ l.round = round /\ l.vehicle = vehicle
                       /\ l.first \in Nat /\ l.last \in Nat
                       /\ l.first < l.last /\ l.last <= leg
                       /\ l.last - l.first - 1 <= MaxIntermediates
    /\ {l.first : l \in mine} \cup {leg} = {l.last : l \in mine} \cup {1}
    /\ \A l1, l2 \in mine : l1.first = l2.first \/ l1.last = l2.last => l1 = l2
    /\ leg > 1 => vehicle \in Vehicles /\ leg < result[vehicle]

\* Nothing is half drawn once drawing has ended or has come to the end.
NothingHalfDrawn ==
    /\ phase = "ended" \/ vehicle \notin Vehicles => mine = {}
    /\ phase = "ended" => leg = 1

\* Boxes are shown after the drawing, for what is kept.
BoxesOfKept ==
    /\ phase = "drawing" => DOMAIN boxes = {}
    /\ DOMAIN boxes \subseteq DOMAIN kept
    /\ \A v \in DOMAIN boxes : boxes[v] \in BOOLEAN

DrawingInv ==
    /\ TypeOK
    /\ PartialRoute
    /\ NothingHalfDrawn
    /\ BoxesOfKept
    /\ NothingStray
    /\ KeptAreWhole
    /\ EveryVehicleAccounted

-----------------------------------------------------------------------------

\* What the types say about the result that is drawn.
LEMMA ResultFacts ==
    ASSUME TypeOK
    PROVE  /\ result \in Seq(Nat) /\ Len(result) \in Nat
           /\ vehicle \in Nat /\ vehicle >= 1 /\ vehicle <= Len(result) + 1
           /\ vehicle \in Vehicles => result[vehicle] \in Nat
<1>1. result \in Seq(Nat)
  BY DrawingAssumption, EmptySeq DEF TypeOK
<1>2. Len(result) \in Nat
  BY <1>1, LenProperties
<1> QED BY <1>1, <1>2 DEF TypeOK, Vehicles

\* A leg that is drawn starts before it ends and is as long as Google allows.
LEMMA LegFacts ==
    ASSUME TypeOK, PartialRoute, vehicle \in Vehicles, Drawable,
           NEW end, end = LegEnd(result[vehicle])
    PROVE  /\ leg \in Nat /\ leg >= 1 /\ end \in Nat
           /\ leg < end /\ end <= result[vehicle]
           /\ end - leg - 1 <= MaxIntermediates
<1>1. result[vehicle] \in Nat /\ result[vehicle] >= 3
  BY ResultFacts DEF Drawable
<1>2. leg \in Nat /\ leg >= 1 /\ leg < result[vehicle]
  BY <1>1 DEF TypeOK, PartialRoute
<1> QED BY <1>1, <1>2, DrawingAssumption DEF LegEnd

\* The polylines of different vehicles are different.
LEMMA OwnLegs ==
    ASSUME PartialRoute, KeptAreWhole
    PROVE  /\ \A v \in DOMAIN kept : \A l \in kept[v] : l.vehicle = v
           /\ \A l \in mine : l.vehicle = vehicle
BY DEF PartialRoute, KeptAreWhole, WholeRoute

\* Clearing takes off the map all there is.
LEMMA MapIsCleared ==
    ASSUME DrawingInv, phase = "ended"
    PROVE  onMap \ Known = {}
BY DEF DrawingInv, NothingHalfDrawn, NothingStray, Unticked, Known

LEMMA InitDrawing == Init => DrawingInv
<1> SUFFICES ASSUME Init PROVE DrawingInv
  OBVIOUS
<1>1. Vehicles = {} /\ Len(result) = 0
  BY DEF Init, Vehicles
<1>2. TypeOK
  BY <1>1, DrawingAssumption DEF Init, TypeOK, NoBoxes
<1>3. PartialRoute /\ NothingHalfDrawn /\ BoxesOfKept
  BY <1>1 DEF Init, PartialRoute, NothingHalfDrawn, BoxesOfKept, NoBoxes
<1>4. NothingStray
  BY DEF Init, NothingStray, Unticked, NoBoxes
<1>5. KeptAreWhole
  BY DEF Init, KeptAreWhole
<1>6. EveryVehicleAccounted
  BY <1>1 DEF Init, EveryVehicleAccounted
<1> QED BY <1>2, <1>3, <1>4, <1>5, <1>6 DEF DrawingInv

\* A new result, and a cleared map.
LEMMA FreshKeepsDrawing ==
    ASSUME DrawingInv, (\E r \in Results : Begin(r)) \/ ClearMap
    PROVE  DrawingInv'
<1>0. TypeOK /\ phase = "ended" /\ onMap \ Known = {}
  BY MapIsCleared DEF DrawingInv, Begin, ClearMap
<1>1. /\ result' \in Results \cup {<<>>} /\ vehicle' = 1 /\ leg' = 1 /\ mine' = {}
      /\ onMap' = {} /\ kept' = [v \in {} |-> {}] /\ failures' = {} /\ boxes' = NoBoxes
      /\ phase' \in {"ended", "drawing"} /\ round' \in 0..MaxDrawings
  BY <1>0, DrawingAssumption DEF Begin, ClearMap, DrawingInv, NothingHalfDrawn, TypeOK
<1>2. Len(result') \in Nat
  BY <1>1, DrawingAssumption, EmptySeq, LenProperties
<1>3. DOMAIN kept' = {} /\ DOMAIN boxes' = {}
  BY <1>1 DEF NoBoxes
<1>4. TypeOK'
  BY <1>1, <1>2, <1>3 DEF TypeOK, Vehicles
<1>5. PartialRoute' /\ NothingHalfDrawn' /\ BoxesOfKept'
  BY <1>1, <1>3 DEF PartialRoute, NothingHalfDrawn, BoxesOfKept
<1>6. NothingStray' /\ KeptAreWhole'
  BY <1>1, <1>3 DEF NothingStray, KeptAreWhole, Unticked
<1>7. EveryVehicleAccounted'
  BY <1>1, <1>2, <1>3 DEF EveryVehicleAccounted, Vehicles
<1> QED BY <1>4, <1>5, <1>6, <1>7 DEF DrawingInv

\* The drawing ends, for want of a library or because every vehicle had its turn.
LEMMA EndKeepsDrawing ==
    ASSUME DrawingInv, LibraryMissing \/ Finish
    PROVE  DrawingInv'
<1>1. /\ UNCHANGED <<round, result, vehicle, leg, mine, kept, onMap, failures>>
      /\ phase = "drawing" /\ phase' = "ended"
      /\ boxes' = boxes \/ boxes' = [v \in DOMAIN kept |-> TRUE]
  BY DEF LibraryMissing, Finish
<1>2. mine = {} /\ leg = 1
  <2>1. mine = {}
    BY DEF LibraryMissing, Finish, DrawingInv, NothingHalfDrawn
  <2>2. {leg} = {1}
    BY <2>1 DEF DrawingInv, PartialRoute
  <2> QED BY <2>1, <2>2
<1>3. /\ DOMAIN boxes' \subseteq DOMAIN kept
      /\ \A v \in DOMAIN boxes' : boxes'[v] = TRUE
  BY <1>1 DEF DrawingInv, BoxesOfKept
<1>4. Unticked' = {} /\ Unticked = {}
  BY <1>1, <1>3 DEF Unticked, DrawingInv, BoxesOfKept
<1>5. TypeOK'
  BY <1>1, <1>3 DEF DrawingInv, TypeOK, Vehicles
<1>6. PartialRoute' /\ KeptAreWhole' /\ EveryVehicleAccounted'
  BY ZenonT(30), <1>1 DEF DrawingInv, PartialRoute, KeptAreWhole, WholeRoute, EveryVehicleAccounted,
     Vehicles
<1>7. NothingHalfDrawn' /\ BoxesOfKept'
  BY <1>1, <1>2, <1>3 DEF NothingHalfDrawn, BoxesOfKept
<1>8. NothingStray'
  BY <1>1, <1>4 DEF DrawingInv, NothingStray
<1> QED BY <1>5, <1>6, <1>7, <1>8 DEF DrawingInv

\* One more leg, the first point of the next leg being the last one of this.
LEMMA LegKeepsDrawing ==
    ASSUME DrawingInv, LegDrawn
    PROVE  DrawingInv'
<1> DEFINE end == LegEnd(result[vehicle])
           new == Leg(vehicle, leg, end)
<1>0. TypeOK /\ PartialRoute
  BY DEF DrawingInv
<1>1. /\ leg \in Nat /\ leg >= 1 /\ end \in Nat
      /\ leg < end /\ end < result[vehicle] /\ end - leg - 1 <= MaxIntermediates
      /\ result[vehicle] \in Nat
  BY <1>0, LegFacts, ResultFacts DEF LegDrawn
<1>2. /\ vehicle \in Vehicles /\ phase = "drawing"
      /\ mine' = mine \cup {new} /\ onMap' = onMap \cup {new} /\ leg' = end
      /\ UNCHANGED <<round, result, phase, vehicle, kept, failures, boxes>>
  BY DEF LegDrawn
<1>3. new.round = round /\ new.vehicle = vehicle /\ new.first = leg /\ new.last = end
  BY DEF Leg
<1> HIDE DEF end, new
<1>4. TypeOK'
  BY <1>0, <1>1, <1>2 DEF TypeOK, Vehicles
<1>5. PartialRoute'
  <2>1. \A l \in mine' : /\ l.round = round' /\ l.vehicle = vehicle'
                         /\ l.first \in Nat /\ l.last \in Nat
                         /\ l.first < l.last /\ l.last <= leg'
                         /\ l.last - l.first - 1 <= MaxIntermediates
    BY <1>0, <1>1, <1>2, <1>3 DEF PartialRoute
  <2>2. {l.first : l \in mine'} \cup {leg'} = {l.last : l \in mine'} \cup {1}
    <3>1. /\ {l.first : l \in mine'} = {l.first : l \in mine} \cup {leg}
          /\ {l.last : l \in mine'} = {l.last : l \in mine} \cup {leg'}
      BY <1>2, <1>3
    <3>2. {l.first : l \in mine} \cup {leg} = {l.last : l \in mine} \cup {1}
      BY <1>0 DEF PartialRoute
    <3> QED BY <3>1, <3>2
  <2>3. ASSUME NEW l \in mine
        PROVE  l.first # new.first /\ l.last # new.last
    BY <1>0, <1>1, <1>3 DEF PartialRoute
  <2>4. \A l1, l2 \in mine' : l1.first = l2.first \/ l1.last = l2.last => l1 = l2
    BY <1>0, <1>2, <2>3 DEF PartialRoute
  <2>5. leg' > 1 => vehicle' \in Vehicles' /\ leg' < result'[vehicle']
    BY <1>1, <1>2 DEF Vehicles
  <2> QED BY <2>1, <2>2, <2>4, <2>5 DEF PartialRoute
<1>6. NothingHalfDrawn' /\ BoxesOfKept'
  BY <1>2 DEF DrawingInv, NothingHalfDrawn, BoxesOfKept, Vehicles
<1>7. NothingStray'
  BY <1>2 DEF DrawingInv, NothingStray, Unticked
<1>8. KeptAreWhole' /\ EveryVehicleAccounted'
  BY ZenonT(30), <1>2 DEF DrawingInv, KeptAreWhole, WholeRoute, EveryVehicleAccounted, Vehicles
<1> QED BY <1>4, <1>5, <1>6, <1>7, <1>8 DEF DrawingInv

\* The turn passes to the next vehicle, and the one whose turn it was is
\* accounted for.
LEMMA TurnPasses ==
    ASSUME DrawingInv, vehicle \in Vehicles, phase = "drawing", NextVehicle,
           UNCHANGED <<round, result, phase, boxes>>,
           \/ DOMAIN kept' = DOMAIN kept \cup {vehicle} /\ failures' = failures
           \/ DOMAIN kept' = DOMAIN kept /\ failures' = failures \cup {vehicle}
    PROVE  /\ TypeOK' /\ PartialRoute' /\ NothingHalfDrawn' /\ BoxesOfKept'
           /\ EveryVehicleAccounted'
<1>0. /\ TypeOK /\ vehicle \in Nat /\ Len(result) \in Nat
      /\ vehicle \in 1..Len(result) /\ vehicle' = vehicle + 1 /\ leg' = 1 /\ mine' = {}
      /\ Vehicles' = Vehicles
  BY ResultFacts DEF DrawingInv, NextVehicle, Vehicles
<1>1. TypeOK'
  <2>1. vehicle' \in 1..(Len(result') + 1)
    BY <1>0
  <2>2. DOMAIN kept' \subseteq Vehicles' /\ failures' \subseteq Vehicles'
    BY <1>0 DEF TypeOK
  <2> QED BY <1>0, <2>1, <2>2 DEF TypeOK
<1>2. PartialRoute' /\ NothingHalfDrawn'
  BY <1>0 DEF PartialRoute, NothingHalfDrawn
<1>3. BoxesOfKept'
  BY DEF DrawingInv, BoxesOfKept
<1>4. {v \in Vehicles : v < vehicle'} = {v \in Vehicles : v < vehicle} \cup {vehicle}
  BY <1>0 DEF Vehicles
<1>5. vehicle \notin {v \in Vehicles : v < vehicle}
  BY <1>0
<1>6. EveryVehicleAccounted'
  BY <1>0, <1>4, <1>5 DEF DrawingInv, EveryVehicleAccounted
<1> QED BY <1>1, <1>2, <1>3, <1>6

LEMMA LastLegKeepsDrawing ==
    ASSUME DrawingInv, LastLegDrawn
    PROVE  DrawingInv'
<1> DEFINE end == LegEnd(result[vehicle])
           last == Leg(vehicle, leg, end)
<1>0. TypeOK /\ PartialRoute
  BY DEF DrawingInv
<1>1. /\ leg \in Nat /\ leg >= 1 /\ end \in Nat
      /\ leg < end /\ end = result[vehicle] /\ end - leg - 1 <= MaxIntermediates
  BY <1>0, LegFacts DEF LastLegDrawn
<1>2. /\ vehicle \in Vehicles /\ phase = "drawing"
      /\ onMap' = onMap \cup {last}
      /\ kept' = [v \in DOMAIN kept \cup {vehicle} |->
                     IF v = vehicle THEN mine \cup {last} ELSE kept[v]]
      /\ NextVehicle
      /\ UNCHANGED <<round, result, phase, failures, boxes>>
  BY DEF LastLegDrawn, Place
<1>3. /\ last.round = round /\ last.vehicle = vehicle /\ last.first = leg /\ last.last = end
  BY DEF Leg
<1> HIDE DEF end, last
<1>4. vehicle \notin DOMAIN kept
  BY <1>0, ResultFacts DEF DrawingInv, EveryVehicleAccounted
<1>5. /\ DOMAIN kept' = DOMAIN kept \cup {vehicle}
      /\ kept'[vehicle] = mine \cup {last}
      /\ \A v \in DOMAIN kept : kept'[v] = kept[v]
  BY <1>2, <1>4
<1>6. /\ TypeOK' /\ PartialRoute' /\ NothingHalfDrawn' /\ BoxesOfKept'
      /\ EveryVehicleAccounted'
  BY <1>2, <1>5, TurnPasses
<1>7. KeptAreWhole'
  <2>1. \A v \in DOMAIN kept : WholeRoute(v, kept[v])
    BY DEF DrawingInv, KeptAreWhole
  <2>2. WholeRoute(vehicle, mine \cup {last})
    <3>1. \A l \in mine \cup {last} : /\ l.round = round /\ l.vehicle = vehicle
                                      /\ l.first < l.last
                                      /\ l.last - l.first - 1 <= MaxIntermediates
      BY <1>0, <1>1, <1>3 DEF PartialRoute
    <3>2. {l.first : l \in mine \cup {last}} \cup {result[vehicle]}
            = {l.last : l \in mine \cup {last}} \cup {1}
      <4>1. /\ {l.first : l \in mine \cup {last}} = {l.first : l \in mine} \cup {leg}
            /\ {l.last : l \in mine \cup {last}} = {l.last : l \in mine} \cup {end}
        BY <1>3
      <4>2. {l.first : l \in mine} \cup {leg} = {l.last : l \in mine} \cup {1}
        BY <1>0 DEF PartialRoute
      <4> QED BY <1>1, <4>1, <4>2
    <3>3. ASSUME NEW l \in mine
          PROVE  l.first # last.first /\ l.last # last.last
      BY <1>0, <1>1, <1>3 DEF PartialRoute
    <3>4. \A l1, l2 \in mine \cup {last} :
             l1.first = l2.first \/ l1.last = l2.last => l1 = l2
      BY <1>0, <3>3 DEF PartialRoute
    <3> QED BY <3>1, <3>2, <3>4 DEF WholeRoute
  <2>3. \A v \in DOMAIN kept' : WholeRoute(v, kept'[v])
    BY <1>4, <1>5, <2>1, <2>2
  <2>4. round' = round /\ result' = result
    BY <1>2
  <2> QED BY <2>3, <2>4 DEF KeptAreWhole, WholeRoute
<1>8. NothingStray'
  <2>1. Unticked = {} /\ Unticked' = {} /\ mine' = {}
    BY <1>2 DEF DrawingInv, BoxesOfKept, Unticked, NextVehicle
  <2>2. onMap = mine \cup UNION {kept[v] : v \in DOMAIN kept}
    BY <2>1 DEF DrawingInv, NothingStray
  <2>3. UNION {kept'[v] : v \in DOMAIN kept'}
          = (mine \cup {last}) \cup UNION {kept[v] : v \in DOMAIN kept}
    BY <1>5
  <2>4. onMap' = UNION {kept'[v] : v \in DOMAIN kept'}
    BY <1>2, <2>2, <2>3
  <2>5. DOMAIN kept' \ Unticked' = DOMAIN kept'
    BY <2>1
  <2> QED BY <2>1, <2>4, <2>5 DEF NothingStray
<1> QED BY <1>6, <1>7, <1>8 DEF DrawingInv

\* What a vehicle that fails has drawn is taken back.
LEMMA FailureKeepsDrawing ==
    ASSUME DrawingInv, RouteFails
    PROVE  DrawingInv'
<1>1. /\ vehicle \in Vehicles /\ phase = "drawing"
      /\ onMap' = onMap \ mine /\ failures' = failures \cup {vehicle}
      /\ NextVehicle
      /\ UNCHANGED <<round, result, phase, kept, boxes>>
  BY DEF RouteFails, TakenBack
<1>2. /\ TypeOK' /\ PartialRoute' /\ NothingHalfDrawn' /\ BoxesOfKept'
      /\ EveryVehicleAccounted'
  BY <1>1, TurnPasses
<1>3. KeptAreWhole'
  BY <1>1 DEF DrawingInv, KeptAreWhole, WholeRoute
<1>4. NothingStray'
  <2>1. Unticked' = {} /\ Unticked = {} /\ mine' = {}
    BY <1>1 DEF DrawingInv, BoxesOfKept, Unticked, NextVehicle
  <2>2. onMap = mine \cup UNION {kept[v] : v \in DOMAIN kept}
    BY <2>1 DEF DrawingInv, NothingStray
  <2>3. vehicle \notin DOMAIN kept
    BY ResultFacts DEF DrawingInv, EveryVehicleAccounted
  <2>4. \A v \in DOMAIN kept : kept[v] \cap mine = {}
    BY <2>3, OwnLegs DEF DrawingInv
  <2>5. onMap' = UNION {kept[v] : v \in DOMAIN kept}
    BY <1>1, <2>2, <2>4
  <2> QED BY <1>1, <2>1, <2>5 DEF NothingStray
<1> QED BY <1>2, <1>3, <1>4 DEF DrawingInv

\* A box takes one route off the map, or puts it back.
LEMMA ToggleKeepsDrawing ==
    ASSUME DrawingInv, NEW v \in Vehicles, Toggle(v)
    PROVE  DrawingInv'
<1>1. /\ phase = "ended" /\ v \in DOMAIN boxes
      /\ boxes' = [boxes EXCEPT ![v] = ~boxes[v]]
      /\ onMap' = IF boxes'[v] THEN onMap \cup kept[v] ELSE onMap \ kept[v]
      /\ UNCHANGED <<round, result, phase, vehicle, leg, mine, kept, failures>>
  BY DEF Toggle
<1>2. /\ DOMAIN boxes' = DOMAIN boxes
      /\ boxes'[v] = ~boxes[v]
      /\ \A u \in DOMAIN boxes \ {v} : boxes'[u] = boxes[u]
  BY <1>1
<1>3. /\ boxes[v] \in BOOLEAN
      /\ DOMAIN boxes \subseteq DOMAIN kept
      /\ mine = {}
  BY <1>1 DEF DrawingInv, BoxesOfKept, NothingHalfDrawn
<1>4. TypeOK'
  BY <1>1, <1>2 DEF DrawingInv, TypeOK, Vehicles
<1>5. PartialRoute' /\ NothingHalfDrawn' /\ KeptAreWhole' /\ EveryVehicleAccounted'
  BY ZenonT(30), <1>1 DEF DrawingInv, PartialRoute, NothingHalfDrawn, KeptAreWhole, WholeRoute,
     EveryVehicleAccounted, Vehicles
<1>6. BoxesOfKept'
  BY <1>1, <1>2 DEF DrawingInv, BoxesOfKept
<1>7. NothingStray'
  <2>1. onMap = UNION {kept[u] : u \in DOMAIN kept \ Unticked}
    BY <1>3 DEF DrawingInv, NothingStray
  <2>2. \A u \in DOMAIN kept \ {v} : kept[u] \cap kept[v] = {}
    BY <1>1, <1>3, OwnLegs DEF DrawingInv
  <2>3. CASE boxes[v]
    <3>1. Unticked' = Unticked \cup {v} /\ v \notin Unticked
      BY <1>1, <1>2, <2>3 DEF Unticked
    <3>2. onMap' = onMap \ kept[v]
      BY <1>1, <1>2, <2>3
    <3>3. UNION {kept[u] : u \in DOMAIN kept \ (Unticked \cup {v})} = onMap \ kept[v]
      BY <1>1, <1>3, <2>1, <2>2
    <3> QED BY <1>1, <1>3, <3>1, <3>2, <3>3 DEF NothingStray
  <2>4. CASE ~boxes[v]
    <3>1. Unticked' = Unticked \ {v} /\ v \in Unticked
      BY <1>1, <1>2, <2>4 DEF Unticked
    <3>2. onMap' = onMap \cup kept[v]
      BY <1>1, <1>2, <2>4
    <3>3. UNION {kept[u] : u \in DOMAIN kept \ (Unticked \ {v})} = onMap \cup kept[v]
      BY <1>1, <1>3, <2>1, <3>1
    <3> QED BY <1>1, <1>3, <3>1, <3>2, <3>3 DEF NothingStray
  <2> QED BY <1>3, <2>3, <2>4
<1> QED BY <1>4, <1>5, <1>6, <1>7 DEF DrawingInv

LEMMA NextDrawing == DrawingInv /\ [Next]_drawVars => DrawingInv'
<1> SUFFICES ASSUME DrawingInv, [Next]_drawVars PROVE DrawingInv'
  OBVIOUS
<1>1. CASE UNCHANGED drawVars
  <2>1. UNCHANGED <<round, result, phase, vehicle, leg, mine, kept, onMap, failures, boxes>>
    BY <1>1 DEF drawVars
  <2>2. TypeOK' /\ PartialRoute' /\ NothingHalfDrawn' /\ BoxesOfKept'
    BY <2>1 DEF DrawingInv, TypeOK, PartialRoute, NothingHalfDrawn, BoxesOfKept, Vehicles
  <2>3. NothingStray' /\ EveryVehicleAccounted'
    BY <2>1 DEF DrawingInv, NothingStray, Unticked, EveryVehicleAccounted, Vehicles
  <2>4. KeptAreWhole'
    BY <2>1 DEF DrawingInv, KeptAreWhole, WholeRoute
  <2> QED BY <2>2, <2>3, <2>4 DEF DrawingInv
<1> QED
  BY <1>1, FreshKeepsDrawing, EndKeepsDrawing, LegKeepsDrawing, LastLegKeepsDrawing,
     FailureKeepsDrawing, ToggleKeepsDrawing DEF Next

-----------------------------------------------------------------------------

(***************************************************************************)
(* The theorems                                                            *)
(***************************************************************************)

\* The inductive invariant of the drawing.
THEOREM DrawingInvariant == Spec => []DrawingInv
BY InitDrawing, NextDrawing, PTL DEF Spec

\* Every variable keeps its type.
THEOREM DrawingTypeCorrect == Spec => []TypeOK
<1>1. DrawingInv => TypeOK
  BY DEF DrawingInv
<1> QED BY <1>1, DrawingInvariant, PTL

\* No polyline is on the map but those of a route that is kept and ticked and of
\* the vehicle being drawn (the catch block of renderVehicleRoute, clearRenderedRoutes,
\* the boxes of showRouteSummary).
THEOREM NothingStrayOnMap == Spec => []NothingStray
<1>1. DrawingInv => NothingStray
  BY DEF DrawingInv
<1> QED BY <1>1, DrawingInvariant, PTL

\* splitRouteCoordinates and the loop over its legs cover the route of a vehicle
\* from end to end, without gap or overlap, in pieces that Google takes.
THEOREM KeptRoutesAreWhole == Spec => []KeptAreWhole
<1>1. DrawingInv => KeptAreWhole
  BY DEF DrawingInv
<1> QED BY <1>1, DrawingInvariant, PTL

\* A vehicle that has had its turn is drawn or noted as a failure, and not both.
THEOREM VehiclesAreAccounted == Spec => []EveryVehicleAccounted
<1>1. DrawingInv => EveryVehicleAccounted
  BY DEF DrawingInv
<1> QED BY <1>1, DrawingInvariant, PTL

=============================================================================
