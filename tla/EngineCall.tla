----------------------------- MODULE EngineCall -----------------------------
(***************************************************************************)
(* The way of one request to the optimizer: the serializer that the service*)
(* puts in front (backend/api/serializers.py), and the conversion of Python*)
(* objects (engine/bindings.cpp) up to validate_inputs.  Whoever calls the *)
(* module directly, as its tests do, passes what the serializer never saw. *)
(*                                                                         *)
(* A Python value is its type and its number; an int may lie outside       *)
(* Finite and then fits no double.  Error texts are left out.              *)
(***************************************************************************)
EXTENDS EngineInput

CONSTANTS
    Bodies,         \* what is sent
    MaxInt          \* INT_MAX

Value(type, number) == [type |-> type, number |-> number]
Missing == Value("missing", 0)

\* "str" stands for every type that is none of the others.
Types == {"int", "float", "bool", "str", "dict", "list", "missing"}

Values      == [type : Types, number : Int]
PlaceValues == [type : Types, lat : Values, lng : Values, unknown : BOOLEAN]

\* What json.loads, or a caller, can put together of these.
Requests ==
    [ depot        : PlaceValues,
      stops        : [type : Types, items : Seq(PlaceValues)],
      num_vehicles : Values,
      unknown      : BOOLEAN ]

ASSUME EngineCallAssumption ==
    /\ Bodies \subseteq Requests
    /\ MaxInt \in Nat /\ MaxInt >= MaxStops

VARIABLES
    caller,         \* "service" or "direct"
    body,           \* the request, or the arguments of a direct call
    stage,          \* what comes next
    depot, stops,   \* converted so far
    outcome         \* what the caller gets: a result, a 400, an exception

vars == <<caller, body, stage, depot, stops, outcome>>

Object(lat, lng) == [type |-> "dict", lat |-> lat, lng |-> lng, unknown |-> FALSE]
Body(d, s, v) == [depot |-> d, stops |-> s, num_vehicles |-> v, unknown |-> FALSE]

\* isinstance: a bool is an int.
IsInstance(value, type) == value.type = type \/ (type = "int" /\ value.type = "bool")

\* What float() and py::cast<double> can convert.
FitsDouble(value) == value.type = "float" \/ value.number \in Finite

-----------------------------------------------------------------------------

(***************************************************************************)
(* The serializer                                                          *)
(***************************************************************************)

\* FiniteFloatField with its min_value and max_value
IsFiniteFloat(value, limit) ==
    /\ ~IsInstance(value, "bool")
    /\ IsInstance(value, "int") \/ IsInstance(value, "float")
    /\ FitsDouble(value)
    /\ IsFinite(value.number)
    /\ ~Less(value.number, -limit) /\ ~Less(limit, value.number)

\* StrictIntegerField with its min_value and max_value
IsStrictInteger_Exclusive(value, least, most) ==
    /\ ~IsInstance(value, "bool") /\ IsInstance(value, "int")
    /\ value.number \in least..(most - 1)
IsStrictInteger(value, least, most) ==
    /\ ~IsInstance(value, "bool") /\ IsInstance(value, "int")
    /\ value.number \in least..most

\* CoordinateSerializer; StrictSerializer refuses unknown fields.
IsCoordinateField(value) ==
    /\ value.type = "dict" /\ ~value.unknown
    /\ IsFiniteFloat(value.lat, 90)
    /\ IsFiniteFloat(value.lng, 180)

\* validate
FitsStops_Any(b) == TRUE
FitsStops(b) == b.num_vehicles.number <= Len(b.stops.items)

\* OptimizationRequestSerializer.is_valid
IsValidRequest(b) ==
    /\ ~b.unknown
    /\ IsCoordinateField(b.depot)
    /\ b.stops.type = "list" /\ Len(b.stops.items) \in 1..MaxStops
    /\ \A i \in 1..Len(b.stops.items) : IsCoordinateField(b.stops.items[i])
    /\ IsStrictInteger(b.num_vehicles, 1, MaxStops)
    /\ FitsStops(b)

\* OptimizationListView.post turns the body away (with a 400, or however the
\* framework takes what float() raises for an int that fits no double), or
\* _run_engine gets validated_data: numbers are floats, the vehicles are not.
Serialize ==
    /\ stage = "serialize"
    /\ IF IsValidRequest(body)
       THEN LET AsFloats(c) == Object(Value("float", c.lat.number), Value("float", c.lng.number))
            IN  /\ body' = [body EXCEPT
                      !.depot = AsFloats(@),
                      !.stops.items = [i \in DOMAIN @ |-> AsFloats(@[i])]]
                /\ stage' = "signature"
                /\ UNCHANGED outcome
       ELSE /\ outcome' = "rejected"
            /\ stage' = "over"
            /\ UNCHANGED body
    /\ UNCHANGED <<caller, depot, stops>>

-----------------------------------------------------------------------------

(***************************************************************************)
(* The bindings                                                            *)
(***************************************************************************)

\* Either the check that is made at a stage passes, or its exception leaves the
\* module.
Check(now, passes, error, next) ==
    /\ stage = now
    /\ stage' = IF passes THEN next ELSE "over"
    /\ outcome' = IF passes THEN outcome ELSE error

\* pybind11 matches the signature of optimize_routes: a dict, a list, an object.
MatchSignature ==
    /\ Check("signature",
             /\ body.depot.type = "dict" /\ body.stops.type = "list"
             /\ body.num_vehicles # Missing,
             "TypeError", "vehicles")
    /\ UNCHANGED <<caller, body, depot, stops>>

CheckVehicles ==
    /\ Check("vehicles",
             ~IsInstance(body.num_vehicles, "bool") /\ IsInstance(body.num_vehicles, "int"),
             "ValueError", "depot")
    /\ UNCHANGED <<caller, body, depot, stops>>

\* is_python_number
IsPythonNumber_BoolToo(value) == IsInstance(value, "int") \/ IsInstance(value, "float")
IsPythonNumber(value) ==
    ~IsInstance(value, "bool") /\ (IsInstance(value, "int") \/ IsInstance(value, "float"))

\* coordinate_from_dict: what it converts, and to what.
IsConvertible(value) ==
    /\ Missing \notin {value.lat, value.lng}
    /\ IsPythonNumber(value.lat) /\ IsPythonNumber(value.lng)
    /\ FitsDouble(value.lat) /\ FitsDouble(value.lng)
Converted(value) == Coordinate(value.lat.number, value.lng.number)

ConvertDepot ==
    /\ Check("depot", IsConvertible(body.depot), "ValueError", "stops")
    /\ depot' = IF IsConvertible(body.depot) THEN Converted(body.depot) ELSE depot
    /\ UNCHANGED <<caller, body, stops>>

\* stops_from_list, one turn of its loop
ConvertStop ==
    /\ Len(stops) < Len(body.stops.items)
    /\ LET value == body.stops.items[Len(stops) + 1]
           convertible == value.type = "dict" /\ IsConvertible(value)
       IN  /\ Check("stops", convertible, "ValueError", "stops")
           /\ stops' = IF convertible THEN Append(stops, Converted(value)) ELSE stops
    /\ UNCHANGED <<caller, body, depot>>

\* py::cast<int>; what it throws is a RuntimeError in Python.
CastVehicles ==
    /\ Len(stops) = Len(body.stops.items)
    /\ Check("stops", body.num_vehicles.number \in (-MaxInt - 1)..MaxInt,
             "RuntimeError", "solve")
    /\ UNCHANGED <<caller, body, depot, stops>>

\* optiroute::optimize_routes throws std::invalid_argument, or its result is
\* converted.
Solve ==
    /\ stage = "solve"
    /\ stage' = "over"
    /\ outcome' = IF IsValidInput(depot, stops, body.num_vehicles.number)
                  THEN "result" ELSE "ValueError"
    /\ UNCHANGED <<caller, body, depot, stops>>

-----------------------------------------------------------------------------

Init ==
    /\ caller \in {"service", "direct"}
    /\ body \in Bodies
    /\ stage = IF caller = "service" THEN "serialize" ELSE "signature"
    /\ depot = Coordinate(0, 0)
    /\ stops = <<>>
    /\ outcome = "none"

Next ==
    \/ Serialize
    \/ MatchSignature
    \/ CheckVehicles
    \/ ConvertDepot
    \/ ConvertStop
    \/ CastVehicles
    \/ Solve

Spec == Init /\ [][Next]_vars

-----------------------------------------------------------------------------

(***************************************************************************)
(* Properties                                                              *)
(***************************************************************************)

\* What the docstring of the module and the API ask for, in one place.
IsNumberUpTo(value, limit) ==
    value.type \in {"int", "float"} /\ value.number \in -limit..limit
IsPlace(value) ==
    value.type = "dict" /\ IsNumberUpTo(value.lat, 90) /\ IsNumberUpTo(value.lng, 180)
WellFormed(b) ==
    /\ IsPlace(b.depot)
    /\ b.stops.type = "list" /\ Len(b.stops.items) \in 1..MaxStops
    /\ \A i \in 1..Len(b.stops.items) : IsPlace(b.stops.items[i])
    /\ b.num_vehicles.type = "int" /\ b.num_vehicles.number \in 1..Len(b.stops.items)

HasUnknownField(b) ==
    \/ b.unknown \/ (b.depot.type = "dict" /\ b.depot.unknown)
    \/ \E i \in 1..Len(b.stops.items) :
          b.stops.items[i].type = "dict" /\ b.stops.items[i].unknown

\* A direct call returns a result for well-formed arguments and for no others,
\* although the conversions, which run first, know no limits and validate_inputs
\* knows no types.
SolvedIffWellFormed ==
    caller = "direct" /\ stage = "over" => (outcome = "result" <=> WellFormed(body))

\* What the serializer lets through, neither the bindings nor validate_inputs
\* refuse: no task fails because of what its input is.  That optimize_routes then
\* returns is not said here but by Terminates, where it holds.
AcceptedIsSolved ==
    caller = "service" /\ stage = "over" => outcome \in {"result", "rejected"}

\* The serializer turns nothing away that the engine would have solved, but for
\* unknown fields.
RejectedForCause ==
    outcome = "rejected" => ~WellFormed(body) \/ HasUnknownField(body)

=============================================================================
