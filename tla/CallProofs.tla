------------------------------ MODULE CallProofs ------------------------------
(***************************************************************************)
(* Proofs about EngineCall, for requests of any size and with any numbers: *)
(* the serializer, the conversions and validate_inputs, each with tests of *)
(* its own, agree on what a well-formed request is.                        *)
(***************************************************************************)
EXTENDS EngineCall, SequenceTheorems, TLAPS

-----------------------------------------------------------------------------

(***************************************************************************)
(* What the layers test, for one value, one place and a whole request      *)
(***************************************************************************)

\* Within a limit: the tests of the serializer and of validate_coordinate, made
\* with the < of doubles, and the plain one.
LEMMA WithinLimit ==
    ASSUME NEW n \in Int, NEW limit \in {90, 180}
    PROVE  /\ IsFinite(n) /\ ~Less(n, -limit) /\ ~Less(limit, n) <=> n \in -limit..limit
           /\ n \in -limit..limit => n \in Finite
BY DEF IsFinite, Finite, Less, NaN

\* A place is what coordinate_from_dict converts and validate_coordinate accepts.
LEMMA PlaceIsConvertibleAndValid ==
    ASSUME NEW value \in PlaceValues
    PROVE  IsPlace(value) <=> /\ value.type = "dict"
                              /\ IsConvertible(value)
                              /\ IsValidCoordinate(Converted(value))
<1>1. /\ value.lat \in Values /\ value.lng \in Values
      /\ value.lat.number \in Int /\ value.lng.number \in Int
  BY DEF PlaceValues, Values
<1>2. ASSUME NEW v \in Values
      PROVE  /\ v # Missing /\ IsPythonNumber(v) <=> v.type \in {"int", "float"} /\ v # Missing
             /\ v.type \in {"int", "float"} => v # Missing
  BY DEF IsPythonNumber, IsInstance, Missing, Value
<1>3. /\ Converted(value).lat = value.lat.number
      /\ Converted(value).lng = value.lng.number
  BY DEF Converted, Coordinate
<1>4. IsValidCoordinate(Converted(value)) <=>
        value.lat.number \in -90..90 /\ value.lng.number \in -180..180
  BY SMTT(30), <1>1, <1>3, WithinLimit DEF IsValidCoordinate
<1>5. IsConvertible(value) <=>
        /\ value.lat.type \in {"int", "float"} /\ value.lng.type \in {"int", "float"}
        /\ FitsDouble(value.lat) /\ FitsDouble(value.lng)
  BY <1>1, <1>2 DEF IsConvertible
<1>6. /\ value.lat.number \in -90..90 => value.lat.number \in Finite
      /\ value.lng.number \in -180..180 => value.lng.number \in Finite
  BY <1>1, WithinLimit
<1> QED BY <1>4, <1>5, <1>6 DEF IsPlace, IsNumberUpTo, FitsDouble

\* A place without unknown fields is what CoordinateSerializer accepts.
LEMMA PlaceIsField ==
    ASSUME NEW value \in PlaceValues
    PROVE  IsCoordinateField(value) <=> IsPlace(value) /\ ~value.unknown
<1>1. value.lat.number \in Int /\ value.lng.number \in Int
  BY DEF PlaceValues, Values
<1>2. ASSUME NEW v, v.number \in Int, NEW limit \in {90, 180}
      PROVE  IsFiniteFloat(v, limit) <=> IsNumberUpTo(v, limit)
  <2>1. /\ IsFinite(v.number) /\ ~Less(v.number, -limit) /\ ~Less(limit, v.number)
             <=> v.number \in -limit..limit
        /\ v.number \in -limit..limit => v.number \in Finite
    BY <1>2, WithinLimit
  <2> QED BY <2>1 DEF IsFiniteFloat, IsNumberUpTo, IsInstance, FitsDouble
<1> QED BY <1>1, <1>2 DEF IsCoordinateField, IsPlace

\* The checks of the bindings, all of them, and those of validate_inputs.
ConvertibleStop(value) == value.type = "dict" /\ IsConvertible(value)

Passes(b) ==
    /\ b.depot.type = "dict" /\ b.stops.type = "list" /\ b.num_vehicles # Missing
    /\ ~IsInstance(b.num_vehicles, "bool") /\ IsInstance(b.num_vehicles, "int")
    /\ IsConvertible(b.depot)
    /\ \A i \in 1..Len(b.stops.items) : ConvertibleStop(b.stops.items[i])
    /\ b.num_vehicles.number \in (-MaxInt - 1)..MaxInt

AreConverted(converted, items) ==
    /\ Len(converted) <= Len(items)
    /\ \A i \in 1..Len(converted) :
          ConvertibleStop(items[i]) /\ converted[i] = Converted(items[i])

\* What json.loads makes of a body and what a caller passes has these parts.
LEMMA RequestParts ==
    ASSUME NEW b \in Requests
    PROVE  /\ b.depot \in PlaceValues /\ b.num_vehicles \in Values
           /\ b.num_vehicles.number \in Int
           /\ b.stops.items \in Seq(PlaceValues) /\ Len(b.stops.items) \in Nat
           /\ \A i \in 1..Len(b.stops.items) : b.stops.items[i] \in PlaceValues
<1>1. /\ b.depot \in PlaceValues /\ b.num_vehicles \in Values
      /\ b.stops.items \in Seq(PlaceValues)
  BY DEF Requests
<1>2. b.num_vehicles.number \in Int
  BY <1>1 DEF Values
<1> QED BY <1>1, <1>2, LenProperties, ElementOfSeq

\* A request is well formed if and only if every check lets it pass.
LEMMA WellFormedPasses ==
    ASSUME NEW b \in Requests, NEW s, AreConverted(s, b.stops.items),
           Len(s) = Len(b.stops.items)
    PROVE  WellFormed(b) <=>
              /\ Passes(b)
              /\ IsValidInput(Converted(b.depot), s, b.num_vehicles.number)
<1> DEFINE items == b.stops.items
<1>0. /\ b.depot \in PlaceValues /\ b.num_vehicles \in Values /\ b.num_vehicles.number \in Int
      /\ Len(items) \in Nat /\ \A i \in 1..Len(items) : items[i] \in PlaceValues
  BY RequestParts
<1> HIDE DEF items
<1>1. IsPlace(b.depot) <=> /\ b.depot.type = "dict" /\ IsConvertible(b.depot)
                           /\ IsValidCoordinate(Converted(b.depot))
  BY <1>0, PlaceIsConvertibleAndValid
<1>2. \A i \in 1..Len(items) :
         ConvertibleStop(items[i]) /\ s[i] = Converted(items[i])
  BY DEF AreConverted, items
<1>3. (\A i \in 1..Len(items) : IsPlace(items[i])) <=>
        /\ \A i \in 1..Len(items) : ConvertibleStop(items[i])
        /\ \A i \in 1..Len(items) : IsValidCoordinate(s[i])
  BY <1>0, <1>2, PlaceIsConvertibleAndValid DEF ConvertibleStop
<1>4. b.num_vehicles.type = "int" <=>
        /\ b.num_vehicles # Missing
        /\ ~IsInstance(b.num_vehicles, "bool") /\ IsInstance(b.num_vehicles, "int")
  BY <1>0 DEF IsInstance, Missing, Value
<1>5. Len(items) \in 1..MaxStops /\ b.num_vehicles.number \in 1..Len(items) =>
        b.num_vehicles.number \in (-MaxInt - 1)..MaxInt
  BY <1>0, EngineInputAssumption, EngineCallAssumption
<1>6. WellFormed(b) <=>
        /\ IsPlace(b.depot)
        /\ b.stops.type = "list" /\ Len(items) \in 1..MaxStops
        /\ \A i \in 1..Len(items) : IsPlace(items[i])
        /\ b.num_vehicles.type = "int" /\ b.num_vehicles.number \in 1..Len(items)
  BY DEF WellFormed, items
<1>7. Passes(b) <=>
        /\ b.depot.type = "dict" /\ b.stops.type = "list" /\ b.num_vehicles # Missing
        /\ ~IsInstance(b.num_vehicles, "bool") /\ IsInstance(b.num_vehicles, "int")
        /\ IsConvertible(b.depot)
        /\ \A i \in 1..Len(items) : ConvertibleStop(items[i])
        /\ b.num_vehicles.number \in (-MaxInt - 1)..MaxInt
  BY DEF Passes, items
<1>8. IsValidInput(Converted(b.depot), s, b.num_vehicles.number) <=>
        /\ IsValidCoordinate(Converted(b.depot))
        /\ Len(items) \in 1..MaxStops
        /\ b.num_vehicles.number \in 1..Len(items)
        /\ \A i \in 1..Len(items) : IsValidCoordinate(s[i])
  BY DEF IsValidInput, items
<1> QED BY <1>1, <1>3, <1>4, <1>5, <1>6, <1>7, <1>8

\* A request that some check does not let pass is not well formed.
LEMMA WellFormedIsConvertible ==
    ASSUME NEW b \in Requests, WellFormed(b)
    PROVE  Passes(b)
<1>0. /\ b.depot \in PlaceValues /\ b.num_vehicles \in Values /\ b.num_vehicles.number \in Int
      /\ Len(b.stops.items) \in Nat
      /\ \A i \in 1..Len(b.stops.items) : b.stops.items[i] \in PlaceValues
  BY RequestParts
<1>1. /\ b.depot.type = "dict" /\ IsConvertible(b.depot)
      /\ \A i \in 1..Len(b.stops.items) : ConvertibleStop(b.stops.items[i])
  BY <1>0, PlaceIsConvertibleAndValid DEF WellFormed, ConvertibleStop
<1>2. /\ b.num_vehicles # Missing
      /\ ~IsInstance(b.num_vehicles, "bool") /\ IsInstance(b.num_vehicles, "int")
  BY DEF WellFormed, IsInstance, Missing, Value
<1>3. b.num_vehicles.number \in (-MaxInt - 1)..MaxInt
  BY <1>0, EngineInputAssumption, EngineCallAssumption DEF WellFormed
<1> QED BY <1>1, <1>2, <1>3 DEF Passes, WellFormed

\* The serializer accepts well-formed requests without unknown fields, and those
\* only.
LEMMA SerializerAccepts ==
    ASSUME NEW b \in Requests
    PROVE  /\ IsValidRequest(b) => WellFormed(b)
           /\ WellFormed(b) /\ ~HasUnknownField(b) => IsValidRequest(b)
<1> DEFINE items == b.stops.items
<1>0. /\ b.depot \in PlaceValues /\ b.num_vehicles \in Values /\ b.num_vehicles.number \in Int
      /\ Len(items) \in Nat /\ \A i \in 1..Len(items) : items[i] \in PlaceValues
  BY RequestParts
<1> HIDE DEF items
<1>1. IsCoordinateField(b.depot) <=> IsPlace(b.depot) /\ ~b.depot.unknown
  BY <1>0, PlaceIsField
<1>2. \A i \in 1..Len(items) :
         IsCoordinateField(items[i]) <=> IsPlace(items[i]) /\ ~items[i].unknown
  BY <1>0, PlaceIsField
<1>3. Len(items) \in 1..MaxStops =>
        (IsStrictInteger(b.num_vehicles, 1, MaxStops) /\ b.num_vehicles.number <= Len(items)
           <=> b.num_vehicles.type = "int" /\ b.num_vehicles.number \in 1..Len(items))
  BY <1>0, EngineInputAssumption DEF IsStrictInteger, IsInstance
<1>4. IsValidRequest(b) <=>
        /\ ~b.unknown
        /\ IsCoordinateField(b.depot)
        /\ b.stops.type = "list" /\ Len(items) \in 1..MaxStops
        /\ \A i \in 1..Len(items) : IsCoordinateField(items[i])
        /\ IsStrictInteger(b.num_vehicles, 1, MaxStops) /\ b.num_vehicles.number <= Len(items)
  BY DEF IsValidRequest, FitsStops, items
<1>5. WellFormed(b) <=>
        /\ IsPlace(b.depot)
        /\ b.stops.type = "list" /\ Len(items) \in 1..MaxStops
        /\ \A i \in 1..Len(items) : IsPlace(items[i])
        /\ b.num_vehicles.type = "int" /\ b.num_vehicles.number \in 1..Len(items)
  BY DEF WellFormed, items
<1>6. ~HasUnknownField(b) =>
        /\ ~b.unknown /\ (b.depot.type = "dict" => ~b.depot.unknown)
        /\ \A i \in 1..Len(items) : items[i].type = "dict" => ~items[i].unknown
  BY DEF HasUnknownField, items
<1>7. /\ IsPlace(b.depot) => b.depot.type = "dict"
      /\ \A i \in 1..Len(items) : IsPlace(items[i]) => items[i].type = "dict"
  BY DEF IsPlace
<1>8. IsValidRequest(b) => WellFormed(b)
  BY <1>1, <1>2, <1>3, <1>4, <1>5
<1>9. WellFormed(b) /\ ~HasUnknownField(b) => IsValidRequest(b)
  BY <1>1, <1>2, <1>3, <1>4, <1>5, <1>6, <1>7
<1> QED BY <1>8, <1>9


-----------------------------------------------------------------------------

(***************************************************************************)
(* The inductive invariant: how far a request has come says what it has    *)
(* passed, and where it has ended says why.                                *)
(***************************************************************************)

AfterSignature == {"vehicles", "depot", "stops", "solve"}
AfterVehicles  == {"depot", "stops", "solve"}
AfterDepot     == {"stops", "solve"}

PassedSoFar ==
    /\ stage \in AfterSignature =>
          body.depot.type = "dict" /\ body.stops.type = "list" /\ body.num_vehicles # Missing
    /\ stage \in AfterVehicles =>
          ~IsInstance(body.num_vehicles, "bool") /\ IsInstance(body.num_vehicles, "int")
    /\ stage \in AfterDepot => IsConvertible(body.depot) /\ depot = Converted(body.depot)
    /\ stage = "solve" =>
          /\ Len(stops) = Len(body.stops.items)
          /\ body.num_vehicles.number \in (-MaxInt - 1)..MaxInt

EndedForCause ==
    /\ stage # "over" => outcome = "none"
    /\ stage = "over" =>
          /\ outcome # "rejected" => (outcome = "result" <=> WellFormed(body))
          /\ outcome = "rejected" => ~IsValidRequest(body)
          /\ caller = "direct" => outcome # "rejected"
          /\ caller = "service" /\ outcome # "rejected" => WellFormed(body)

CallInv ==
    /\ body \in Requests
    /\ stops \in Seq([lat : Int, lng : Int])
    /\ AreConverted(stops, body.stops.items)
    /\ stage \in {"serialize", "signature"} \cup AfterSignature \cup {"over"}
    /\ stage \in {"serialize", "signature", "vehicles", "depot"} => stops = <<>>
    /\ stage = "serialize" => caller = "service"
    /\ caller = "service" /\ stage \notin {"serialize", "over"} => WellFormed(body)
    /\ PassedSoFar
    /\ EndedForCause

LEMMA InitCall == Init => CallInv
<1> SUFFICES ASSUME Init PROVE CallInv
  OBVIOUS
<1>1. body \in Requests
  BY EngineCallAssumption DEF Init
<1>2. stops = <<>> /\ Len(stops) = 0 /\ stops \in Seq([lat : Int, lng : Int])
  BY EmptySeq DEF Init
<1>3. AreConverted(stops, body.stops.items)
  BY <1>1, <1>2, RequestParts DEF AreConverted
<1>4. /\ stage \in {"serialize", "signature"} /\ outcome = "none"
      /\ stage = "serialize" <=> caller = "service"
  BY DEF Init
<1> QED BY <1>1, <1>2, <1>3, <1>4
        DEF CallInv, PassedSoFar, EndedForCause, AfterSignature, AfterVehicles, AfterDepot

\* What the serializer hands on is what it accepted, with floats for numbers.
AsFloat(value) == Object(Value("float", value.lat.number), Value("float", value.lng.number))

LEMMA FloatsStayWellFormed ==
    ASSUME NEW b \in Requests, IsValidRequest(b),
           NEW c, c = [b EXCEPT !.depot = AsFloat(@),
                                !.stops.items = [i \in DOMAIN @ |-> AsFloat(@[i])]]
    PROVE  c \in Requests /\ WellFormed(c)
<1> DEFINE items == b.stops.items
<1>0. /\ b.depot \in PlaceValues /\ b.num_vehicles \in Values
      /\ items \in Seq(PlaceValues) /\ Len(items) \in Nat /\ DOMAIN items = 1..Len(items)
      /\ \A i \in 1..Len(items) : items[i] \in PlaceValues
      /\ b.stops.type \in Types /\ b.unknown \in BOOLEAN
  BY RequestParts, LenProperties DEF Requests
<1>1. WellFormed(b)
  BY SerializerAccepts
<1>2. ASSUME NEW value \in PlaceValues
      PROVE  /\ AsFloat(value) \in PlaceValues
             /\ AsFloat(value).type = "dict"
             /\ AsFloat(value).lat.type = "float" /\ AsFloat(value).lat.number = value.lat.number
             /\ AsFloat(value).lng.type = "float" /\ AsFloat(value).lng.number = value.lng.number
  <2>1. value.lat.number \in Int /\ value.lng.number \in Int
    BY DEF PlaceValues, Values
  <2>2. /\ Value("float", value.lat.number) \in Values
        /\ Value("float", value.lng.number) \in Values
    BY <2>1 DEF Value, Values, Types
  <2>3. AsFloat(value) \in PlaceValues
    BY <2>2 DEF AsFloat, Object, PlaceValues, Types
  <2> QED BY <2>3 DEF AsFloat, Object, Value
<1>3. ASSUME NEW value \in PlaceValues, IsPlace(value)
      PROVE  IsPlace(AsFloat(value))
  BY <1>2, <1>3 DEF IsPlace, IsNumberUpTo
<1>4. /\ c.depot = AsFloat(b.depot) /\ c.num_vehicles = b.num_vehicles /\ c.unknown = b.unknown
      /\ c.stops.type = b.stops.type
      /\ c.stops.items = [i \in 1..Len(items) |-> AsFloat(items[i])]
      /\ c = [depot |-> c.depot, stops |-> c.stops, num_vehicles |-> c.num_vehicles,
              unknown |-> c.unknown]
      /\ c.stops = [type |-> c.stops.type, items |-> c.stops.items]
  BY <1>0 DEF Requests
<1> HIDE DEF items
<1>5. c.stops.items \in Seq(PlaceValues) /\ Len(c.stops.items) = Len(items)
  <2>1. c.stops.items \in [1..Len(items) -> PlaceValues]
    BY <1>0, <1>2, <1>4
  <2> QED BY <1>0, <2>1
<1>6. c \in Requests
  BY <1>0, <1>2, <1>4, <1>5 DEF Requests
<1>7. WellFormed(c)
  <2>1. IsPlace(c.depot) /\ \A i \in 1..Len(items) : IsPlace(c.stops.items[i])
    BY <1>0, <1>1, <1>3, <1>4 DEF WellFormed, items
  <2> QED BY <1>0, <1>1, <1>4, <1>5, <2>1 DEF WellFormed, items
<1> QED BY <1>6, <1>7

LEMMA SerializeKeepsCall ==
    ASSUME CallInv, Serialize
    PROVE  CallInv'
<1>1. /\ stage = "serialize" /\ caller = "service" /\ stops = <<>> /\ outcome = "none"
      /\ body \in Requests
      /\ UNCHANGED <<caller, depot, stops>>
  BY DEF Serialize, CallInv, EndedForCause
<1>2. CASE ~IsValidRequest(body)
  <2>1. body' = body /\ outcome' = "rejected" /\ stage' = "over"
    BY <1>2 DEF Serialize
  <2> QED BY <1>1, <1>2, <2>1
          DEF CallInv, PassedSoFar, EndedForCause, AfterSignature, AfterVehicles, AfterDepot
<1>3. CASE IsValidRequest(body)
  <2>1. /\ body' = [body EXCEPT !.depot = AsFloat(@),
                                !.stops.items = [i \in DOMAIN @ |-> AsFloat(@[i])]]
        /\ stage' = "signature" /\ outcome' = outcome
    BY <1>3 DEF Serialize, AsFloat
  <2>2. body' \in Requests /\ WellFormed(body')
    BY <1>1, <1>3, <2>1, FloatsStayWellFormed
  <2>3. AreConverted(stops', body'.stops.items)
    BY <1>1, <2>2, RequestParts DEF AreConverted
  <2>4. WellFormed(body)'
    BY <2>2 DEF WellFormed
  <2> QED BY <1>1, <2>1, <2>2, <2>3, <2>4
          DEF CallInv, PassedSoFar, EndedForCause, AfterSignature, AfterVehicles, AfterDepot
<1> QED BY <1>2, <1>3

\* A check of the bindings: it passes, or the request was not well formed.
LEMMA CheckKeepsCall ==
    ASSUME CallInv, UNCHANGED <<caller, body>>,
           stage \in AfterSignature \cup {"signature"}, stage' = "over",
           outcome' \in {"TypeError", "ValueError", "RuntimeError"},
           stops' = stops, ~Passes(body)
    PROVE  CallInv'
<1>1. ~WellFormed(body)
  BY WellFormedIsConvertible DEF CallInv
<1>2. caller = "service" => WellFormed(body)
  BY DEF CallInv, AfterSignature
<1>3. ~WellFormed(body)' /\ caller' # "service"
  BY <1>1, <1>2 DEF WellFormed
<1>4. EndedForCause'
  BY <1>1, <1>2, <1>3 DEF EndedForCause
<1>5. PassedSoFar'
  BY DEF PassedSoFar, AfterSignature, AfterVehicles, AfterDepot
<1>6. AreConverted(stops, body.stops.items)'
  BY DEF CallInv, AreConverted
<1> QED BY <1>3, <1>4, <1>5, <1>6 DEF CallInv

\* The checks that pass.
LEMMA PassingKeepsCall ==
    ASSUME CallInv, UNCHANGED <<caller, body, outcome>>,
           stage \in AfterSignature \cup {"signature"}, stage' \in AfterSignature,
           stage' \in {"vehicles", "depot"} => stops' = <<>>,
           stops' \in Seq([lat : Int, lng : Int]),
           AreConverted(stops', body.stops.items),
           PassedSoFar'
    PROVE  CallInv'
<1>1. caller = "service" => WellFormed(body)
  BY DEF CallInv, AfterSignature
<1>2. WellFormed(body)' <=> WellFormed(body)
  BY DEF WellFormed
<1>3. EndedForCause'
  BY DEF CallInv, EndedForCause, AfterSignature
<1>4. AreConverted(stops, body.stops.items)'
  BY DEF AreConverted
<1> QED BY <1>1, <1>2, <1>3, <1>4 DEF CallInv, AfterSignature

LEMMA SignatureKeepsCall ==
    ASSUME CallInv, MatchSignature \/ CheckVehicles
    PROVE  CallInv'
<1>1. /\ UNCHANGED <<caller, body, depot, stops>> /\ stops = <<>>
      /\ stage \in {"signature", "vehicles"}
  BY DEF MatchSignature, CheckVehicles, Check, CallInv
<1>2. CASE stage' = "over"
  <2>1. ~Passes(body) /\ outcome' \in {"TypeError", "ValueError"}
    BY <1>2 DEF MatchSignature, CheckVehicles, Check, Passes
  <2> QED BY <1>1, <1>2, <2>1, CheckKeepsCall DEF AfterSignature
<1>3. CASE stage' # "over"
  <2>1. stage' \in {"vehicles", "depot"} /\ outcome' = outcome /\ PassedSoFar'
    BY <1>1, <1>3 DEF MatchSignature, CheckVehicles, Check, CallInv, PassedSoFar,
       AfterSignature, AfterVehicles, AfterDepot, IsInstance, Missing, Value
  <2> QED BY <1>1, <2>1, PassingKeepsCall DEF CallInv, AfterSignature
<1> QED BY <1>2, <1>3

LEMMA DepotKeepsCall ==
    ASSUME CallInv, ConvertDepot
    PROVE  CallInv'
<1>1. /\ UNCHANGED <<caller, body, stops>> /\ stops = <<>> /\ stage = "depot"
  BY DEF ConvertDepot, Check, CallInv
<1>2. CASE ~IsConvertible(body.depot)
  <2>1. ~Passes(body) /\ outcome' = "ValueError" /\ stage' = "over"
    BY <1>2 DEF ConvertDepot, Check, Passes
  <2> QED BY <1>1, <2>1, CheckKeepsCall DEF AfterSignature
<1>3. CASE IsConvertible(body.depot)
  <2>1. stage' = "stops" /\ outcome' = outcome /\ depot' = Converted(body.depot)
    BY <1>3 DEF ConvertDepot, Check
  <2>2. IsConvertible(body.depot)' /\ Converted(body.depot)' = Converted(body.depot)
    BY <1>1, <1>3 DEF IsConvertible, IsPythonNumber, IsInstance, FitsDouble, Missing, Value,
       Converted, Coordinate
  <2>3. PassedSoFar'
    BY <1>1, <2>1, <2>2 DEF CallInv, PassedSoFar, AfterSignature, AfterVehicles, AfterDepot,
       IsInstance, Missing, Value
  <2> QED BY <1>1, <2>1, <2>3, PassingKeepsCall DEF CallInv, AfterSignature
<1> QED BY <1>2, <1>3

LEMMA StopKeepsCall ==
    ASSUME CallInv, ConvertStop
    PROVE  CallInv'
<1> DEFINE items == body.stops.items
           n == Len(stops) + 1
<1>1. /\ UNCHANGED <<caller, body, depot>> /\ stage = "stops" /\ Len(stops) < Len(items)
      /\ body \in Requests /\ stops \in Seq([lat : Int, lng : Int])
      /\ AreConverted(stops, items) /\ PassedSoFar
  BY DEF ConvertStop, Check, CallInv
<1>2. /\ Len(stops) \in Nat /\ Len(items) \in Nat /\ n \in 1..Len(items)
      /\ items[n] \in PlaceValues
  BY <1>1, RequestParts, LenProperties
<1>3. CASE ~ConvertibleStop(items[n])
  <2>1. outcome' = "ValueError" /\ stage' = "over" /\ stops' = stops
    BY <1>3 DEF ConvertStop, Check, ConvertibleStop
  <2>2. ~Passes(body)
    BY <1>2, <1>3 DEF Passes
  <2> QED BY <1>1, <2>1, <2>2, CheckKeepsCall DEF AfterSignature
<1>4. CASE ConvertibleStop(items[n])
  <2>1. /\ stage' = "stops" /\ outcome' = outcome
        /\ stops' = Append(stops, Converted(items[n]))
    BY <1>4 DEF ConvertStop, Check, ConvertibleStop
  <2> HIDE DEF items, n
  <2>2. Converted(items[n]) \in [lat : Int, lng : Int]
    BY <1>2 DEF Converted, Coordinate, PlaceValues, Values
  <2>3. /\ stops' \in Seq([lat : Int, lng : Int])
        /\ Len(stops') = n
        /\ stops'[n] = Converted(items[n])
        /\ \A i \in 1..Len(stops) : stops'[i] = stops[i]
    <3> DEFINE e == Converted(items[n])
               S == [lat : Int, lng : Int]
    <3>1. stops \in Seq(S) /\ e \in S /\ stops' = Append(stops, e) /\ Len(stops) \in Nat
      BY <1>1, <1>2, <2>1, <2>2
    <3> HIDE DEF e, S
    <3>2. /\ Append(stops, e) \in Seq(S)
          /\ Len(Append(stops, e)) = n
          /\ Append(stops, e)[n] = e
          /\ \A i \in 1..Len(stops) : Append(stops, e)[i] = stops[i]
      BY <3>1, AppendProperties DEF n
    <3> QED BY <3>1, <3>2 DEF e, S
  <2>4. AreConverted(stops', items)
    <3>1. ASSUME NEW i \in 1..n
          PROVE  ConvertibleStop(items[i]) /\ stops'[i] = Converted(items[i])
      <4>1. CASE i = n
        BY <1>4, <2>3, <4>1
      <4>2. CASE i # n
        <5>1. i \in 1..Len(stops)
          BY <1>2, <4>2 DEF n
        <5> QED BY <1>1, <2>3, <5>1 DEF AreConverted
      <4> QED BY <4>1, <4>2
    <3>2. n <= Len(items)
      BY <1>2
    <3> QED BY <2>3, <3>1, <3>2 DEF AreConverted
  <2>5. PassedSoFar'
    BY <1>1, <2>1 DEF PassedSoFar, AfterSignature, AfterVehicles, AfterDepot,
       IsInstance, IsConvertible, IsPythonNumber, FitsDouble, Missing, Value, Converted,
       Coordinate
  <2> QED BY <1>1, <2>1, <2>3, <2>4, <2>5, PassingKeepsCall DEF AfterSignature, items
<1> QED BY <1>3, <1>4

LEMMA CastKeepsCall ==
    ASSUME CallInv, CastVehicles
    PROVE  CallInv'
<1>1. /\ UNCHANGED <<caller, body, depot, stops>> /\ stage = "stops"
      /\ Len(stops) = Len(body.stops.items) /\ PassedSoFar
  BY DEF CastVehicles, Check, CallInv
<1>2. CASE body.num_vehicles.number \notin (-MaxInt - 1)..MaxInt
  <2>1. outcome' = "RuntimeError" /\ stage' = "over" /\ ~Passes(body)
    BY <1>2 DEF CastVehicles, Check, Passes
  <2> QED BY <1>1, <2>1, CheckKeepsCall DEF AfterSignature
<1>3. CASE body.num_vehicles.number \in (-MaxInt - 1)..MaxInt
  <2>1. stage' = "solve" /\ outcome' = outcome
    BY <1>3 DEF CastVehicles, Check
  <2>2. PassedSoFar'
    BY <1>1, <1>3, <2>1 DEF PassedSoFar, AfterSignature, AfterVehicles, AfterDepot,
       IsInstance, IsConvertible, IsPythonNumber, FitsDouble, Missing, Value, Converted,
       Coordinate
  <2>3. AreConverted(stops', body.stops.items) /\ stops' \in Seq([lat : Int, lng : Int])
    BY <1>1 DEF CallInv
  <2> QED BY <1>1, <2>1, <2>2, <2>3, PassingKeepsCall DEF AfterSignature
<1> QED BY <1>2, <1>3

\* validate_inputs has the last word.
LEMMA SolveKeepsCall ==
    ASSUME CallInv, Solve
    PROVE  CallInv'
<1>1. /\ UNCHANGED <<caller, body, depot, stops>> /\ stage = "solve" /\ stage' = "over"
      /\ body \in Requests /\ AreConverted(stops, body.stops.items)
      /\ Len(stops) = Len(body.stops.items)
      /\ depot = Converted(body.depot)
  BY DEF Solve, CallInv, PassedSoFar, AfterDepot
<1>2. Passes(body)
  BY <1>1 DEF CallInv, PassedSoFar, Passes, AreConverted, AfterSignature, AfterVehicles,
     AfterDepot
<1>3. WellFormed(body) <=> IsValidInput(depot, stops, body.num_vehicles.number)
  BY <1>1, <1>2, WellFormedPasses
<1>4. /\ outcome' = IF WellFormed(body) THEN "result" ELSE "ValueError"
      /\ caller = "service" => WellFormed(body)
  BY <1>1, <1>3 DEF Solve, CallInv
<1>5. WellFormed(body)' <=> WellFormed(body)
  BY <1>1 DEF WellFormed
<1>6. EndedForCause'
  BY <1>1, <1>4, <1>5 DEF EndedForCause
<1>7. PassedSoFar'
  BY <1>1 DEF PassedSoFar, AfterSignature, AfterVehicles, AfterDepot
<1>8. AreConverted(stops, body.stops.items)'
  BY <1>1 DEF AreConverted
<1> QED BY <1>1, <1>6, <1>7, <1>8 DEF CallInv

LEMMA NextCall == CallInv /\ [Next]_vars => CallInv'
<1> SUFFICES ASSUME CallInv, [Next]_vars PROVE CallInv'
  OBVIOUS
<1>1. CASE UNCHANGED vars
  <2>1. UNCHANGED <<caller, body, stage, depot, stops, outcome>>
    BY <1>1 DEF vars
  <2>2. /\ WellFormed(body)' <=> WellFormed(body)
        /\ IsValidRequest(body)' <=> IsValidRequest(body)
        /\ IsConvertible(body.depot)' <=> IsConvertible(body.depot)
        /\ Converted(body.depot)' = Converted(body.depot)
        /\ AreConverted(stops, body.stops.items)' <=> AreConverted(stops, body.stops.items)
    BY <2>1
  <2> QED BY <2>1, <2>2 DEF CallInv, PassedSoFar, EndedForCause, IsInstance, Missing, Value
<1> QED
  BY <1>1, SerializeKeepsCall, SignatureKeepsCall, DepotKeepsCall, StopKeepsCall,
     CastKeepsCall, SolveKeepsCall DEF Next

-----------------------------------------------------------------------------

(***************************************************************************)
(* The theorems                                                            *)
(***************************************************************************)

\* The inductive invariant of a call.
THEOREM CallInvariant == Spec => []CallInv
BY InitCall, NextCall, PTL DEF Spec

\* A direct call of optimize_routes returns a result for well-formed arguments
\* and for no others (bindings.cpp and validate_inputs together).
THEOREM DirectCallsAreSolvedIffWellFormed == Spec => []SolvedIffWellFormed
<1>1. CallInv => SolvedIffWellFormed
  BY DEF CallInv, EndedForCause, SolvedIffWellFormed
<1> QED BY <1>1, CallInvariant, PTL

\* The engine solves whatever OptimizationRequestSerializer accepts.
THEOREM AcceptedRequestsAreSolved == Spec => []AcceptedIsSolved
<1>1. CallInv => AcceptedIsSolved
  BY DEF CallInv, EndedForCause, AcceptedIsSolved
<1> QED BY <1>1, CallInvariant, PTL

\* The serializer rejects nothing that the engine would have solved, unknown
\* fields aside.
THEOREM RejectionsHaveACause == Spec => []RejectedForCause
<1>1. CallInv => RejectedForCause
  BY SerializerAccepts DEF CallInv, EndedForCause, RejectedForCause
<1> QED BY <1>1, CallInvariant, PTL

=============================================================================
