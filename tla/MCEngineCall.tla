---------------------------- MODULE MCEngineCall ----------------------------
(***************************************************************************)
(* Requests for TLC: every kind of number at the limits, of field and of   *)
(* container.                                                              *)
(***************************************************************************)
EXTENDS EngineCall

Good == Object(Value("int", 90), Value("float", -180))

Objects ==
    { Good, Object(Value("float", -90), Value("int", 180)),
      Object(Value("int", 91), Value("int", 0)), Object(Value("int", 0), Value("float", -181)),
      Object(Value("float", NaN), Value("int", 0)), Object(Value("int", 0), Value("float", Infinity)),
      Object(Value("int", 1500), Value("int", 0)), Object(Value("int", 0), Value("bool", 1)),
      Object(Value("str", 0), Value("int", 0)), Object(Missing, Value("int", 0)),
      [Good EXCEPT !.unknown = TRUE], [Good EXCEPT !.type = "list"] }

Lists ==
    {<<>>, <<Good, Good, Good>>} \cup {<<a>> : a \in Objects} \cup {<<a, b>> : a, b \in Objects}

Vehicles ==
    {Value("int", n) : n \in {-1001, 0, 1, 2, 3, 1001}}
      \cup {Value("bool", 1), Value("float", 1), Value("str", 1), Missing}

AnyBody ==
    {Body(d, [type |-> "list", items |-> s], v) : d \in Objects, s \in Lists, v \in Vehicles}
      \cup {Body(d, [type |-> "dict", items |-> <<>>], v) : d \in Objects, v \in Vehicles}
      \cup {[Body(Good, [type |-> "list", items |-> s], v) EXCEPT !.unknown = TRUE] :
              s \in Lists, v \in Vehicles}

=============================================================================
