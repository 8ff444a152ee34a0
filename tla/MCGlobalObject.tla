--------------------------- MODULE MCGlobalObject ---------------------------
(* The global object, whose map is unique, and Object.prototype.            *)
EXTENDS GlobalObject, TLC

CONSTANTS g, p, x, v1, undefined, f1

MCValues == {v1, undefined, f1}

EmptyMap(proto) ==
  [prototype |-> proto, unique |-> TRUE, flattened |-> FALSE,
   indexed |-> FALSE, table |-> <<>>, deleted |-> <<>>,
   transitions |-> <<>>, transitCount |-> 0]

MCRootMaps == <<EmptyMap(p), EmptyMap(NoObject)>>
MCRootOf == g :> 1 @@ p :> 2

Constant == [type |-> "data", configurable |-> FALSE, enumerable |-> Absent,
             writable |-> FALSE, value |-> Absent]
Accessor == [type |-> "accessor", configurable |-> TRUE, enumerable |-> TRUE,
             get |-> f1, set |-> Absent]
MCInputs == {Constant, Accessor}
=============================================================================
