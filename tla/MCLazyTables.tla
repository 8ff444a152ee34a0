---------------------------- MODULE MCLazyTables ----------------------------
(* Two objects that share the empty map of object literals: what one does   *)
(* must not show in the other.  Of their two names the second fits the      *)
(* storage that the first one got.                                          *)
EXTENDS LazyTables, TLC

CONSTANTS a, b, x, y, v1, undefined, f1

MCValues == {v1, undefined}

PairRootMaps ==
  <<[prototype |-> NoObject, unique |-> FALSE, flattened |-> FALSE,
     indexed |-> FALSE, table |-> <<>>, deleted |-> <<>>,
     transitions |-> <<>>, transitCount |-> 0]>>
PairRootOf == a :> 1 @@ b :> 1
PairSymmetry == {f @@ g : f \in Permutations({a, b}), g \in Permutations({x, y})}

\* Hides a property and leaves a value for a put to replace.
PairInputs == {[type |-> "data", configurable |-> Absent, enumerable |-> FALSE,
                writable |-> Absent, value |-> undefined]}
=============================================================================
