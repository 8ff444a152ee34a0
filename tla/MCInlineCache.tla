---------------------------- MODULE MCInlineCache ----------------------------
(* Loads over a chain a -> p -> q, so that own, prototype and chain units   *)
(* occur; stores to a and b, which share a map, above a prototype p that    *)
(* may get a property of the same name.                                     *)
EXTENDS InlineCache, TLC

CONSTANTS a, b, p, q, x, y, v1, undefined, f1

MCValues == {v1, undefined}

EmptyMap(proto, unique) ==
  [prototype |-> proto, unique |-> unique, flattened |-> FALSE,
   indexed |-> FALSE, table |-> <<>>, deleted |-> <<>>,
   transitions |-> <<>>, transitCount |-> 0]

ChainRootMaps == <<EmptyMap(p, TRUE), EmptyMap(q, TRUE), EmptyMap(NoObject, TRUE)>>
ChainRootOf == a :> 1 @@ p :> 2 @@ q :> 3

SharedRootMaps == <<EmptyMap(p, FALSE), EmptyMap(NoObject, TRUE)>>
SharedRootOf == a :> 1 @@ b :> 1 @@ p :> 2
SharedSymmetry == Permutations({a, b})

ReadOnly == [type |-> "data", configurable |-> TRUE, enumerable |-> TRUE,
             writable |-> FALSE, value |-> v1]
Accessor == [type |-> "accessor", configurable |-> TRUE, enumerable |-> TRUE,
             get |-> f1, set |-> Absent]
ChainInputs == {Accessor}
\* What obj.name = undefined defines, for a put to replace.
Plain == [ReadOnly EXCEPT !.writable = TRUE, !.value = undefined]
SharedInputs == {ReadOnly, Plain}
=============================================================================
