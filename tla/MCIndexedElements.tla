------------------------- MODULE MCIndexedElements -------------------------
(* A vector of at most two elements in an array of up to three, so that an  *)
(* index can be in the vector, above it, and above what a small shrink      *)
(* reaches.                                                                 *)
EXTENDS IndexedElements, TLC

CONSTANTS v1, undefined, f1

MCValues == {v1, undefined}

\* A read-only element, a default one without a value, and a descriptor with a
\* value alone, which makes a new element that is locked.
ReadOnly == [type |-> "data", configurable |-> TRUE, enumerable |-> TRUE,
             writable |-> FALSE, value |-> v1]
NoValue == [ReadOnly EXCEPT !.writable = TRUE, !.value = Absent]
Value == [type |-> "data", configurable |-> Absent, enumerable |-> Absent,
          writable |-> Absent, value |-> v1]

MCInputs == {ReadOnly, NoValue, Value}
MCLiterals == {0 :> v1 @@ 2 :> v1}
MCPrototypes ==
  {<<>>, 0 :> [attributes |-> [type |-> "data", writable |-> FALSE,
                               enumerable |-> TRUE, configurable |-> TRUE],
               value |-> v1]}
=============================================================================
