---------------------- MODULE MCRuntimeStructures ----------------------
(***************************************************************************)
(* Two values besides undefined and one function: enough for a field of a  *)
(* descriptor to agree with, differ from and be absent beside the stored   *)
(* one.                                                                    *)
(*                                                                         *)
(* The array as in MCIndexedElements, with a capacity of two above a size  *)
(* of one.  The stack has room for four or five frames, of functions with  *)
(* fewer, as many and more parameters than a call has arguments.  The      *)
(* table grows once; two of its keys collide, and the third probes past    *)
(* the end.                                                                *)
(***************************************************************************)
EXTENDS RuntimeStructures, TLC

CONSTANTS v1, v2, undefined, f1, a, b, c, v, w

MCValues == {v1, v2, undefined}

ReadOnly == [type |-> "data", configurable |-> TRUE, enumerable |-> TRUE,
             writable |-> FALSE, value |-> undefined]
MCInputs == {ReadOnly}
MCLiterals == {0 :> v1, 0 :> v1 @@ 1 :> v1}
MCPrototypes == {<<>>}

MCCodes == {[params |-> 0, size |-> 1], [params |-> 1, size |-> 3],
            [params |-> 2, size |-> 2]}
MCHash == [d \in Cells |-> IF d \in {a, b} THEN 0 ELSE 7]
MCSymmetry == Permutations({a, b}) \cup Permutations({v, w})
=============================================================================
