------------------------- MODULE RuntimeStructures -------------------------
(***************************************************************************)
(* Structures of the runtime that have nothing in common but the program   *)
(* that uses them: a property with its attributes, the vector that         *)
(* compiled stores write, the stack of frames and the table of a WeakMap.  *)
(* A behaviour works on one.                                               *)
(***************************************************************************)
EXTENDS DescriptorMachine, ElementCache, FrameStack, WeakMap

VARIABLE works  \* the structure worked on

rvars == <<dvars, cvars, fvars, wvars, works>>

\* The array that stays untouched.
IdleArray == elements = Created(<<>>, 0) /\ ~protoIndexed /\ ~unit

RInit ==
  /\ DInit /\ CInit /\ FInit /\ WInit
  /\ works \in {"property", "vector", "stack", "table"}
  /\ works # "vector" => IdleArray

RNext ==
  /\ \/ works = "property" /\ DNext /\ UNCHANGED <<cvars, fvars, wvars>>
     \/ works = "vector" /\ CNext /\ UNCHANGED <<dvars, fvars, wvars>>
     \/ works = "stack" /\ FNext /\ UNCHANGED <<dvars, cvars, wvars>>
     \/ works = "table" /\ WNext /\ UNCHANGED <<dvars, cvars, fvars>>
  /\ UNCHANGED works
RSpec == RInit /\ [][RNext]_rvars
=============================================================================
