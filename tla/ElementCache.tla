---------------------------- MODULE ElementCache ----------------------------
(***************************************************************************)
(* a[i] = v in compiled code (EmitSTORE_ELEMENT of lv5/breaker/compiler.cc *)
(* and StoreElementIC of breaker/poly_ic.h) over the elements of           *)
(* IndexedElements.                                                        *)
(*                                                                         *)
(* The code before the cache looks at the vector only: an element that is  *)
(* there is overwritten, and a hole or an index within the capacity is     *)
(* left to the units, which compare the maps of the array and of its       *)
(* prototypes.  Neither dense nor length nor writable is looked at.        *)
(***************************************************************************)
EXTENDS IndexedElements

VARIABLE
  unit  \* whether a unit of the site lets the array's map through

cvars == <<elements, extensible, inherited, protoIndexed, answer, unit>>

Room(e) == Cardinality(DOMAIN e.vector)

\* Value into the vector, no question asked.
Overwrite(i, v) ==
  /\ InVector(elements, i)
  /\ Answer([elements EXCEPT !.vector[i] = v], TRUE)
  /\ UNCHANGED unit

\* The unit without and with growth (.MAIN and .GROW): the size is set to the
\* index, whatever it was.
StoreHole(i, v) ==
  /\ unit
  /\ i < elements.size /\ ~InVector(elements, i)
  /\ Answer([elements EXCEPT !.vector[i] = v], TRUE)
  /\ UNCHANGED unit

\* Mutant: length stays.
GrowSilently(i, v) ==
  /\ unit
  /\ elements.size <= i /\ i < Room(elements)
  /\ Answer([elements EXCEPT !.vector[i] = v, !.size = i + 1], TRUE)
  /\ UNCHANGED unit

Grow(i, v) ==
  /\ unit
  /\ elements.size <= i /\ i < Room(elements)
  /\ Answer(Longer([elements EXCEPT !.vector[i] = v, !.size = i + 1], i), TRUE)
  /\ UNCHANGED unit

\* STORE_ELEMENT_INDEXED: the put, and a unit when it took the fast path.
\* Beyond the capacity, STORE_ELEMENT_GENERIC: the put alone.
Miss(i, v) ==
  /\ ~unit \/ i >= Room(elements)
  /\ ~InVector(elements, i)
  /\ Put(i, v)
  /\ unit' = (unit \/ (FastPut(i) /\ i < Room(elements)))

\* Other arrays have the same map, and may have made a unit before.
CInit == Init /\ unit \in BOOLEAN /\ (unit => ~protoIndexed)

Runtime ==
  \/ PreventExtensions /\ unit' = FALSE
  \/ /\ \/ \E i \in Indices :
             \/ \E d \in Inputs : DefineOwn(i, d)
             \/ \E v \in PutValues : Put(i, v)
             \/ Delete(i)
        \/ \E len \in Lengths \cup {Absent}, w \in Flag : DefineLength(len, w)
     /\ UNCHANGED unit

CNext ==
  \/ Runtime
  \/ \E i \in Indices, v \in PutValues :
       Overwrite(i, v) \/ StoreHole(i, v) \/ Grow(i, v) \/ Miss(i, v)

CSpec == CInit /\ [][CNext]_cvars

-----------------------------------------------------------------------------
(* Properties                                                              *)

\* A vector as it is while an array only grows at its end: dense, no larger
\* than length says, the length not read-only.
InOrder ==
  /\ elements.dense /\ elements.writable /\ extensible /\ ~protoIndexed
  /\ elements.size <= elements.length

\* In that state a compiled store into the vector or right behind it does what
\* the put would do, although it looks at neither length nor flags.
StoresArePuts ==
  \A i \in Indices : \A v \in PutValues :
    InOrder /\ i <= elements.size
      /\ (Overwrite(i, v) \/ StoreHole(i, v) \/ Grow(i, v) \/ Miss(i, v))
    => Arrays!PutElement(i, v)

CompiledStoreIsPut == [][StoresArePuts]_cvars
=============================================================================
