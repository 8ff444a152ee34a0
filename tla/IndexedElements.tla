--------------------------- MODULE IndexedElements ---------------------------
(***************************************************************************)
(* The indexed elements of an object (lv5/indexed_elements.h, the indexed  *)
(* methods of lv5/jsobject.h) and the length of an array (lv5/jsarray.h).  *)
(*                                                                         *)
(* Elements with default attributes and an index below kMaxVectorSize are  *)
(* values in a vector, a hole being JSEmpty, as long as the elements are   *)
(* "dense".  All others, and all elements once they are not dense, are     *)
(* stored slots in a sparse map.  MakeSparse and MakeDense change between  *)
(* the two.                                                                *)
(***************************************************************************)
EXTENDS PropertyDescriptor, Integers, FiniteSets

CONSTANTS
  MaxVectorSize,  \* kMaxVectorSize
  MinCapacity,    \* the smallest capacity core::NextCapacity gives
  BigShrink,      \* 1 << 24, from which SetLength goes over names
  MaxLength,      \* bound: lengths stay at or below it
  Empty,          \* JSEmpty
  Inputs,         \* descriptors passed to Object.defineProperty
  PutValues,      \* values assigned with a[i] = value
  Literals,       \* the elements an array may be created with, by index
  Prototypes      \* the elements its prototypes may have, by index

Indices == 0..(MaxLength - 1)
Lengths == 0..MaxLength

ASSUME ElementsAssumption ==
  /\ MaxVectorSize \in Nat /\ MaxLength \in Nat
  /\ MinCapacity \in Nat \ {0} /\ BigShrink \in Nat
  /\ MaxVectorSize \in {MinCapacity * 2^k : k \in 0..MaxVectorSize}
  /\ Empty \notin Values /\ Absent \notin Lengths
  /\ Inputs \subseteq Descriptors
  /\ PutValues \subseteq Values
  /\ \A f \in Literals : DOMAIN f \subseteq Indices /\ \A i \in DOMAIN f : f[i] \in Values
  /\ \A f \in Prototypes : DOMAIN f \subseteq Indices /\ \A i \in DOMAIN f : f[i] \in StoredSlots

VARIABLES
  elements,      \* IndexedElements: dense, writable, length, vector, size, sparse
  extensible,    \* kFlagExtensible
  inherited,     \* the elements of the prototypes
  protoIndexed,  \* HasIndexedProperty of the prototype
  answer         \* whether the last call was not refused

evars == <<elements, extensible, inherited, protoIndexed, answer>>

-----------------------------------------------------------------------------
(* IndexedElements and Storage.  The memory of a vector is what is up to    *)
(* its capacity; what is above its size is left over.                       *)

Capacity(n) == IF n = 0 THEN 0 ELSE
  CHOOSE c \in {MinCapacity * 2^k : k \in 0..n} :
    c >= n /\ \A k \in 0..n : MinCapacity * 2^k >= n => c <= MinCapacity * 2^k

\* Storage::resize(n, JSEmpty)
Resized(e, n) ==
  LET grown == n > Cardinality(DOMAIN e.vector)
      room  == IF grown THEN 0..(Capacity(n) - 1) ELSE DOMAIN e.vector
  IN [e EXCEPT
        !.size = n,
        !.vector = [i \in room |-> IF i \in e.size..(n - 1) THEN Empty
                                   ELSE IF grown /\ i >= e.size THEN Undefined
                                   ELSE e.vector[i]]]

Default(v) == [attributes |-> [type |-> "data", writable |-> TRUE,
                               enumerable |-> TRUE, configurable |-> TRUE],
               value |-> v]

InVector(e, i) == i < e.size /\ e.vector[i] # Empty
VectorIndices(e) == {i \in DOMAIN e.vector : InVector(e, i)}

\* Mutant: the values stay in the vector too.
MakeSparseCopying(e) ==
  [e EXCEPT !.dense = FALSE,
            !.sparse = [i \in VectorIndices(e) \cup DOMAIN @ |->
                          IF InVector(e, i) THEN Default(e.vector[i]) ELSE @[i]]]

MakeSparse(e) ==
  [e EXCEPT !.dense = FALSE,
            !.sparse = [i \in VectorIndices(e) \cup DOMAIN @ |->
                          IF InVector(e, i) THEN Default(e.vector[i]) ELSE @[i]],
            !.vector = [i \in DOMAIN @ |-> IF i < e.size THEN Empty ELSE @[i]]]

MakeDense(e) == [e EXCEPT !.dense = TRUE, !.sparse = <<>>]

\* The elements at some indices taken out of the map; an emptied map is
\* dropped.  The vector of a sparse array holds nothing (OneHomePerElement).
Erased(e, gone) ==
  LET left == [i \in DOMAIN e.sparse \ gone |-> e.sparse[i]]
  IN IF DOMAIN left = {} /\ DOMAIN e.sparse # {}
     THEN MakeDense(e)
     ELSE [e EXCEPT !.sparse = left]

\* GetOwnIndexedPropertySlotMethod
Owned(e) ==
  {i \in Indices : IF e.dense /\ i < e.size THEN e.vector[i] # Empty
                   ELSE i < e.length /\ i \in DOMAIN e.sparse}
Own(e, i) == IF e.dense /\ i < e.size THEN Default(e.vector[i]) ELSE e.sparse[i]

-----------------------------------------------------------------------------
(* JSObject                                                                *)

Keep == UNCHANGED <<extensible, inherited, protoIndexed>>

Answer(e, granted) == elements' = e /\ answer' = granted /\ Keep

Longer(e, i) == [e EXCEPT !.length = IF i < @ THEN @ ELSE i + 1]

\* DefineOwnIndexedValueDenseInternal
DefineDense(i, v) ==
  LET e == IF i < elements.size THEN elements ELSE Resized(elements, i + 1)
      value == IF v # Absent THEN v
               ELSE IF e.vector[i] = Empty THEN Undefined ELSE e.vector[i]
  IN Answer(Longer([e EXCEPT !.vector[i] = value], i), TRUE)

IsDefault(d) ==
  /\ d.type = "data" /\ d.configurable = TRUE /\ d.enumerable = TRUE
  /\ d.writable = TRUE

\* Nothing in d asks for other than default attributes.
IsAbsentDescriptor(d) ==
  /\ d.enumerable # FALSE /\ d.configurable # FALSE
  /\ d.type # "accessor"
  /\ d.type = "data" => d.writable # FALSE

\* Into the map, after the vector has been purged if d cannot be in it.
DefineSparse(i, d) ==
  LET e == IF elements.dense /\ ~IsDefault(d) /\ i < MaxVectorSize
           THEN MakeSparse(elements) ELSE elements
      found == i \in DOMAIN e.sparse
      s == e.sparse[i]
  IN \/ /\ found
        /\ Answer(IF IsDefineOwnPropertyAccepted(s, d)
                  THEN [e EXCEPT !.sparse[i] = Merge(@, d)] ELSE e,
                  Returned(s, d))
     \/ /\ ~found /\ extensible
        /\ Answer(Longer([e EXCEPT !.sparse = [x \in DOMAIN @ \cup {i} |->
                            IF x = i THEN NewSlot(d) ELSE @[x]]], i), TRUE)
     \/ ~found /\ ~extensible /\ Answer(e, FALSE)

\* DefineOwnIndexedPropertyInternal
PastReadOnlyLength(i) == i >= elements.length /\ ~elements.writable

DefineOwn(i, d) ==
  LET quick   == elements.dense /\ IsDefault(d) /\ i < MaxVectorSize
      inPlace == elements.dense /\ ~IsDefault(d) /\ IsAbsentDescriptor(d)
                 /\ InVector(elements, i)
  IN \/ PastReadOnlyLength(i) /\ Answer(elements, FALSE)
     \/ /\ ~PastReadOnlyLength(i) /\ quick
        /\ DefineDense(i, d.value)
     \/ /\ ~PastReadOnlyLength(i) /\ inPlace
        /\ Answer(IF d.type = "generic" THEN elements
                  ELSE [elements EXCEPT !.vector[i] = Or(d.value, @)], TRUE)
     \/ /\ ~PastReadOnlyLength(i) /\ ~quick /\ ~inPlace
        /\ DefineSparse(i, d)

\* GetIndexedPropertySlot: the slots, none or one, that a lookup finds.
Found(i) ==
  IF i \in Owned(elements) THEN {Own(elements, i)}
  ELSE {inherited[j] : j \in {i} \cap DOMAIN inherited}

SetterOf(s) == IF s.attributes.type = "data" THEN Null ELSE s.value.set

\* Mutant: what prototypes have is not looked at.
CanPutOwnIndexed(i) ==
  IF i \in Owned(elements) THEN Own(elements, i).attributes.writable ELSE extensible

CanPutIndexed(i) ==
  /\ Found(i) = {} => extensible
  /\ \A s \in Found(i) : s.attributes.writable \/ SetterOf(s) # Null

ValueOnly(v) == [type |-> "data", configurable |-> Absent, enumerable |-> Absent,
                 writable |-> Absent, value |-> v]
DefaultData(v) == [type |-> "data", configurable |-> TRUE, enumerable |-> TRUE,
                   writable |-> TRUE, value |-> v]

\* PutIndexedSlotMethod: the array fast path, and the rest.  A setter that is
\* found is called, and takes no step here but those of the calls it makes.
FastPut(i) == i < MaxVectorSize /\ elements.dense /\ ~protoIndexed

Put(i, v) ==
  \/ FastPut(i) /\ DefineDense(i, v)
  \/ /\ ~FastPut(i) /\ CanPutIndexed(i)
     /\ \A s \in Found(i) : SetterOf(s) = Null
     /\ DefineOwn(i, IF i \in Owned(elements) THEN ValueOnly(v) ELSE DefaultData(v))
  \/ ~FastPut(i) /\ ~CanPutIndexed(i) /\ Answer(elements, FALSE)

\* DeleteIndexedInternal
Delete(i) ==
  LET e == elements
      inMap == i < e.length /\ i \in DOMAIN e.sparse
               /\ (e.dense => i >= e.size /\ i >= MaxVectorSize)
  IN \/ /\ i < e.length /\ e.dense /\ i < e.size
        /\ Answer([e EXCEPT !.vector[i] = Empty], TRUE)
     \/ /\ inMap /\ e.sparse[i].attributes.configurable
        /\ Answer(Erased(e, {i}), TRUE)
     \/ inMap /\ ~e.sparse[i].attributes.configurable /\ Answer(e, FALSE)
     \/ ~inMap /\ (i < e.length /\ e.dense => i >= e.size) /\ Answer(e, TRUE)

\* ChangeExtensible(ctx, false)
PreventExtensions ==
  /\ extensible' = FALSE
  /\ elements' = MakeSparse(elements)
  /\ UNCHANGED <<inherited, protoIndexed, answer>>

-----------------------------------------------------------------------------
(* JSArray                                                                 *)

Locked(e) == {i \in DOMAIN e.sparse : ~e.sparse[i].attributes.configurable}
Above(e, n) == {i \in DOMAIN e.sparse : i >= n}
Highest(s) == CHOOSE k \in s : \A j \in s : j <= k

\* Mutant: the vector is not cut.
ShrunkDenseKeeping(e, len) ==
  IF len > MaxVectorSize THEN Erased(e, Above(e, len)) ELSE MakeDense(e)

\* A dense array: the map is dropped, or what is above len in it.
ShrunkDense(e, len) ==
  IF len > MaxVectorSize
  THEN Erased(e, Above(e, len))
  ELSE IF e.size > len THEN Resized(MakeDense(e), len) ELSE MakeDense(e)

\* A sparse array: deletions from the end, which stop at an element that is
\* not configurable.  A small step deletes the indices from length down to
\* len, a big one the names there are.
Stops(e, len) == IF e.length - len < BigShrink THEN Locked(e) \cap Above(e, len) ELSE Locked(e)

ShrunkSparse(e, len) ==
  LET stops == Stops(e, len)
      from  == IF stops # {} THEN Highest(stops) + 1
               ELSE IF e.length - len < BigShrink THEN len ELSE 0
  IN [Erased(e, Above(e, from)) EXCEPT
        !.length = IF stops # {} THEN from ELSE len]

SetLength(e, len) ==
  IF len >= e.length THEN [e EXCEPT !.length = len]
  ELSE IF e.dense THEN [ShrunkDense(e, len) EXCEPT !.length = len]
  ELSE ShrunkSparse(e, len)

SetLengthDone(e, len) == len >= e.length \/ e.dense \/ Stops(e, len) = {}

\* ChangeLengthWritable(w), where w may be absent from the descriptor.
WritableGranted(e, w) == w # TRUE \/ e.writable
WithWritable(e, w) == IF w = FALSE THEN [e EXCEPT !.writable = FALSE] ELSE e

\* DefineLengthProperty of a descriptor with a writable w and a value len, each
\* possibly absent.  One that asks for another attribute is refused.  Callers
\* that pass w throw, so a shrink that stops is an error to them, although the
\* last call then returns what ChangeLengthWritable does.
DefineLength(len, w) ==
  LET e == elements
      same == len \in {Absent, e.length}
  IN \/ same /\ Answer(WithWritable(e, w), WritableGranted(e, w))
     \/ ~same /\ ~e.writable /\ Answer(e, FALSE)
     \/ /\ ~same /\ e.writable
        /\ Answer(WithWritable(SetLength(e, len), w), SetLengthDone(e, len))

-----------------------------------------------------------------------------
\* ReservedNew with SetToVector and SetToMap: an array literal.
Created(f, len) ==
  LET size == IF len > MaxVectorSize THEN MaxVectorSize ELSE len
  IN [dense |-> TRUE, writable |-> TRUE, length |-> len, size |-> size,
      vector |-> [i \in 0..(Capacity(size) - 1) |->
                    IF i >= size THEN Undefined
                    ELSE IF i \in DOMAIN f THEN f[i] ELSE Empty],
      sparse |-> [i \in {j \in DOMAIN f : j >= MaxVectorSize} |-> Default(f[i])]]

\* A literal, or new Array(len), which reserves nothing.
Init ==
  /\ \E len \in Lengths :
       \/ \E f \in Literals : DOMAIN f \subseteq 0..(len - 1) /\ elements = Created(f, len)
       \/ elements = [Created(<<>>, 0) EXCEPT !.length = len]
  /\ extensible = TRUE
  /\ inherited \in Prototypes
  /\ protoIndexed \in BOOLEAN
  /\ DOMAIN inherited # {} => protoIndexed
  /\ answer = TRUE

Next ==
  \/ \E i \in Indices :
       \/ \E d \in Inputs : DefineOwn(i, d)
       \/ \E v \in PutValues : Put(i, v)
       \/ Delete(i)
  \/ \E len \in Lengths \cup {Absent}, w \in Flag : DefineLength(len, w)
  \/ PreventExtensions

Spec == Init /\ [][Next]_evars

-----------------------------------------------------------------------------
(* Properties                                                              *)

\* Type correctness of the elements and their storage.
ElementsTypeOK ==
  /\ DOMAIN elements = {"dense", "writable", "length", "size", "vector", "sparse"}
  /\ elements.dense \in BOOLEAN /\ elements.writable \in BOOLEAN
  /\ elements.length \in Lengths
  /\ elements.size \in 0..MaxVectorSize
  /\ elements.size <= Cardinality(DOMAIN elements.vector)
  /\ \A i \in DOMAIN elements.vector : elements.vector[i] \in Values \cup {Empty}
  /\ \A i \in DOMAIN elements.sparse : i \in Indices /\ elements.sparse[i] \in StoredSlots
  /\ extensible \in BOOLEAN /\ answer \in BOOLEAN

\* An element is in the vector or in the map, never in both, and the vector of
\* a sparse array holds nothing (what MakeSparse and MakeDense are for).
OneHomePerElement ==
  IF elements.dense
  THEN \A i \in DOMAIN elements.sparse : i >= MaxVectorSize
  ELSE VectorIndices(elements) = {}

\* Whichever representation holds it, and whatever mixture of growing,
\* shrinking and changes of representation came before, no element is at or
\* above length.
LengthAboveElements ==
  \A i \in VectorIndices(elements) \cup DOMAIN elements.sparse : i < elements.length

\* Four departures from ECMAScript 5 that the code is known to make (README,
\* section 6): a step moves a read-only length, adds to an object that is not
\* extensible, loses a locked element, or is a big shrink that goes on below
\* the length it was asked for.
LengthHolds == ~elements.writable => elements'.length = elements.length
ClosedHolds == ~extensible => Owned(elements') \subseteq Owned(elements)
LockedHold == \A i \in Locked(elements) : i \in Owned(elements')

ReachesBelow(len) ==
  /\ ~elements.dense /\ elements.length - len >= BigShrink
  /\ Locked(elements) \cap Above(elements, len) = {}
  /\ \E i \in DOMAIN elements.sparse : i < len

\* Vector, map and length together are the one dictionary of 15.4.5.1.
Arrays == INSTANCE ArrayModel WITH
  elements <- [i \in Owned(elements) |-> Own(elements, i)],
  length   <- elements.length,
  writable <- elements.writable

Departs == ~(LengthHolds /\ ClosedHolds /\ LockedHold)

AreArrayCalls ==
  \/ Departs
  \/ /\ \A i \in Indices :
          /\ \A d \in Inputs : DefineOwn(i, d) => Arrays!DefineElement(i, d)
          /\ \A v \in PutValues : Put(i, v) => Arrays!PutElement(i, v)
          /\ Delete(i) => Arrays!DeleteElement(i)
     /\ \A len \in Lengths, w \in Flag :
          DefineLength(len, w) /\ ~ReachesBelow(len) => Arrays!SetLength(len, w)
     /\ \A w \in Flag : DefineLength(Absent, w) => Arrays!SetLength(elements.length, w)
     /\ PreventExtensions => Arrays!Close

\* Each call changes and answers what ECMAScript 5 says of that call with those
\* arguments, apart from the known departures.
CallsAreArrayCalls == [][AreArrayCalls]_evars
=============================================================================
