---------------------------- MODULE HiddenClass ----------------------------
(***************************************************************************)
(* Hidden classes (lv5/map.h) and the named properties of the objects that *)
(* use them (lv5/jsobject.h, lv5/storage.h).                               *)
(*                                                                         *)
(* A map gives every property name of an object an offset into the         *)
(* object's slots and its attributes.  A shared map is immutable, found by *)
(* many objects through the transitions of its predecessor; a unique map   *)
(* belongs to one object and changes in place until it is flattened, which *)
(* is what an inline cache asks for when it wants to rely on the map not   *)
(* having a property.                                                      *)
(*                                                                         *)
(* The TargetTable of a map is its field "table" from the start here; the  *)
(* code builds it on first use, from the maps before it.                   *)
(***************************************************************************)
EXTENDS PropertyDescriptor, Integers, Sequences, FiniteSets

CONSTANTS
  Objects,        \* the objects of the heap
  NoObject,       \* the null prototype
  Names,          \* property names that are not array indices
  Inputs,         \* descriptors passed to Object.defineProperty
  PutValues,      \* values assigned with obj.name = value
  Prototypes,     \* arguments of Reflect.setPrototypeOf
  Empty,          \* JSEmpty, what an unused slot holds
  RootMaps,       \* the maps that exist at the start
  RootOf,         \* the map every object starts with
  MaxTransition,  \* kMaxTransition
  MinCapacity,    \* the smallest storage core::NextCapacity gives
  MaxMaps         \* bound: how many maps a behaviour may create

\* What the code takes for granted about the maps the heap starts with, and
\* the arguments scripts can pass.
MapFields == {"prototype", "unique", "flattened", "indexed", "table", "deleted",
              "transitions", "transitCount"}

IsMap(r, ids) ==
  /\ DOMAIN r = MapFields
  /\ r.prototype \in Objects \cup {NoObject}
  /\ r.unique \in BOOLEAN /\ r.flattened \in BOOLEAN /\ r.indexed \in BOOLEAN
  /\ DOMAIN r.table \subseteq Names
  /\ \A n \in DOMAIN r.table :
       r.table[n] \in [offset : Nat, attributes : StoredAttributes]
  /\ r.deleted \in Seq(Nat)
  /\ r.transitCount \in Nat
  /\ \A key \in DOMAIN r.transitions : r.transitions[key] \in ids
  /\ r.flattened => r.unique

ASSUME HeapAssumption ==
  /\ NoObject \notin Objects
  /\ IsFiniteSet(Names)
  /\ Inputs \subseteq Descriptors
  /\ PutValues \subseteq Values
  /\ Prototypes \subseteq Objects \cup {NoObject}
  /\ MaxTransition \in Nat /\ MaxMaps \in Nat
  /\ MinCapacity \in Nat /\ MinCapacity \in {2^k : k \in 0..MinCapacity}

ASSUME RootAssumption ==
  /\ Len(RootMaps) <= MaxMaps
  /\ RootMaps \in Seq({RootMaps[m] : m \in 1..Len(RootMaps)})
  /\ \A m \in 1..Len(RootMaps) :
       IsMap(RootMaps[m], {}) /\ ~RootMaps[m].flattened
  /\ \A o \in Objects : RootOf[o] \in 1..Len(RootMaps)
  /\ \A o1, o2 \in Objects :
       RootOf[o1] = RootOf[o2] /\ RootMaps[RootOf[o1]].unique => o1 = o2

VARIABLES
  maps,  \* every Map ever created, by its index
  objs   \* per object: its map, its slots and kFlagExtensible

hvars == <<maps, objs>>

-----------------------------------------------------------------------------
(* Map                                                                     *)

Proto(m) == maps[m].prototype
Has(m, n) == n \in DOMAIN maps[m].table
Entry(m, n) == maps[m].table[n]

\* A table, or a transition table, with one more entry.
With(f, key, entry) ==
  [x \in DOMAIN f \cup {key} |-> IF x = key THEN entry ELSE f[x]]

\* table_->size() + deleted_.size()
GetSlotsSize(r) == Cardinality(DOMAIN r.table) + Len(r.deleted)

\* The offsets that are in use, and those that are kept for reuse.
Offsets(r) == {r.table[n].offset : n \in DOMAIN r.table}
Freed(r) == {r.deleted[i] : i \in 1..Len(r.deleted)}

\* Every slot that the map counts is one entry's or kept for reuse, once.
OffsetsExact(r) ==
  /\ Offsets(r) \cup Freed(r) = 0..(GetSlotsSize(r) - 1)
  /\ Cardinality(Offsets(r)) = Cardinality(DOMAIN r.table)
  /\ Cardinality(Freed(r)) = Len(r.deleted)

\* The maps a context is set up with count their slots, those of its objects
\* have no property yet, and every prototype chain ends.
ASSUME RootContents ==
  /\ \A m \in 1..Len(RootMaps) : OffsetsExact(RootMaps[m])
  /\ \A o \in Objects : DOMAIN RootMaps[RootOf[o]].table = {}
  /\ \A S \in SUBSET Objects :
       S # {} => \E o \in S : RootMaps[RootOf[o]].prototype \notin S

\* core::NextCapacity: powers of two, none below MinCapacity.
CLP2(n) ==
  CHOOSE p \in {2^k : k \in 0..n} : p >= n /\ \A k \in 0..n : 2^k >= n => p <= 2^k

NextCapacity(n) ==
  CASE n = 0 -> 0
    [] n > 0 /\ n < MinCapacity -> MinCapacity
    [] n > 0 /\ n >= MinCapacity -> CLP2(n)

StorageCapacity(r) == NextCapacity(GetSlotsSize(r))

\* Map::Map(Map* previous, bool unique)
Derived(r, unique) ==
  [r EXCEPT !.unique = unique, !.flattened = FALSE,
            !.transitions = <<>>, !.transitCount = 0]

\* A new entry takes the offset freed last, or the next one.
Extend(r, n, a) ==
  LET reuse  == r.deleted # <<>>
      offset == IF reuse THEN Head(r.deleted) ELSE GetSlotsSize(r)
  IN [r EXCEPT !.table = With(@, n, [offset |-> offset, attributes |-> a]),
               !.deleted = IF reuse THEN Tail(@) ELSE @]

\* Mutant: the offset is not kept for reuse.
ShrinkForgetting(r, n) == [r EXCEPT !.table = [x \in DOMAIN @ \ {n} |-> @[x]]]

\* Map::Delete
Shrink(r, n) ==
  [r EXCEPT !.table = [x \in DOMAIN @ \ {n} |-> @[x]],
            !.deleted = <<r.table[n].offset>> \o @]

\* Each transition answers the heap of maps after it and the map the object
\* moves to.
Moved(heap, m) == [maps |-> heap, map |-> m]
Appended(r) == Moved(Append(maps, r), Len(maps) + 1)

\* Mutants: a map that is shared, or one that is flattened, is changed in place.
UniquelyAlways(m, r) == Moved([maps EXCEPT ![m] = r], m)
UniquelyOnceFlattened(m, r) ==
  IF maps[m].unique THEN Moved([maps EXCEPT ![m] = r], m) ELSE Appended(r)

\* The unique-map path: r, made from Derived(maps[m], TRUE), replaces m when
\* m is unique and not flattened, and is a map of its own otherwise.
Uniquely(m, r) ==
  IF maps[m].unique /\ ~maps[m].flattened
  THEN Moved([maps EXCEPT ![m] = r], m)
  ELSE Appended(r)

AddPropertyTransition(m, n, a) ==
  LET r == maps[m]
      key == <<n, a>>
      next == [Extend(Derived(r, FALSE), n, a) EXCEPT
                 !.transitCount = r.transitCount + 1]
  IN CASE ~r.unique /\ key \in DOMAIN r.transitions ->
            Moved(maps, r.transitions[key])
       [] ~r.unique /\ key \notin DOMAIN r.transitions
                    /\ r.transitCount <= MaxTransition ->
            Moved(Append([maps EXCEPT ![m].transitions =
                            With(@, key, Len(maps) + 1)], next),
                  Len(maps) + 1)
       [] OTHER -> Uniquely(m, Extend(Derived(r, TRUE), n, a))

DeletePropertyTransition(m, n) == Appended(Shrink(Derived(maps[m], TRUE), n))

ChangeAttributesTransition(m, n, a) ==
  Appended([Derived(maps[m], TRUE) EXCEPT !.table[n].attributes = a])

ChangePrototypeTransition(m, p) ==
  Uniquely(m, [Derived(maps[m], TRUE) EXCEPT !.prototype = p])

\* Mutant: a shared map is marked in place.
ChangeIndexedOfShared(m) == Moved([maps EXCEPT ![m].indexed = TRUE], m)

ChangeIndexedTransition(m) ==
  Uniquely(m, [Derived(maps[m], TRUE) EXCEPT !.indexed = TRUE])

\* Mutant: the flag changes and the map does not.
SameExtensibleMap(m) == Moved(maps, m)

ChangeExtensibleTransition(m) == Appended(Derived(maps[m], TRUE))

\* Mutant: shared maps are flattened too.
FlattenedShared(heap, ms) ==
  [m \in DOMAIN heap |-> IF m \in ms THEN [heap[m] EXCEPT !.flattened = TRUE] ELSE heap[m]]

\* Map::Flatten of every map in a set: a unique map will not change in place
\* any more.
Flattened(heap, ms) ==
  [m \in DOMAIN heap |-> IF m \in ms /\ heap[m].unique /\ ~heap[m].flattened
                         THEN [heap[m] EXCEPT !.flattened = TRUE]
                         ELSE heap[m]]

-----------------------------------------------------------------------------
(* Objects                                                                 *)

MapOf(o) == objs[o].map
PrototypeOf(o) == Proto(MapOf(o))
HasOwn(o, n) == Has(MapOf(o), n)
Slots(o) == objs[o].slots
Capacity(o) == Cardinality(DOMAIN Slots(o))

\* GetOwnPropertySlot: what is stored under a name the map has.
OwnSlot(o, n) ==
  LET e == Entry(MapOf(o), n)
  IN [attributes |-> e.attributes, value |-> Slots(o)[e.offset]]

\* GetPropertySlot: the object of the prototype chain that has the name.
Holder(o, n) ==
  LET find[x \in Objects \cup {NoObject}] ==
        IF x = NoObject \/ HasOwn(x, n) THEN x ELSE find[PrototypeOf(x)]
  IN find[o]

\* FixedStorage::resize never shrinks.
Resized(slots, n) ==
  IF n <= Cardinality(DOMAIN slots) THEN slots
  ELSE [i \in 0..(NextCapacity(n) - 1) |->
          IF i \in DOMAIN slots THEN slots[i] ELSE Empty]

\* obj->set_map and the store into its slots that goes with it
Become(o, moved, slots) ==
  /\ Len(moved.maps) <= MaxMaps
  /\ maps' = moved.maps
  /\ objs' = [objs EXCEPT ![o].map = moved.map, ![o].slots = slots]

\* DefineOwnNonIndexedPropertySlotMethod: the map and the slots an object has
\* after a property it has is merged with d, and after one it has not is added.
Redefined(o, n, d) ==
  LET m   == MapOf(o)
      new == Merge(OwnSlot(o, n), d)
  IN [moved |-> IF new.attributes = OwnSlot(o, n).attributes
                THEN Moved(maps, m)
                ELSE ChangeAttributesTransition(m, n, new.attributes),
      slots |-> [Slots(o) EXCEPT ![Entry(m, n).offset] = new.value]]

Added(o, n, d) ==
  LET new   == NewSlot(d)
      moved == AddPropertyTransition(MapOf(o), n, new.attributes)
      r     == moved.maps[moved.map]
  IN [moved |-> moved,
      slots |-> [Resized(Slots(o), GetSlotsSize(r)) EXCEPT
                   ![r.table[n].offset] = new.value]]

DefineFound(o, n, d) ==
  /\ HasOwn(o, n)
  /\ IsDefineOwnPropertyAccepted(OwnSlot(o, n), d)
  /\ Become(o, Redefined(o, n, d).moved, Redefined(o, n, d).slots)

DefineNotFound(o, n, d) ==
  /\ ~HasOwn(o, n)
  /\ objs[o].extensible
  /\ Become(o, Added(o, n, d).moved, Added(o, n, d).slots)

DefineOwnProperty(o, n, d) == DefineFound(o, n, d) \/ DefineNotFound(o, n, d)

ValueOnly(v) == [type |-> "data", configurable |-> Absent, enumerable |-> Absent,
                 writable |-> Absent, value |-> v]
DefaultData(v) == [type |-> "data", configurable |-> TRUE, enumerable |-> TRUE,
                   writable |-> TRUE, value |-> v]

\* PutNonIndexedSlotMethod.  A setter found on the chain is called instead; it
\* is a script function, which does nothing itself but take the actions here.
CanPutData(o, n) ==
  LET h == Holder(o, n)
  IN IF h = NoObject THEN objs[o].extensible
     ELSE OwnSlot(h, n).attributes.type = "data"
          /\ OwnSlot(h, n).attributes.writable

Put(o, n, v) ==
  /\ CanPutData(o, n)
  /\ \/ DefineFound(o, n, ValueOnly(v))
     \/ DefineNotFound(o, n, DefaultData(v))

\* Mutant: the slot keeps its value.
DeleteKeepingValue(o, n) ==
  /\ HasOwn(o, n)
  /\ Entry(MapOf(o), n).attributes.configurable
  /\ Become(o, DeletePropertyTransition(MapOf(o), n), Slots(o))

\* DeleteNonIndexedMethod
Delete(o, n) ==
  /\ HasOwn(o, n)
  /\ Entry(MapOf(o), n).attributes.configurable
  /\ Become(o, DeletePropertyTransition(MapOf(o), n),
            [Slots(o) EXCEPT ![Entry(MapOf(o), n).offset] = Empty])

\* Reflect.setPrototypeOf.  The code does not look for a cycle; a lookup on a
\* cyclic chain would not return, so no step of ours follows one.
Reaches(p, o) ==
  LET up[x \in Objects \cup {NoObject}] ==
        x # NoObject /\ (x = o \/ up[PrototypeOf(x)])
  IN up[p]

ChangePrototype(o, p) ==
  /\ objs[o].extensible
  /\ ~Reaches(p, o)
  /\ Become(o, ChangePrototypeTransition(MapOf(o), p), Slots(o))

\* The first indexed element of an object, DefineOwnIndexedPropertyInternal.
BecomeIndexed(o) ==
  /\ ~maps[MapOf(o)].indexed
  /\ Become(o, ChangeIndexedTransition(MapOf(o)), Slots(o))

\* JSObject::ChangeExtensible(ctx, false)
PreventExtensions(o) ==
  LET moved == ChangeExtensibleTransition(MapOf(o))
  IN /\ Len(moved.maps) <= MaxMaps
     /\ maps' = moved.maps
     /\ objs' = [objs EXCEPT ![o].map = moved.map, ![o].extensible = FALSE]

\* JSCell::FlattenMap, called by an inline cache about to rely on the map.
FlattenMap(o) ==
  /\ maps' = Flattened(maps, {MapOf(o)})
  /\ UNCHANGED objs

-----------------------------------------------------------------------------
Init ==
  /\ maps = RootMaps
  /\ objs = [o \in Objects |->
               [map |-> RootOf[o],
                slots |-> Resized(<<>>, GetSlotsSize(RootMaps[RootOf[o]])),
                extensible |-> TRUE]]

\* A lookup, a request that is refused and a deletion of what is not there
\* leave maps and objects alone.
Get(o, n) == Holder(o, n) \in Objects \cup {NoObject} /\ UNCHANGED hvars

NamedStep(o, n) ==
  \/ Get(o, n)
  \/ \E d \in Inputs : DefineOwnProperty(o, n, d)
  \/ \E v \in PutValues : Put(o, n, v)
  \/ Delete(o, n)

ObjectStep(o) ==
  \/ \E p \in Prototypes : ChangePrototype(o, p)
  \/ BecomeIndexed(o)
  \/ PreventExtensions(o)
  \/ FlattenMap(o)

Next == \E o \in Objects : ObjectStep(o) \/ \E n \in Names : NamedStep(o, n)

Spec == Init /\ [][Next]_hvars

-----------------------------------------------------------------------------
(* Properties                                                              *)

LiveMaps == 1..Len(maps)

\* Type correctness: every transition leads to a map that exists, every object
\* has one, and every entry an offset and attributes a property can have.
TypeOK ==
  /\ maps \in Seq({maps[m] : m \in LiveMaps})
  /\ Len(maps) <= MaxMaps
  /\ \A m \in LiveMaps : IsMap(maps[m], LiveMaps)
  /\ DOMAIN objs = Objects
  /\ \A o \in Objects :
       /\ DOMAIN objs[o] = {"map", "slots", "extensible"}
       /\ objs[o].map \in LiveMaps
       /\ objs[o].extensible \in BOOLEAN

\* In every map, whatever sequence of additions and deletions made it, the
\* offsets given out and those taken back (Map::deleted_) are exactly the slots
\* it counts, and no offset has two meanings.
OffsetsAreSlots == \A m \in LiveMaps : OffsetsExact(maps[m])

\* Every offset of an object's map is inside its storage (the assertion of
\* JSObject::Direct), holds a value of the kind the map says, and the slots
\* no property uses are empty: a deleted value cannot show up again.
SlotsMatchMap ==
  \A o \in Objects :
    LET r == maps[MapOf(o)]
    IN /\ DOMAIN Slots(o) = 0..(Capacity(o) - 1)
       /\ GetSlotsSize(r) <= Capacity(o)
       /\ \A n \in DOMAIN r.table :
            Slots(o)[r.table[n].offset] \in
              IF r.table[n].attributes.type = "data" THEN Values ELSE Accessors
       /\ \A i \in DOMAIN Slots(o) \ Offsets(r) : Slots(o)[i] = Empty

\* A unique map changes in place, so two objects never have the same one, and
\* no transition leads to it.
UniqueMapsNotShared ==
  \A m \in LiveMaps : maps[m].unique =>
    /\ \A o1, o2 \in Objects : MapOf(o1) = m /\ MapOf(o2) = m => o1 = o2
    /\ \A k \in LiveMaps : \A key \in DOMAIN maps[k].transitions :
         maps[k].transitions[key] # m

\* t is r with one more property, both shared.
AddsOne(r, key, t) ==
  /\ ~r.unique /\ ~t.unique
  /\ key[1] \notin DOMAIN r.table
  /\ DOMAIN t.table = DOMAIN r.table \cup {key[1]}
  /\ t.table[key[1]].attributes = key[2]
  /\ \A n \in DOMAIN r.table : t.table[n] = r.table[n]
  /\ t.prototype = r.prototype /\ t.indexed = r.indexed

\* Following a transition gives the object exactly the property that was asked
\* for and leaves everything else about it: a map found through transitions_ is
\* its parent plus one entry, for as long as both exist.
TransitionsAddOneProperty ==
  \A m \in LiveMaps : \A key \in DOMAIN maps[m].transitions :
    AddsOne(maps[m], key, maps[maps[m].transitions[key]])

\* What an inline cache may rely on: a shared map only gains transitions, a
\* flattened map that its object keeps never changes at all, and no map loses
\* a property or moves one as long as it is used (Map::IsUnique, Map::Flatten).
\* A unique map its object has left is never looked at again.
InUse(m) == ~maps[m].unique \/ \E o \in Objects : MapOf(o) = m

Stable(r, s) ==
  /\ s.unique = r.unique
  /\ r.flattened => s = r
  /\ ~r.unique => \A f \in MapFields \ {"transitions"} : s[f] = r[f]
  /\ \A n \in DOMAIN r.table : n \in DOMAIN s.table /\ s.table[n] = r.table[n]

GuardedMapsStable ==
  [][\A m \in LiveMaps :
       InUse(m) /\ InUse(m)' => Stable(maps[m], maps'[m])]_hvars

\* The maps and slots implement ECMAScript 5 objects: each step changes one
\* object, as 8.12 says, although objects share maps.
Model == INSTANCE ObjectModel WITH
  properties <- [o \in Objects |-> [n \in DOMAIN maps[MapOf(o)].table |-> OwnSlot(o, n)]],
  prototype  <- [o \in Objects |-> PrototypeOf(o)],
  extensible <- [o \in Objects |-> objs[o].extensible]

ImplementsObjects == Model!OSpec
=============================================================================
