---------------------------- MODULE InlineCache ----------------------------
(***************************************************************************)
(* The polymorphic inline caches of compiled code (lv5/breaker/poly_ic.h   *)
(* and the stubs LOAD_PROP and STORE_PROP of breaker/stub.cc) over the     *)
(* objects of HiddenClass.                                                 *)
(*                                                                         *)
(* A site is one obj.name expression of compiled code.  Its cache is a     *)
(* chain of units, pieces of machine code that compare the maps of the     *)
(* objects on the way to the property with constants and then read or      *)
(* write a slot, without a lookup.  The prototypes on the way are          *)
(* constants too: they are read from the maps when the unit is generated.  *)
(***************************************************************************)
EXTENDS HiddenClass

CONSTANTS
  LoadSites,    \* the names with a load site
  StoreSites,   \* the names with a store site
  MaxPolyIC     \* kMaxPolyICSize

ASSUME SiteAssumption ==
  LoadSites \subseteq Names /\ StoreSites \subseteq Names /\ MaxPolyIC \in Nat

VARIABLES
  loadIC,   \* per load site, its units in the order they are tried
  storeIC   \* the same for store sites

ivars == <<maps, objs, loadIC, storeIC>>

-----------------------------------------------------------------------------
(* Units                                                                   *)

\* The objects from o up to, and without, the object h of its prototype chain.
Path(o, h) ==
  LET up[x \in Objects \cup {NoObject}] ==
        IF x \in {h, NoObject} THEN <<>> ELSE <<x>> \o up[PrototypeOf(x)]
  IN up[o]

\* Mutant: only the object's own map is compared.
OwnMapOnly(path) == <<MapOf(path[1])>>

MapsOf(path) == [i \in DOMAIN path |-> MapOf(path[i])]

\* Mutant: the maps of the chain are recorded and may change in place.
ChainUnflattened(heap, path) == heap

\* Chain::New flattens every map it records.
ChainFlattened(heap, path) == Flattened(heap, {MapOf(path[i]) : i \in DOMAIN path})

\* Mutant: the object's own map is not compared.
MatchesPrototypes(u, o) ==
  \A i \in DOMAIN u.guards \ {1} : MapOf(u.via[i - 1]) = u.guards[i]

\* Whether the map guards of a unit let o through: o itself has the first map
\* and each prototype the unit knows the next one.
Matches(u, o) ==
  \A i \in DOMAIN u.guards :
    MapOf(IF i = 1 THEN o ELSE u.via[i - 1]) = u.guards[i]

\* The object whose slot a load unit reads.
Reached(u, o) == IF u.via = <<>> THEN o ELSE u.via[Len(u.via)]

\* Each unit jumps to the next one when a guard fails, so the first match acts.
Hits(units, o) ==
  {i \in DOMAIN units :
     Matches(units[i], o) /\ \A j \in 1..(i - 1) : ~Matches(units[j], o)}
Missed(units, o) == Hits(units, o) = {}

\* ChainedPolyIC::Generate: the last unit jumps to the generic stub, which
\* generates nothing.
Room(units) == Len(units) < MaxPolyIC

-----------------------------------------------------------------------------
(* Loads                                                                   *)

\* A load that no unit handles, LOAD_PROP.  Only a data property is cached:
\* the map of every object up to its holder is compared, and all but the
\* holder's are flattened first.
LoadUnit(path, h, n) ==
  [guards |-> MapsOf(Append(path, h)),
   via    |-> Tail(Append(path, h)),
   offset |-> Entry(MapOf(h), n).offset]

Load(n, o) ==
  LET h    == Holder(o, n)
      path == Path(o, h)
  IN /\ Missed(loadIC[n], o)
     /\ Room(loadIC[n])
     /\ h # NoObject
     /\ Entry(MapOf(h), n).attributes.type = "data"
     /\ loadIC' = [loadIC EXCEPT ![n] = Append(@, LoadUnit(path, h, n))]
     /\ maps' = ChainFlattened(maps, path)
     /\ UNCHANGED <<objs, storeIC>>

-----------------------------------------------------------------------------
(* Stores                                                                  *)

\* What a store unit does to the object its guards let through: it gets the
\* unit's map, more storage if the unit says so, and the value in the slot.
Stored(u, o, v) ==
  [(IF u.grow THEN Resized(Slots(o), GetSlotsSize(maps[u.map])) ELSE Slots(o))
     EXCEPT ![u.offset] = v]

StoreHit(n, o, v) ==
  \E i \in Hits(storeIC[n], o) :
    LET u == storeIC[n][i]
    IN /\ Become(o, Moved(maps, u.map), Stored(u, o, v))
       /\ UNCHANGED <<loadIC, storeIC>>

\* A store that no unit handles, STORE_PROP: the put, and then a unit that
\* repeats it.  A put of the value that is there already marks no result and
\* leaves no unit.  The put of a value never changes attributes, so the case
\* of a replacement that changes the map (StoreReplacePropertyWithMapTransition)
\* does not come up.
AddStoreUnit(n, path, map, offset, grow) ==
  storeIC' = [storeIC EXCEPT ![n] =
                Append(@, [guards |-> MapsOf(path), via |-> Tail(path),
                           map |-> map, offset |-> offset, grow |-> grow])]

StoreReplace(n, o, v) ==
  LET m == MapOf(o)
  IN /\ Missed(storeIC[n], o)
     /\ Room(storeIC[n])
     /\ CanPutData(o, n)
     /\ DefineFound(o, n, ValueOnly(v))
     /\ Redefined(o, n, ValueOnly(v)).moved.map = m
     /\ AddStoreUnit(n, <<o>>, m, Entry(m, n).offset, FALSE)
     /\ UNCHANGED loadIC

\* A new property: cached when both maps are shared.  All maps of the chain are
\* flattened, the object's own being the one it had before the put.
StoreNew(n, o, v) ==
  LET added == Added(o, n, DefaultData(v))
      heap  == added.moved.maps
      from  == maps[MapOf(o)]
      to    == heap[added.moved.map]
      path  == Path(o, NoObject)
  IN /\ Missed(storeIC[n], o)
     /\ Room(storeIC[n])
     /\ CanPutData(o, n)
     /\ ~HasOwn(o, n)
     /\ objs[o].extensible
     /\ ~from.unique /\ ~to.unique
     /\ Become(o, Moved(ChainFlattened(heap, path), added.moved.map), added.slots)
     /\ AddStoreUnit(n, path, added.moved.map, to.table[n].offset,
                     StorageCapacity(from) # StorageCapacity(to))
     /\ UNCHANGED loadIC

-----------------------------------------------------------------------------
ICInit ==
  /\ Init
  /\ loadIC = [n \in LoadSites |-> <<>>]
  /\ storeIC = [n \in StoreSites |-> <<>>]

\* Next stands for everything else that runs: the runtime, the interpreter and
\* compiled code of other sites.  A load that hits, or whose cache is full,
\* changes nothing; a store of the generic stub is a Put.
ICNext ==
  \/ Next /\ UNCHANGED <<loadIC, storeIC>>
  \/ \E o \in Objects :
       \/ \E n \in LoadSites : Load(n, o)
       \/ \E n \in StoreSites, v \in PutValues :
            StoreHit(n, o, v) \/ StoreReplace(n, o, v) \/ StoreNew(n, o, v)

ICSpec == ICInit /\ [][ICNext]_ivars

-----------------------------------------------------------------------------
(* Properties                                                              *)

\* A load unit that lets an object through reads the slot that the full lookup
\* would find, whatever happened to the object, to the objects it shares maps
\* with and to its prototypes since the unit was generated.
LoadICSound ==
  \A n \in LoadSites, o \in Objects : \A i \in Hits(loadIC[n], o) :
    LET u == loadIC[n][i]
        h == Holder(o, n)
    IN /\ h = Reached(u, o)
       /\ Entry(MapOf(h), n).attributes.type = "data"
       /\ Entry(MapOf(h), n).offset = u.offset

\* A store unit that lets an object through does what the put would do: it
\* replaces a writable own property, or takes the transition that the object's
\* map has for the new property, with storage for its slot, when no setter and
\* no read-only property is on the chain and the object is extensible.
StoreICSound ==
  \A n \in StoreSites, o \in Objects : \A i \in Hits(storeIC[n], o) :
    LET u == storeIC[n][i]
        m == MapOf(o)
        added == AddPropertyTransition(m, n, NewSlot(DefaultData(Undefined)).attributes)
    IN /\ CanPutData(o, n)
       /\ u.offset \in DOMAIN Stored(u, o, Undefined)
       /\ IF HasOwn(o, n)
          THEN u.map = m /\ u.offset = Entry(m, n).offset
          ELSE /\ objs[o].extensible
               /\ added = Moved(maps, u.map)
               /\ u.offset = Entry(u.map, n).offset
=============================================================================
