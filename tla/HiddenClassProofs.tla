------------------------- MODULE HiddenClassProofs -------------------------
(***************************************************************************)
(* HiddenClass for every set of objects, names and descriptors and every   *)
(* kMaxTransition.                                                         *)
(*                                                                         *)
(* Maps: TypeOK, UniqueMapsNotShared, GuardedMapsStable, OffsetsAreSlots   *)
(* and TransitionsAddOneProperty, in four layers: what the sequence of     *)
(* maps is after an append or an update; what each transition of Map does  *)
(* to it (Evolves); what a step that moves one object along a transition   *)
(* keeps; and, on top of that, that the offsets of a map are the first     *)
(* slots and that a recorded transition adds its property (Exact).         *)
(*                                                                         *)
(* Slots hold what their maps say (SlotsMatchMap): first what storage is   *)
(* given, then what each step does to the object it is about and to those  *)
(* that share its map, then that the slots stay matched.                   *)
(*                                                                         *)
(* Maps and slots implement the objects of ECMAScript 5                    *)
(* (ImplementsObjects).  The lookups of both sides are recursive functions *)
(* on the prototype chain: first that they are what their equations say on *)
(* a chain that ends, then that no step makes one that does not, then the  *)
(* steps.                                                                  *)
(***************************************************************************)
EXTENDS HiddenClass, SharedLemmas, FiniteSetTheorems, SequenceTheorems

\* A heap of maps, as a value: maps is one, and so is what a transition answers.
Ids(h) == 1..Len(h)
Heap(h) == h \in Seq({h[m] : m \in Ids(h)})
Typed(h) == Heap(h) /\ \A m \in Ids(h) : IsMap(h[m], Ids(h))

\* A sequence of anything is a heap: it is a sequence of its own elements.
LEMMA SequenceIsHeap ==
  ASSUME NEW S, NEW h \in Seq(S)
  PROVE  Heap(h) /\ DOMAIN h = Ids(h) /\ Len(h) \in Nat
<1>1. Len(h) \in Nat /\ DOMAIN h = 1..Len(h) /\ h = [i \in 1..Len(h) |-> h[i]]
  BY LenProperties
<1> DEFINE T == {h[m] : m \in 1..Len(h)}
<1>2. \A i \in 1..Len(h) : h[i] \in T
  OBVIOUS
<1> HIDE DEF T
<1>3. [i \in 1..Len(h) |-> h[i]] \in Seq(T)
  BY <1>1, <1>2
<1> QED BY <1>1, <1>3 DEF Heap, Ids, T

\* Creating a map (Appended, the code's Map::New calls) keeps every map there
\* was and puts the new one last.
LEMMA AppendHeap ==
  ASSUME NEW h, Heap(h), NEW r
  PROVE  LET g == Append(h, r)
         IN /\ Heap(g)
            /\ Len(h) \in Nat
            /\ Len(g) = Len(h) + 1
            /\ \A m \in Ids(h) : g[m] = h[m]
            /\ g[Len(h) + 1] = r
<1> DEFINE g == Append(h, r)
           S == {h[m] : m \in Ids(h)} \cup {r}
<1>1. h \in Seq(S)
  BY DEF Heap, Ids
<1>2. g \in Seq(S) /\ Len(h) \in Nat /\ Len(g) = Len(h) + 1
  BY <1>1
<1>3. \A m \in Ids(h) : g[m] = h[m]
  BY <1>1 DEF Ids
<1>4. g[Len(h) + 1] = r
  BY <1>1
<1> QED BY <1>2, <1>3, <1>4 DEF Heap, Ids

\* Changing one map in place (a unique map, or the transition table of a shared
\* one) keeps all the others.
LEMMA UpdateHeap ==
  ASSUME NEW h, Heap(h), NEW m \in Ids(h), NEW r
  PROVE  LET g == [h EXCEPT ![m] = r]
         IN /\ Heap(g)
            /\ Len(h) \in Nat
            /\ Len(g) = Len(h)
            /\ g[m] = r
            /\ \A k \in Ids(h) : k # m => g[k] = h[k]
<1> DEFINE g == [h EXCEPT ![m] = r]
           S == {h[k] : k \in Ids(h)} \cup {r}
<1>1. h \in Seq(S)
  BY DEF Heap, Ids
<1>2. g \in Seq(S) /\ Len(g) = Len(h) /\ DOMAIN g = DOMAIN h
  BY <1>1, ExceptSeq DEF Ids
<1>3. DOMAIN h = Ids(h)
  BY <1>1 DEF Ids
<1>4. g[m] = r /\ \A k \in Ids(h) : k # m => g[k] = h[k]
  BY <1>3
<1>5. Heap(g)
  BY <1>2, SequenceIsHeap
<1>6. Len(h) \in Nat
  BY <1>1
<1> QED BY <1>2, <1>4, <1>5, <1>6

\* Map::GetSlotsSize is a number: a table has finitely many names.
LEMMA SlotsSizeNat ==
  ASSUME NEW r, NEW ids, IsMap(r, ids)
  PROVE  GetSlotsSize(r) \in Nat
<1>1. IsFiniteSet(DOMAIN r.table)
  BY HeapAssumption, FS_Subset DEF IsMap
<1>2. Cardinality(DOMAIN r.table) \in Nat
  BY <1>1, FS_CardinalityType
<1> QED BY <1>2 DEF GetSlotsSize, IsMap

\* The constructor Map::Map(previous, unique) makes a well-formed map with the
\* properties of the one before it and with no transitions yet.
LEMMA DerivedIsMap ==
  ASSUME NEW r, NEW ids, IsMap(r, ids), NEW u \in BOOLEAN
  PROVE  /\ IsMap(Derived(r, u), ids)
         /\ Derived(r, u).unique = u
         /\ Derived(r, u).flattened = FALSE
         /\ Derived(r, u).table = r.table
         /\ DOMAIN Derived(r, u).transitions = {}
BY DEF IsMap, Derived, MapFields

\* Adding an entry, at a freed offset (Map::deleted_) or at the end, makes a
\* well-formed map and leaves every other property of the map where it was.
LEMMA ExtendIsMap ==
  ASSUME NEW r, NEW ids, IsMap(r, ids), NEW n \in Names, NEW a \in StoredAttributes
  PROVE  /\ IsMap(Extend(r, n, a), ids)
         /\ Extend(r, n, a).unique = r.unique
         /\ Extend(r, n, a).flattened = r.flattened
         /\ Extend(r, n, a).transitions = r.transitions
         /\ \A x \in DOMAIN r.table \ {n} :
              x \in DOMAIN Extend(r, n, a).table /\ Extend(r, n, a).table[x] = r.table[x]
<1> DEFINE e == Extend(r, n, a)
           reuse == r.deleted # <<>>
           offset == IF reuse THEN Head(r.deleted) ELSE GetSlotsSize(r)
           t == With(r.table, n, [offset |-> offset, attributes |-> a])
           d == IF reuse THEN Tail(r.deleted) ELSE r.deleted
<1>1. e = [r EXCEPT !.table = t, !.deleted = d]
  BY DEF Extend
<1>2. offset \in Nat /\ d \in Seq(Nat)
  <2>1. r.deleted \in Seq(Nat) /\ GetSlotsSize(r) \in Nat
    BY SlotsSizeNat DEF IsMap
  <2>2. CASE r.deleted # <<>>
    BY <2>1, <2>2, HeadTailProperties
  <2>3. CASE r.deleted = <<>>
    BY <2>1, <2>3
  <2> QED BY <2>2, <2>3
<1>3. /\ DOMAIN t = DOMAIN r.table \cup {n}
      /\ \A x \in DOMAIN t : t[x] = IF x = n THEN [offset |-> offset, attributes |-> a] ELSE r.table[x]
  BY DEF With
<1> HIDE DEF t, d, offset, reuse
<1>4. /\ DOMAIN e = DOMAIN r
      /\ DOMAIN r = MapFields
      /\ e.table = t /\ e.deleted = d /\ e.prototype = r.prototype
      /\ e.unique = r.unique /\ e.flattened = r.flattened /\ e.indexed = r.indexed
      /\ e.transitions = r.transitions /\ e.transitCount = r.transitCount
  BY <1>1 DEF IsMap, MapFields
<1>5. \A x \in DOMAIN t : t[x] \in [offset : Nat, attributes : StoredAttributes]
  BY <1>2, <1>3 DEF IsMap
<1> QED BY <1>2, <1>3, <1>4, <1>5 DEF IsMap

-----------------------------------------------------------------------------
(* Transitions.  TransitionsShared is the second half of the invariant that *)
(* unique maps are not shared, as a property of the heap of maps alone.     *)

TransitionsShared(h) ==
  \A m \in Ids(h) : \A key \in DOMAIN h[m].transitions :
    ~h[h[m].transitions[key]].unique

\* What compiled code needs of a map that is used (Stable), and that a
\* transition stays when it is recorded.
Lasting(r, s) ==
  /\ Stable(r, s)
  /\ ~r.unique => \A key \in DOMAIN r.transitions :
                    key \in DOMAIN s.transitions /\ s.transitions[key] = r.transitions[key]

\* A map that no transition is from may be flattened when the step records it
\* in an inline cache.
Kept(r, s) == s = r \/ (r.unique /\ ~r.flattened /\ s = [r EXCEPT !.flattened = TRUE])

\* What every transition from map m guarantees about the heap after it.
Evolves(m, moved) ==
  LET h == moved.maps
      t == moved.map
  IN /\ Typed(h)
     /\ TransitionsShared(h)
     /\ Len(h) \in {Len(maps), Len(maps) + 1}
     /\ t \in Ids(h)
     /\ \A k \in LiveMaps : k # m => Kept(maps[k], h[k])
     /\ Lasting(maps[m], h[m])
     /\ h[t].unique => t = m \/ t = Len(maps) + 1

HeapOK == Typed(maps) /\ TransitionsShared(maps)

\* A map that is well-formed stays so when more maps exist.
LEMMA IsMapMonotonic ==
  ASSUME NEW r, NEW ids1, NEW ids2, ids1 \subseteq ids2, IsMap(r, ids1)
  PROVE  IsMap(r, ids2)
BY DEF IsMap

\* A map that does not change lasts, and so does one that is flattened.
LEMMA KeptLasts ==
  ASSUME NEW r, NEW ids, IsMap(r, ids)
  PROVE  /\ Lasting(r, r) /\ Kept(r, r)
         /\ \A s : Kept(r, s) => /\ Lasting(r, s) /\ IsMap(s, ids)
                                 /\ \A f \in MapFields \ {"flattened"} : s[f] = r[f]
<1>1. Lasting(r, r) /\ Kept(r, r)
  BY DEF Lasting, Stable, Kept, IsMap, MapFields
<1> SUFFICES ASSUME NEW s, Kept(r, s)
             PROVE  /\ Lasting(r, s) /\ IsMap(s, ids)
                    /\ \A f \in MapFields \ {"flattened"} : s[f] = r[f]
  BY <1>1
<1>2. CASE s = r
  BY <1>1, <1>2
<1>3. CASE r.unique /\ ~r.flattened /\ s = [r EXCEPT !.flattened = TRUE]
  <2>1. /\ DOMAIN s = MapFields /\ s.flattened = TRUE
        /\ \A f \in MapFields \ {"flattened"} : s[f] = r[f]
    BY <1>3 DEF IsMap, MapFields
  <2> QED BY <1>3, <2>1 DEF Lasting, Stable, IsMap, MapFields
<1> QED BY <1>2, <1>3 DEF Kept

\* A transition that answers a new map without transitions of its own disturbs
\* no other map.  This is the case of every Map::NewUniqueMap.
LEMMA AppendedEvolves ==
  ASSUME HeapOK, NEW m \in LiveMaps, NEW r, IsMap(r, LiveMaps), DOMAIN r.transitions = {}
  PROVE  Evolves(m, Appended(r))
<1> DEFINE h == Append(maps, r)
<1>1. /\ Heap(h) /\ Len(maps) \in Nat /\ Len(h) = Len(maps) + 1
      /\ \A k \in LiveMaps : h[k] = maps[k]
      /\ h[Len(maps) + 1] = r
  BY AppendHeap DEF HeapOK, Typed, LiveMaps, Ids
<1> HIDE DEF h
<1>2. /\ Ids(h) = LiveMaps \cup {Len(maps) + 1} /\ Len(maps) + 1 \in Ids(h)
      /\ LiveMaps \subseteq Ids(h)
  BY <1>1 DEF Ids, LiveMaps
<1>3. \A k \in Ids(h) : IsMap(h[k], Ids(h))
  <2> SUFFICES ASSUME NEW k \in Ids(h) PROVE IsMap(h[k], Ids(h))
    OBVIOUS
  <2>1. IsMap(h[k], LiveMaps)
    BY <1>1, <1>2 DEF HeapOK, Typed, Ids, LiveMaps
  <2> QED BY <2>1, <1>2, IsMapMonotonic
<1>4. TransitionsShared(h)
  <2> SUFFICES ASSUME NEW k \in Ids(h), NEW key \in DOMAIN h[k].transitions
               PROVE  ~h[h[k].transitions[key]].unique
    BY DEF TransitionsShared
  <2>1. k \in LiveMaps /\ h[k] = maps[k]
    BY <1>1, <1>2
  <2>2. maps[k].transitions[key] \in LiveMaps /\ ~maps[maps[k].transitions[key]].unique
    BY <2>1 DEF HeapOK, Typed, TransitionsShared, IsMap, Ids, LiveMaps
  <2> QED BY <1>1, <2>1, <2>2
<1>5. Lasting(maps[m], h[m])
  BY <1>1, KeptLasts DEF HeapOK, Typed, Ids, LiveMaps
<1> QED
  BY <1>1, <1>2, <1>3, <1>4, <1>5 DEF Evolves, Kept, Appended, Moved, Typed, h

\* The unique-map path of a transition (IsUnique() in map.h) changes m alone, in
\* place, or leaves it alone for a map of its own; nothing leads to m by then.
LEMMA UniquelyEvolves ==
  ASSUME HeapOK, NEW m \in LiveMaps, NEW r, IsMap(r, LiveMaps),
         r.unique, ~r.flattened, DOMAIN r.transitions = {},
         \A n \in DOMAIN maps[m].table :
           n \in DOMAIN r.table /\ r.table[n] = maps[m].table[n]
  PROVE  Evolves(m, Uniquely(m, r))
<1>1. CASE ~(maps[m].unique /\ ~maps[m].flattened)
  BY <1>1, AppendedEvolves DEF Uniquely
<1>2. CASE maps[m].unique /\ ~maps[m].flattened
  <2> DEFINE h == [maps EXCEPT ![m] = r]
  <2>1. /\ Heap(h) /\ Len(maps) \in Nat /\ Len(h) = Len(maps)
        /\ h[m] = r
        /\ \A k \in LiveMaps : k # m => h[k] = maps[k]
    <3>1. Heap(maps) /\ m \in Ids(maps)
      BY DEF HeapOK, Typed, LiveMaps, Ids
    <3> QED BY <3>1, UpdateHeap DEF LiveMaps, Ids
  <2>2. Uniquely(m, r) = [maps |-> h, map |-> m]
    BY <1>2 DEF Uniquely, Moved
  <2> HIDE DEF h
  <2>3. Ids(h) = LiveMaps
    BY <2>1 DEF Ids, LiveMaps
  <2>4. \A k \in Ids(h) : IsMap(h[k], Ids(h))
    BY <2>1, <2>3 DEF HeapOK, Typed, Ids, LiveMaps
  <2>5. TransitionsShared(h)
    <3> SUFFICES ASSUME NEW k \in Ids(h), NEW key \in DOMAIN h[k].transitions
                 PROVE  ~h[h[k].transitions[key]].unique
      BY DEF TransitionsShared
    <3>1. k # m /\ k \in LiveMaps /\ h[k] = maps[k]
      BY <2>1, <2>3
    <3>2. maps[k].transitions[key] \in LiveMaps /\ ~maps[maps[k].transitions[key]].unique
      BY <3>1 DEF HeapOK, Typed, TransitionsShared, IsMap, Ids, LiveMaps
    <3> QED BY <1>2, <2>1, <3>1, <3>2
  <2>6. Lasting(maps[m], h[m])
    BY <1>2, <2>1 DEF Lasting, Stable
  <2> QED BY <2>1, <2>2, <2>3, <2>4, <2>5, <2>6 DEF Evolves, Kept, Typed
<1> QED BY <1>1, <1>2

\* A transition that answers a map that exists creates nothing; the map is m
\* itself or a shared one.
LEMMA StayingEvolves ==
  ASSUME HeapOK, NEW m \in LiveMaps, NEW t \in LiveMaps, maps[t].unique => t = m
  PROVE  Evolves(m, Moved(maps, t))
BY KeptLasts, SequenceIsHeap DEF Evolves, Moved, HeapOK, Typed, Ids, LiveMaps

\* Map::AddPropertyTransition: the transition found, the shared map created and
\* recorded in transitions_, and the unique map are the three cases.
LEMMA AddPropertyEvolves ==
  ASSUME HeapOK, NEW m \in LiveMaps, NEW n \in Names, NEW a \in StoredAttributes,
         n \notin DOMAIN maps[m].table
  PROVE  Evolves(m, AddPropertyTransition(m, n, a))
<1> DEFINE r == maps[m]
           key == <<n, a>>
<1>1. IsMap(r, LiveMaps)
  BY DEF HeapOK, Typed, Ids, LiveMaps
<1>2. CASE ~r.unique /\ key \in DOMAIN r.transitions
  <2>1. AddPropertyTransition(m, n, a) = Moved(maps, r.transitions[key])
    BY <1>2 DEF AddPropertyTransition
  <2>2. r.transitions[key] \in LiveMaps /\ ~maps[r.transitions[key]].unique
    BY <1>1, <1>2 DEF IsMap, HeapOK, TransitionsShared, Ids, LiveMaps
  <2> QED BY <2>1, <2>2, StayingEvolves
<1>3. CASE /\ ~r.unique /\ key \notin DOMAIN r.transitions
           /\ r.transitCount <= MaxTransition
  <2> DEFINE next == [Extend(Derived(r, FALSE), n, a) EXCEPT !.transitCount = r.transitCount + 1]
             parent == [r EXCEPT !.transitions = With(@, key, Len(maps) + 1)]
             g == [maps EXCEPT ![m] = parent]
             h == Append(g, next)
  <2>1. AddPropertyTransition(m, n, a) = [maps |-> h, map |-> Len(maps) + 1]
    BY <1>3 DEF AddPropertyTransition, Moved
  <2>2. IsMap(next, LiveMaps) /\ ~next.unique /\ DOMAIN next.transitions = {}
    <3> DEFINE d == Derived(r, FALSE)
               e == Extend(d, n, a)
    <3>1. IsMap(d, LiveMaps) /\ d.unique = FALSE /\ DOMAIN d.transitions = {}
      BY <1>1, DerivedIsMap
    <3> HIDE DEF d
    <3>2. IsMap(e, LiveMaps) /\ ~e.unique /\ DOMAIN e.transitions = {}
      BY <3>1, ExtendIsMap
    <3>3. r.transitCount + 1 \in Nat
      BY <1>1 DEF IsMap
    <3> HIDE DEF e
    <3>4. LET s == [e EXCEPT !.transitCount = r.transitCount + 1]
          IN IsMap(s, LiveMaps) /\ ~s.unique /\ DOMAIN s.transitions = {}
      BY <3>2, <3>3 DEF IsMap, MapFields
    <3> QED BY <3>4 DEF d, e
  <2>3. /\ DOMAIN parent = MapFields /\ parent.unique = r.unique
        /\ parent.transitions = With(r.transitions, key, Len(maps) + 1)
        /\ \A f \in MapFields \ {"transitions"} : parent[f] = r[f]
    BY <1>1 DEF IsMap, MapFields
  <2> HIDE DEF next, parent
  <2>4. /\ Heap(g) /\ Len(maps) \in Nat /\ Len(g) = Len(maps) /\ g[m] = parent
        /\ \A k \in LiveMaps : k # m => g[k] = maps[k]
    <3>1. Heap(maps) /\ m \in Ids(maps)
      BY DEF HeapOK, Typed, LiveMaps, Ids
    <3> QED BY <3>1, UpdateHeap DEF LiveMaps, Ids
  <2> HIDE DEF g
  <2>5. /\ Heap(h) /\ Len(h) = Len(maps) + 1
        /\ h[m] = parent /\ h[Len(maps) + 1] = next
        /\ \A k \in LiveMaps : k # m => h[k] = maps[k]
    BY <2>4, AppendHeap DEF Ids, LiveMaps
  <2> HIDE DEF h
  <2>6. /\ Ids(h) = LiveMaps \cup {Len(maps) + 1} /\ Len(maps) + 1 \in Ids(h)
        /\ LiveMaps \subseteq Ids(h) /\ Len(maps) + 1 \notin LiveMaps
    BY <2>4, <2>5 DEF Ids, LiveMaps
  <2>7. IsMap(parent, Ids(h))
    <3>1. \A k \in DOMAIN parent.transitions : parent.transitions[k] \in Ids(h)
      BY <1>1, <2>3, <2>6 DEF With, IsMap
    <3> QED BY <1>1, <2>3, <3>1 DEF IsMap, MapFields
  <2>8. \A k \in Ids(h) : IsMap(h[k], Ids(h))
    <3> SUFFICES ASSUME NEW k \in Ids(h) PROVE IsMap(h[k], Ids(h))
      OBVIOUS
    <3>1. k # m => IsMap(h[k], LiveMaps)
      BY <2>2, <2>5, <2>6 DEF HeapOK, Typed, Ids, LiveMaps
    <3> QED BY <2>5, <2>6, <2>7, <3>1, IsMapMonotonic
  <2>9. TransitionsShared(h)
    <3> SUFFICES ASSUME NEW k \in Ids(h), NEW j \in DOMAIN h[k].transitions
                 PROVE  ~h[h[k].transitions[j]].unique
      BY DEF TransitionsShared
    <3>1. \A i \in LiveMaps : ~maps[i].unique => ~h[i].unique
      BY <2>3, <2>5
    <3>2. CASE k = m
      <4>1. CASE j = key
        BY <3>2, <4>1, <2>2, <2>3, <2>5 DEF With
      <4>2. CASE j # key
        <5>1. j \in DOMAIN r.transitions /\ h[k].transitions[j] = r.transitions[j]
          BY <3>2, <4>2, <2>3, <2>5 DEF With
        <5>2. r.transitions[j] \in LiveMaps /\ ~maps[r.transitions[j]].unique
          BY <5>1, <1>1 DEF IsMap, HeapOK, TransitionsShared, Ids, LiveMaps
        <5> QED BY <3>1, <5>1, <5>2
      <4> QED BY <4>1, <4>2
    <3>3. CASE k # m
      <4>1. k \in LiveMaps /\ h[k] = maps[k]
        BY <3>3, <2>2, <2>5, <2>6
      <4>2. maps[k].transitions[j] \in LiveMaps /\ ~maps[maps[k].transitions[j]].unique
        BY <4>1 DEF HeapOK, Typed, TransitionsShared, IsMap, Ids, LiveMaps
      <4> QED BY <3>1, <4>1, <4>2
    <3> QED BY <3>2, <3>3
  <2>10. Lasting(maps[m], h[m])
    BY <1>1, <1>3, <2>3, <2>5 DEF Lasting, Stable, With, IsMap, MapFields
  <2>11. Typed(h)
    BY <2>5, <2>8 DEF Typed
  <2>12. Evolves(m, [maps |-> h, map |-> Len(maps) + 1])
    BY <2>5, <2>6, <2>9, <2>10, <2>11 DEF Evolves, Kept
  <2> QED BY <2>1, <2>12
<1>4. CASE /\ ~(~r.unique /\ key \in DOMAIN r.transitions)
           /\ ~(/\ ~r.unique /\ key \notin DOMAIN r.transitions
                /\ r.transitCount <= MaxTransition)
  <2> DEFINE d == Derived(r, TRUE)
             e == Extend(d, n, a)
  <2>1. AddPropertyTransition(m, n, a) = Uniquely(m, e)
    BY <1>4 DEF AddPropertyTransition
  <2>2. /\ IsMap(d, LiveMaps) /\ d.unique /\ ~d.flattened /\ d.table = r.table
        /\ DOMAIN d.transitions = {}
    BY <1>1, DerivedIsMap
  <2> HIDE DEF d
  <2>3. /\ IsMap(e, LiveMaps) /\ e.unique /\ ~e.flattened /\ DOMAIN e.transitions = {}
        /\ \A x \in DOMAIN r.table : x \in DOMAIN e.table /\ e.table[x] = r.table[x]
    BY <2>2, ExtendIsMap
  <2> HIDE DEF e
  <2> QED BY <2>1, <2>3, UniquelyEvolves
<1> QED BY <1>2, <1>3, <1>4

\* Map::DeletePropertyTransition makes a unique map without the property.
LEMMA DeletePropertyEvolves ==
  ASSUME HeapOK, NEW m \in LiveMaps, NEW n \in DOMAIN maps[m].table
  PROVE  Evolves(m, DeletePropertyTransition(m, n))
<1> DEFINE d == Derived(maps[m], TRUE)
           t == [x \in DOMAIN d.table \ {n} |-> d.table[x]]
           e == [d EXCEPT !.table = t, !.deleted = <<d.table[n].offset>> \o @]
<1>1. /\ IsMap(d, LiveMaps) /\ d.table = maps[m].table /\ DOMAIN d.transitions = {}
  BY DerivedIsMap DEF HeapOK, Typed, Ids, LiveMaps
<1>2. DeletePropertyTransition(m, n) = Appended(e)
  BY DEF DeletePropertyTransition, Shrink
<1> HIDE DEF d
<1>3. <<d.table[n].offset>> \o d.deleted \in Seq(Nat)
  BY <1>1, ConcatProperties DEF IsMap
<1>4. /\ DOMAIN t \subseteq Names
      /\ \A x \in DOMAIN t : t[x] \in [offset : Nat, attributes : StoredAttributes]
  BY <1>1 DEF IsMap
<1> HIDE DEF t
<1>5. IsMap(e, LiveMaps) /\ DOMAIN e.transitions = {}
  BY <1>1, <1>3, <1>4 DEF IsMap, MapFields
<1> HIDE DEF e
<1> QED BY <1>2, <1>5, AppendedEvolves

\* Map::ChangeAttributesTransition makes a unique map with other attributes.
LEMMA ChangeAttributesEvolves ==
  ASSUME HeapOK, NEW m \in LiveMaps, NEW n \in DOMAIN maps[m].table,
         NEW a \in StoredAttributes
  PROVE  Evolves(m, ChangeAttributesTransition(m, n, a))
<1> DEFINE d == Derived(maps[m], TRUE)
           t == [d.table EXCEPT ![n] = [d.table[n] EXCEPT !.attributes = a]]
           e == [d EXCEPT !.table = t]
<1>1. /\ IsMap(d, LiveMaps) /\ d.table = maps[m].table /\ DOMAIN d.transitions = {}
  BY DerivedIsMap DEF HeapOK, Typed, Ids, LiveMaps
<1>2. ChangeAttributesTransition(m, n, a) = Appended(e)
  BY DEF ChangeAttributesTransition
<1> HIDE DEF d
<1>3. /\ DOMAIN t \subseteq Names
      /\ \A x \in DOMAIN t : t[x] \in [offset : Nat, attributes : StoredAttributes]
  BY <1>1 DEF IsMap
<1> HIDE DEF t
<1>4. IsMap(e, LiveMaps) /\ DOMAIN e.transitions = {}
  BY <1>1, <1>3 DEF IsMap, MapFields
<1> HIDE DEF e
<1> QED BY <1>2, <1>4, AppendedEvolves

\* Map::ChangePrototypeTransition takes the unique-map path.
LEMMA ChangePrototypeEvolves ==
  ASSUME HeapOK, NEW m \in LiveMaps, NEW p \in Objects \cup {NoObject}
  PROVE  Evolves(m, ChangePrototypeTransition(m, p))
<1> DEFINE d == Derived(maps[m], TRUE)
           e == [d EXCEPT !.prototype = p]
<1>1. /\ IsMap(d, LiveMaps) /\ d.table = maps[m].table /\ DOMAIN d.transitions = {}
      /\ d.unique = TRUE /\ d.flattened = FALSE
  BY DerivedIsMap DEF HeapOK, Typed, Ids, LiveMaps
<1>2. ChangePrototypeTransition(m, p) = Uniquely(m, e)
  BY DEF ChangePrototypeTransition
<1> HIDE DEF d
<1>3. /\ IsMap(e, LiveMaps) /\ DOMAIN e.transitions = {} /\ e.table = maps[m].table
      /\ e.unique /\ ~e.flattened
  BY <1>1 DEF IsMap, MapFields
<1> HIDE DEF e
<1> QED BY <1>2, <1>3, UniquelyEvolves

\* Map::ChangeIndexedTransition takes the unique-map path.
LEMMA ChangeIndexedEvolves ==
  ASSUME HeapOK, NEW m \in LiveMaps
  PROVE  Evolves(m, ChangeIndexedTransition(m))
<1> DEFINE d == Derived(maps[m], TRUE)
           e == [d EXCEPT !.indexed = TRUE]
<1>1. /\ IsMap(d, LiveMaps) /\ d.table = maps[m].table /\ DOMAIN d.transitions = {}
      /\ d.unique = TRUE /\ d.flattened = FALSE
  BY DerivedIsMap DEF HeapOK, Typed, Ids, LiveMaps
<1>2. ChangeIndexedTransition(m) = Uniquely(m, e)
  BY DEF ChangeIndexedTransition
<1> HIDE DEF d
<1>3. /\ IsMap(e, LiveMaps) /\ DOMAIN e.transitions = {} /\ e.table = maps[m].table
      /\ e.unique /\ ~e.flattened
  BY <1>1 DEF IsMap, MapFields
<1> HIDE DEF e
<1> QED BY <1>2, <1>3, UniquelyEvolves

\* Map::ChangeExtensibleTransition makes a unique map, so that compiled stores
\* no longer recognise the object.
LEMMA ChangeExtensibleEvolves ==
  ASSUME HeapOK, NEW m \in LiveMaps
  PROVE  Evolves(m, ChangeExtensibleTransition(m))
<1>1. /\ IsMap(Derived(maps[m], TRUE), LiveMaps)
      /\ DOMAIN Derived(maps[m], TRUE).transitions = {}
  BY DerivedIsMap DEF HeapOK, Typed, Ids, LiveMaps
<1> QED BY <1>1, AppendedEvolves DEF ChangeExtensibleTransition

\* Map::Flatten of any maps of a heap disturbs none of them.
LEMMA FlattenedHeap ==
  ASSUME NEW h, Typed(h), TransitionsShared(h), NEW ms
  PROVE  LET g == Flattened(h, ms)
         IN /\ Typed(g) /\ TransitionsShared(g) /\ Len(g) = Len(h)
            /\ \A k \in Ids(h) : Kept(h[k], g[k])
<1> DEFINE g == Flattened(h, ms)
           T == {g[k] : k \in Ids(h)}
<1>1. DOMAIN h = Ids(h) /\ Len(h) \in Nat
  BY SequenceIsHeap DEF Typed, Heap
<1>2. DOMAIN g = Ids(h) /\ \A k \in Ids(h) : Kept(h[k], g[k])
  BY <1>1 DEF Flattened, Kept
<1>3. g = [k \in 1..Len(h) |-> g[k]] /\ \A k \in 1..Len(h) : g[k] \in T
  BY <1>1 DEF Flattened, Ids
<1> HIDE DEF T, g
<1>4. g \in Seq(T)
  BY <1>1, <1>3
<1>5. Len(g) = Len(h) /\ Ids(g) = Ids(h)
  BY <1>1, <1>2, <1>4, LenProperties DEF Ids
<1>6. Heap(g)
  BY <1>4, <1>5 DEF Heap, T
<1>7. \A k \in Ids(h) : /\ IsMap(g[k], Ids(h))
                        /\ g[k].transitions = h[k].transitions /\ g[k].unique = h[k].unique
  <2> SUFFICES ASSUME NEW k \in Ids(h)
               PROVE  /\ IsMap(g[k], Ids(h))
                      /\ g[k].transitions = h[k].transitions /\ g[k].unique = h[k].unique
    OBVIOUS
  <2>1. IsMap(h[k], Ids(h)) /\ Kept(h[k], g[k])
    BY <1>2 DEF Typed
  <2> QED BY <2>1, KeptLasts DEF MapFields
<1>8. Typed(g)
  BY <1>5, <1>6, <1>7 DEF Typed
<1>9. TransitionsShared(g)
  <2> SUFFICES ASSUME NEW k \in Ids(h), NEW key \in DOMAIN g[k].transitions
               PROVE  ~g[g[k].transitions[key]].unique
    BY <1>5 DEF TransitionsShared
  <2>1. h[k].transitions[key] \in Ids(h) /\ ~h[h[k].transitions[key]].unique
    BY <1>7 DEF Typed, IsMap, TransitionsShared
  <2> QED BY <1>7, <2>1
<1> QED BY <1>2, <1>5, <1>8, <1>9 DEF g

\* An inline cache that records what a step was may flatten maps of the heap
\* that the step left.
LEMMA FlattenedEvolves ==
  ASSUME HeapOK, NEW m \in LiveMaps, NEW moved, Evolves(m, moved), NEW ms
  PROVE  LET g == Flattened(moved.maps, ms)
         IN Evolves(m, Moved(g, moved.map)) /\ Len(g) = Len(moved.maps)
<1> DEFINE h == moved.maps
           t == moved.map
           g == Flattened(h, ms)
<1>1. /\ Typed(h) /\ TransitionsShared(h)
      /\ Len(h) \in {Len(maps), Len(maps) + 1}
      /\ t \in Ids(h)
      /\ \A k \in LiveMaps : k # m => Kept(maps[k], h[k])
      /\ Lasting(maps[m], h[m])
      /\ h[t].unique => t = m \/ t = Len(maps) + 1
  BY DEF Evolves
<1> HIDE DEF h, t
<1>2. /\ Typed(g) /\ TransitionsShared(g) /\ Len(g) = Len(h)
      /\ \A k \in Ids(h) : Kept(h[k], g[k])
  BY <1>1, FlattenedHeap
<1> HIDE DEF g
<1>3. LiveMaps \subseteq Ids(h) /\ Ids(g) = Ids(h)
  <2>1. Len(maps) \in Nat
    BY SequenceIsHeap DEF HeapOK, Typed, Heap
  <2> QED BY <1>1, <1>2, <2>1 DEF LiveMaps, Ids
<1>4. \A k \in Ids(h) : /\ IsMap(h[k], Ids(h)) /\ Kept(h[k], g[k])
                        /\ \A f \in MapFields \ {"flattened"} : g[k][f] = h[k][f]
  BY <1>1, <1>2, KeptLasts DEF Typed
<1>5. ASSUME NEW k \in LiveMaps, k # m PROVE Kept(maps[k], g[k])
  <2>1. Kept(maps[k], h[k]) /\ Kept(h[k], g[k]) /\ DOMAIN maps[k] = MapFields
    BY <1>1, <1>3, <1>4, <1>5 DEF HeapOK, Typed, IsMap, Ids, LiveMaps
  <2>2. CASE h[k] = maps[k]
    BY <2>1, <2>2
  <2>3. CASE h[k] # maps[k]
    <3>1. h[k].flattened
      BY <2>1, <2>3 DEF Kept, MapFields
    <3> QED BY <2>1, <3>1 DEF Kept
  <2> QED BY <2>2, <2>3
<1>6. Lasting(maps[m], g[m])
  <2>1. /\ Lasting(maps[m], h[m]) /\ Kept(h[m], g[m])
        /\ \A f \in MapFields \ {"flattened"} : g[m][f] = h[m][f]
    BY <1>1, <1>3, <1>4
  <2>2. CASE g[m] = h[m]
    BY <2>1, <2>2
  <2>3. CASE g[m] # h[m]
    <3>1. h[m].unique /\ ~h[m].flattened
      BY <2>1, <2>3 DEF Kept
    <3>2. maps[m].unique /\ ~maps[m].flattened
      BY <2>1, <3>1 DEF Lasting, Stable
    <3> QED BY <2>1, <3>2 DEF Lasting, Stable, MapFields
  <2> QED BY <2>2, <2>3
<1>7. g[t].unique => t = m \/ t = Len(maps) + 1
  BY <1>1, <1>4 DEF MapFields
<1>8. Moved(g, t).maps = g /\ Moved(g, t).map = t
  BY DEF Moved
<1>9. Evolves(m, Moved(g, t)) /\ Len(g) = Len(h)
  BY <1>1, <1>2, <1>3, <1>5, <1>6, <1>7, <1>8 DEF Evolves
<1> QED BY <1>9 DEF g, h, t

-----------------------------------------------------------------------------
(* Steps.  The invariant is type correctness and UniqueMapsNotShared; each  *)
(* is needed to show that the other is kept.                                *)

IInv == TypeOK /\ UniqueMapsNotShared

\* What a step does: one object moves to the map a transition answered.
Moves(o, moved) ==
  /\ Evolves(MapOf(o), moved)
  /\ Len(moved.maps) <= MaxMaps
  /\ maps' = moved.maps
  /\ DOMAIN objs' = Objects
  /\ \A x \in Objects : x # o => objs'[x] = objs[x]
  /\ DOMAIN objs'[o] = {"map", "slots", "extensible"}
  /\ objs'[o].map = moved.map
  /\ objs'[o].extensible \in BOOLEAN

\* Every map there was is there and as stable as inline caches need it.
AllStable ==
  /\ LiveMaps \subseteq LiveMaps'
  /\ \A m \in LiveMaps : Lasting(maps[m], maps'[m])

\* The invariant says of the heap and of the objects what the lemmas on
\* transitions need.
LEMMA InvariantGivesHeap ==
  ASSUME IInv
  PROVE  HeapOK /\ \A o \in Objects : MapOf(o) \in LiveMaps
<1>1. Typed(maps) /\ \A o \in Objects : MapOf(o) \in LiveMaps
  BY DEF IInv, TypeOK, Typed, Heap, Ids, LiveMaps, MapOf
<1>2. TransitionsShared(maps)
  <2> SUFFICES ASSUME NEW m \in LiveMaps, NEW key \in DOMAIN maps[m].transitions
               PROVE  ~maps[maps[m].transitions[key]].unique
    BY DEF TransitionsShared, Ids, LiveMaps
  <2>1. maps[m].transitions[key] \in LiveMaps
    BY <1>1 DEF Typed, IsMap, Ids, LiveMaps
  <2> QED BY <2>1 DEF IInv, UniqueMapsNotShared
<1> QED BY <1>1, <1>2 DEF HeapOK

\* One object moving along one transition (JSCell::set_map) keeps the invariant:
\* a unique map it arrives at is new or its own, so no other object has it.
LEMMA MovesKeepsInvariant ==
  ASSUME IInv, NEW o \in Objects, NEW moved, Moves(o, moved)
  PROVE  IInv' /\ AllStable
<1> DEFINE h == moved.maps
           t == moved.map
           m == MapOf(o)
<1>1. /\ HeapOK /\ m \in LiveMaps
      /\ \A x \in Objects : MapOf(x) \in LiveMaps
  BY InvariantGivesHeap
<1>2. /\ Typed(h) /\ TransitionsShared(h) /\ maps' = h
      /\ Len(h) \in {Len(maps), Len(maps) + 1} /\ t \in Ids(h)
      /\ \A k \in LiveMaps : k # m => Kept(maps[k], h[k])
      /\ Lasting(maps[m], h[m])
      /\ h[t].unique => t = m \/ t = Len(maps) + 1
  BY DEF Moves, Evolves
<1>3. /\ DOMAIN objs' = Objects /\ \A x \in Objects : x # o => objs'[x] = objs[x]
      /\ DOMAIN objs'[o] = {"map", "slots", "extensible"}
      /\ objs'[o].map = t /\ objs'[o].extensible \in BOOLEAN
      /\ Len(h) <= MaxMaps
  BY DEF Moves
<1>4. Len(maps) \in Nat
  BY <1>1, SequenceIsHeap DEF HeapOK, Typed, Heap
<1> HIDE DEF h, t, m
<1>5. LiveMaps' = Ids(h) /\ LiveMaps \subseteq Ids(h)
  BY <1>2, <1>4 DEF LiveMaps, Ids
<1>6. AllStable
  <2> SUFFICES ASSUME NEW k \in LiveMaps PROVE Lasting(maps[k], h[k])
    BY <1>2, <1>5 DEF AllStable
  <2>1. CASE k = m
    BY <2>1, <1>2
  <2>2. CASE k # m
    <3>1. Kept(maps[k], h[k]) /\ IsMap(maps[k], LiveMaps)
      BY <2>2, <1>1, <1>2 DEF HeapOK, Typed, Ids, LiveMaps
    <3> QED BY <3>1, KeptLasts
  <2> QED BY <2>1, <2>2
<1>7. TypeOK'
  <2>1. \A x \in Objects :
          /\ DOMAIN objs'[x] = {"map", "slots", "extensible"}
          /\ objs'[x].map \in Ids(h)
          /\ objs'[x].extensible \in BOOLEAN
    <3> SUFFICES ASSUME NEW x \in Objects
                 PROVE  /\ DOMAIN objs'[x] = {"map", "slots", "extensible"}
                        /\ objs'[x].map \in Ids(h)
                        /\ objs'[x].extensible \in BOOLEAN
      OBVIOUS
    <3>1. CASE x = o
      BY <3>1, <1>2, <1>3
    <3>2. CASE x # o
      BY <3>2, <1>3, <1>5 DEF IInv, TypeOK
    <3> QED BY <3>1, <3>2
  <2>2. \A k \in Ids(h) : IsMap(h[k], Ids(h))
    BY <1>2 DEF Typed
  <2>3. h \in Seq({h[k] : k \in Ids(h)})
    BY <1>2 DEF Typed, Heap
  <2> QED BY <1>2, <1>3, <1>5, <2>1, <2>2, <2>3 DEF TypeOK
<1>8. UniqueMapsNotShared'
  <2> SUFFICES ASSUME NEW k \in Ids(h), h[k].unique
               PROVE  /\ \A o1, o2 \in Objects :
                           objs'[o1].map = k /\ objs'[o2].map = k => o1 = o2
                      /\ \A j \in Ids(h) : \A key \in DOMAIN h[j].transitions :
                           h[j].transitions[key] # k
    BY <1>2, <1>5 DEF UniqueMapsNotShared, MapOf
  <2>1. \A j \in Ids(h) : \A key \in DOMAIN h[j].transitions :
          h[j].transitions[key] # k
    BY <1>2 DEF TransitionsShared
  <2>2. ASSUME NEW x \in Objects, objs'[x].map = k, x # o
        PROVE  k \in LiveMaps /\ MapOf(x) = k /\ maps[k].unique
    <3>1. MapOf(x) = k /\ k \in LiveMaps
      BY <2>2, <1>1, <1>3 DEF MapOf
    <3>2. maps[k].unique = h[k].unique
      BY <3>1, <1>2, <1>6 DEF AllStable, Lasting, Stable
    <3> QED BY <3>1, <3>2
  <2>3. ASSUME NEW x \in Objects, objs'[x].map = k, x # o, objs'[o].map = k
        PROVE  FALSE
    <3>1. k \in LiveMaps /\ MapOf(x) = k /\ maps[k].unique
      BY <2>2, <2>3
    <3>2. k = t
      BY <2>3, <1>3
    <3>3. k # Len(maps) + 1
      BY <3>1, <1>4 DEF LiveMaps
    <3>4. k = m
      BY <1>2, <3>2, <3>3
    <3> QED BY <2>3, <3>1, <3>4 DEF IInv, UniqueMapsNotShared, m
  <2>4. ASSUME NEW x \in Objects, NEW y \in Objects, x # o, y # o,
               objs'[x].map = k, objs'[y].map = k
        PROVE  x = y
    <3>1. k \in LiveMaps /\ MapOf(x) = k /\ MapOf(y) = k /\ maps[k].unique
      BY <2>2, <2>4
    <3> QED BY <3>1 DEF IInv, UniqueMapsNotShared
  <2> QED BY <2>1, <2>3, <2>4
<1> QED BY <1>6, <1>7, <1>8 DEF IInv

\* Become is such a step when the map it is given is.
LEMMA BecomeMoves ==
  ASSUME IInv, NEW o \in Objects, NEW moved, NEW slots,
         Evolves(MapOf(o), moved), Become(o, moved, slots)
  PROVE  Moves(o, moved)
<1>1. DOMAIN objs = Objects /\ DOMAIN objs[o] = {"map", "slots", "extensible"}
      /\ objs[o].extensible \in BOOLEAN
  BY DEF IInv, TypeOK
<1>2. objs' = [objs EXCEPT ![o] = [objs[o] EXCEPT !.map = moved.map, !.slots = slots]]
  BY <1>1 DEF Become
<1> DEFINE new == [objs[o] EXCEPT !.map = moved.map, !.slots = slots]
<1>3. /\ DOMAIN new = {"map", "slots", "extensible"} /\ new.map = moved.map
      /\ new.extensible = objs[o].extensible
  BY <1>1
<1>4. objs' = [objs EXCEPT ![o] = new]
  BY <1>2
<1> HIDE DEF new
<1>5. DOMAIN objs' = Objects /\ objs'[o] = new /\ \A x \in Objects : x # o => objs'[x] = objs[x]
  BY <1>1, <1>4
<1> QED BY <1>1, <1>3, <1>5 DEF Moves, Become

\* DefineOwnNonIndexedPropertySlotMethod of a property the object has: the map
\* changes only when the merged attributes differ.
LEMMA DefineFoundKeeps ==
  ASSUME IInv, NEW o \in Objects, NEW n \in Names, NEW d \in Descriptors,
         DefineFound(o, n, d)
  PROVE  IInv' /\ AllStable
<1> DEFINE m == MapOf(o)
           a == Entry(m, n).attributes
           new == Merge(OwnSlot(o, n), d)
           moved == Redefined(o, n, d).moved
<1>1. HeapOK /\ m \in LiveMaps
  BY InvariantGivesHeap
<1>2. n \in DOMAIN maps[m].table
  BY DEF DefineFound, HasOwn, Has
<1>3. a \in StoredAttributes
  BY <1>1, <1>2 DEF HeapOK, Typed, IsMap, Ids, LiveMaps, Entry
<1>4. new.attributes \in StoredAttributes
  BY <1>3, MergeStored DEF OwnSlot
<1>5. moved = IF new.attributes = OwnSlot(o, n).attributes THEN Moved(maps, m)
              ELSE ChangeAttributesTransition(m, n, new.attributes)
  BY DEF Redefined
<1> HIDE DEF m, new
<1>6. Evolves(m, moved)
  BY <1>1, <1>2, <1>4, <1>5, StayingEvolves, ChangeAttributesEvolves
<1> HIDE DEF moved
<1>7. Become(o, moved, Redefined(o, n, d).slots)
  BY DEF DefineFound, moved
<1> QED BY <1>6, <1>7, BecomeMoves, MovesKeepsInvariant DEF m

\* DefineOwnNonIndexedPropertySlotMethod of a new property.
LEMMA DefineNotFoundKeeps ==
  ASSUME IInv, NEW o \in Objects, NEW n \in Names, NEW d \in Descriptors,
         DefineNotFound(o, n, d)
  PROVE  IInv' /\ AllStable
<1> DEFINE m == MapOf(o)
           moved == AddPropertyTransition(m, n, NewSlot(d).attributes)
<1>1. HeapOK /\ m \in LiveMaps
  BY InvariantGivesHeap
<1>2. n \notin DOMAIN maps[m].table
  BY DEF DefineNotFound, HasOwn, Has
<1> HIDE DEF m
<1>3. Evolves(m, moved)
  BY <1>1, <1>2, NewSlotStored, AddPropertyEvolves
<1> HIDE DEF moved
<1>4. Become(o, moved, Added(o, n, d).slots)
  BY DEF DefineNotFound, Added, moved, m
<1> QED BY <1>3, <1>4, BecomeMoves, MovesKeepsInvariant DEF m

\* DeleteNonIndexedMethod.
LEMMA DeleteKeeps ==
  ASSUME IInv, NEW o \in Objects, NEW n \in Names, Delete(o, n)
  PROVE  IInv' /\ AllStable
<1> DEFINE m == MapOf(o)
           moved == DeletePropertyTransition(m, n)
<1>1. HeapOK /\ m \in LiveMaps /\ n \in DOMAIN maps[m].table
  BY InvariantGivesHeap DEF Delete, HasOwn, Has
<1>2. Evolves(m, moved)
  BY <1>1, DeletePropertyEvolves
<1> QED BY <1>2, BecomeMoves, MovesKeepsInvariant DEF Delete

\* A put defines the property with a descriptor of its own.
LEMMA PutKeeps ==
  ASSUME IInv, NEW o \in Objects, NEW n \in Names, NEW v \in Values, Put(o, n, v)
  PROVE  IInv' /\ AllStable
<1>1. ValueOnly(v) \in Descriptors /\ DefaultData(v) \in Descriptors
  BY DescriptorAssumption
  DEF ValueOnly, DefaultData, Descriptors, DataDescriptors, Flag
<1> QED BY <1>1, DefineFoundKeeps, DefineNotFoundKeeps DEF Put

\* JSObject::ChangePrototype.
LEMMA ChangePrototypeKeeps ==
  ASSUME IInv, NEW o \in Objects, NEW p \in Prototypes, ChangePrototype(o, p)
  PROVE  IInv' /\ AllStable
<1>1. Evolves(MapOf(o), ChangePrototypeTransition(MapOf(o), p))
  BY InvariantGivesHeap, HeapAssumption, ChangePrototypeEvolves
<1> QED BY <1>1, BecomeMoves, MovesKeepsInvariant DEF ChangePrototype

\* The first indexed element of an object.
LEMMA BecomeIndexedKeeps ==
  ASSUME IInv, NEW o \in Objects, BecomeIndexed(o)
  PROVE  IInv' /\ AllStable
<1>1. Evolves(MapOf(o), ChangeIndexedTransition(MapOf(o)))
  BY InvariantGivesHeap, ChangeIndexedEvolves
<1> QED BY <1>1, BecomeMoves, MovesKeepsInvariant DEF BecomeIndexed

\* JSObject::ChangeExtensible(ctx, false).
LEMMA PreventExtensionsKeeps ==
  ASSUME IInv, NEW o \in Objects, PreventExtensions(o)
  PROVE  IInv' /\ AllStable
<1> DEFINE moved == ChangeExtensibleTransition(MapOf(o))
           new == [objs[o] EXCEPT !.map = moved.map, !.extensible = FALSE]
<1>1. Evolves(MapOf(o), moved)
  BY InvariantGivesHeap, ChangeExtensibleEvolves
<1>2. DOMAIN objs = Objects /\ DOMAIN objs[o] = {"map", "slots", "extensible"}
  BY DEF IInv, TypeOK
<1>3. Len(moved.maps) <= MaxMaps /\ maps' = moved.maps /\ objs' = [objs EXCEPT ![o] = new]
  BY <1>2 DEF PreventExtensions
<1> HIDE DEF moved
<1>4. /\ DOMAIN new = {"map", "slots", "extensible"} /\ new.map = moved.map
      /\ new.extensible = FALSE
  BY <1>2
<1> HIDE DEF new
<1>5. Moves(o, moved)
  BY <1>1, <1>2, <1>3, <1>4 DEF Moves
<1> QED BY <1>5, MovesKeepsInvariant

\* Flattening some maps, by FlattenMap or by an inline cache, moves no object.
Flattening(ms) == maps' = Flattened(maps, ms) /\ objs' = objs

\* Flattening a map to a map of its own (Map::Flatten) changes the heap, and no
\* map that compiled code may rely on.
LEMMA FlattenKeeps ==
  ASSUME IInv, NEW o \in Objects, NEW ms, Flattening(ms)
  PROVE  IInv' /\ AllStable
<1> DEFINE m == MapOf(o)
           h == Flattened(maps, ms)
<1>1. HeapOK /\ m \in LiveMaps
  BY InvariantGivesHeap
<1>2. Evolves(m, Moved(maps, m))
  BY <1>1, StayingEvolves
<1>3. /\ Moved(maps, m).maps = maps /\ Moved(maps, m).map = m
      /\ Moved(h, m).maps = h /\ Moved(h, m).map = m
  BY DEF Moved
<1>4. Evolves(m, Moved(h, m)) /\ Len(h) = Len(maps)
  BY <1>1, <1>2, <1>3, FlattenedEvolves
<1>5. maps' = h /\ objs' = objs
  BY DEF Flattening
<1> HIDE DEF h
<1>6. Moves(o, Moved(h, m))
  BY <1>3, <1>4, <1>5 DEF Moves, IInv, TypeOK, MapOf
<1> QED BY <1>6, MovesKeepsInvariant

\* The maps a context starts with: a unique one has one object.
LEMMA InitEstablishes ==
  ASSUME Init
  PROVE  IInv
<1>1. /\ maps = RootMaps /\ DOMAIN objs = Objects
      /\ \A o \in Objects : /\ DOMAIN objs[o] = {"map", "slots", "extensible"}
                            /\ objs[o].map = RootOf[o]
                            /\ objs[o].extensible = TRUE
  BY DEF Init
<1>2. \A m \in LiveMaps : IsMap(maps[m], {})
  BY <1>1, RootAssumption DEF LiveMaps
<1>3. \A m \in LiveMaps : IsMap(maps[m], LiveMaps)
  BY <1>2, IsMapMonotonic
<1>4. TypeOK
  <2>1. maps \in Seq({maps[m] : m \in LiveMaps}) /\ Len(maps) <= MaxMaps
    BY <1>1, RootAssumption DEF LiveMaps
  <2>2. \A o \in Objects : objs[o].map \in LiveMaps /\ objs[o].extensible \in BOOLEAN
    BY <1>1, RootAssumption DEF LiveMaps
  <2> QED BY <1>1, <1>3, <2>1, <2>2 DEF TypeOK
<1>5. UniqueMapsNotShared
  <2> SUFFICES ASSUME NEW m \in LiveMaps, maps[m].unique
               PROVE  /\ \A o1, o2 \in Objects : MapOf(o1) = m /\ MapOf(o2) = m => o1 = o2
                      /\ \A k \in LiveMaps : \A key \in DOMAIN maps[k].transitions :
                           maps[k].transitions[key] # m
    BY DEF UniqueMapsNotShared
  <2>1. ASSUME NEW o1 \in Objects, NEW o2 \in Objects, MapOf(o1) = m, MapOf(o2) = m
        PROVE  o1 = o2
    <3>1. RootOf[o1] = m /\ RootOf[o2] = m /\ RootMaps[m].unique
      BY <1>1, <2>1 DEF MapOf
    <3> QED BY <3>1, RootAssumption
  <2>2. \A k \in LiveMaps : DOMAIN maps[k].transitions = {}
    BY <1>2 DEF IsMap
  <2> QED BY <2>1, <2>2
<1> QED BY <1>4, <1>5 DEF IInv

\* Every step keeps the invariant and every map stable, also a map that is not
\* used any more: the model gives each map a table of its own.
LEMMA StepKeeps ==
  ASSUME IInv, [Next]_hvars
  PROVE  IInv' /\ AllStable
<1>1. CASE UNCHANGED hvars
  <2>1. IInv'
    BY <1>1 DEF hvars, IInv, TypeOK, UniqueMapsNotShared, LiveMaps, MapOf
  <2>2. AllStable
    BY <1>1, InvariantGivesHeap, KeptLasts
    DEF hvars, AllStable, HeapOK, Typed, Ids, LiveMaps
  <2> QED BY <2>1, <2>2
<1>2. ASSUME NEW o \in Objects, NEW n \in Names, NamedStep(o, n)
      PROVE  IInv' /\ AllStable
  <2>1. CASE Get(o, n)
    BY <1>1, <2>1 DEF Get
  <2>2. ASSUME NEW d \in Inputs, DefineOwnProperty(o, n, d)
        PROVE  IInv' /\ AllStable
    BY <2>2, HeapAssumption, DefineFoundKeeps, DefineNotFoundKeeps DEF DefineOwnProperty
  <2>3. ASSUME NEW v \in PutValues, Put(o, n, v)
        PROVE  IInv' /\ AllStable
    BY <2>3, HeapAssumption, PutKeeps
  <2>4. CASE Delete(o, n)
    BY <2>4, DeleteKeeps
  <2> QED BY <1>2, <2>1, <2>2, <2>3, <2>4 DEF NamedStep
<1>3. ASSUME NEW o \in Objects, ObjectStep(o)
      PROVE  IInv' /\ AllStable
  <2>1. ASSUME NEW p \in Prototypes, ChangePrototype(o, p)
        PROVE  IInv' /\ AllStable
    BY <2>1, ChangePrototypeKeeps
  <2>2. CASE BecomeIndexed(o)
    BY <2>2, BecomeIndexedKeeps
  <2>3. CASE PreventExtensions(o)
    BY <2>3, PreventExtensionsKeeps
  <2>4. CASE FlattenMap(o)
    BY <2>4, FlattenKeeps DEF FlattenMap, Flattening
  <2> QED BY <1>3, <2>1, <2>2, <2>3, <2>4 DEF ObjectStep
<1> QED BY <1>1, <1>2, <1>3 DEF Next

-----------------------------------------------------------------------------
(* Theorems                                                                *)

\* The invariant holds in every state, whatever scripts do.
LEMMA Invariance == Spec => []IInv
<1>1. Init => IInv
  BY InitEstablishes
<1>2. IInv /\ [Next]_hvars => IInv'
  BY StepKeeps
<1> QED BY <1>1, <1>2, PTL DEF Spec

\* Maps, transitions and objects always have the shape the code reads them with:
\* every transitions_ entry and every object leads to a map that exists, and
\* every entry has an offset and attributes that are stored ones.
THEOREM TypeCorrect == Spec => []TypeOK
<1>1. IInv => TypeOK
  BY DEF IInv
<1> QED BY <1>1, Invariance, PTL

\* However many objects, names and maps there are, a map that changes in place
\* (Map::IsUnique) belongs to at most one object and is never reached through
\* transitions_, so changing it cannot change another object.
THEOREM UniqueMapsStayUnshared == Spec => []UniqueMapsNotShared
<1>1. IInv => UniqueMapsNotShared
  BY DEF IInv
<1> QED BY <1>1, Invariance, PTL

\* What compiled code relies on when it compares maps (Map::Flatten, IsUnique):
\* a shared map changes nothing but its transitions, a flattened map nothing at
\* all, and no map in use loses or moves a property.
THEOREM MapsStayStable == Spec => GuardedMapsStable
<1>1. IInv /\ [Next]_hvars =>
        [\A m \in LiveMaps : InUse(m) /\ InUse(m)' => Stable(maps[m], maps'[m])]_hvars
  BY StepKeeps DEF AllStable, Lasting
<1> QED BY <1>1, Invariance, PTL DEF Spec, GuardedMapsStable

-----------------------------------------------------------------------------
(* What the maps say of properties, in every heap: offsets are slots and no  *)
(* two properties have one (OffsetsAreSlots), and a transition adds the one  *)
(* property it is for (TransitionsAddOneProperty).  One map first, then what *)
(* each transition makes of a heap of such maps, then the steps.             *)

-----------------------------------------------------------------------------
(* One map                                                                 *)

\* No two entries have the same offset, no offset is freed twice or freed and
\* in use, and together they are the slots: OffsetsExact without counting.
Placed(r) ==
  /\ \A x, y \in DOMAIN r.table : r.table[x].offset = r.table[y].offset => x = y
  /\ \A i, j \in 1..Len(r.deleted) : r.deleted[i] = r.deleted[j] => i = j
  /\ \A x \in DOMAIN r.table : r.table[x].offset \notin Freed(r)
  /\ Offsets(r) \cup Freed(r) = 0..(GetSlotsSize(r) - 1)

\* Counting offsets, as OffsetsAreSlots does, says that no two are equal.
LEMMA ExactMeansPlaced ==
  ASSUME NEW r, NEW ids, IsMap(r, ids)
  PROVE  OffsetsExact(r) <=> Placed(r)
<1> DEFINE names == DOMAIN r.table
           count == Len(r.deleted)
           offset == [n \in names |-> r.table[n].offset]
           freed == [i \in 1..count |-> r.deleted[i]]
<1>1. count \in Nat /\ IsFiniteSet(1..count) /\ Cardinality(1..count) = count
  <2>1. count \in Nat
    BY LenProperties DEF IsMap
  <2> HIDE DEF count
  <2>2. /\ IsFiniteSet(1..count)
        /\ Cardinality(1..count) = IF 1 > count THEN 0 ELSE count - 1 + 1
    BY <2>1, FS_Interval
  <2> QED BY <2>1, <2>2
<1>2. IsFiniteSet(names)
  BY HeapAssumption, FS_Subset DEF IsMap
<1>3. GetSlotsSize(r) = Cardinality(names) + count
  BY DEF GetSlotsSize
<1>4. offset \in Surjection(names, Offsets(r)) /\ freed \in Surjection(1..count, Freed(r))
  BY DEF Surjection, Offsets, Freed
<1>5. /\ IsFiniteSet(Offsets(r)) /\ IsFiniteSet(Freed(r))
      /\ Cardinality(Offsets(r)) = Cardinality(names) <=> offset \in Injection(names, Offsets(r))
      /\ Cardinality(Freed(r)) = count <=> freed \in Injection(1..count, Freed(r))
  <2> HIDE DEF names, count, offset, freed
  <2> QED BY <1>1, <1>2, <1>4, FS_Surjection
<1>6. offset \in [names -> Offsets(r)] /\ freed \in [1..count -> Freed(r)]
  BY DEF Offsets, Freed
<1>7. /\ offset \in Injection(names, Offsets(r)) <=>
           \A x, y \in names : r.table[x].offset = r.table[y].offset => x = y
      /\ freed \in Injection(1..count, Freed(r)) <=>
           \A i, j \in 1..count : r.deleted[i] = r.deleted[j] => i = j
  BY <1>6 DEF Injection, IsInjective
<1>8. ASSUME Cardinality(Offsets(r)) = Cardinality(names), Cardinality(Freed(r)) = count,
             Offsets(r) \cup Freed(r) = 0..(GetSlotsSize(r) - 1)
      PROVE  Offsets(r) \cap Freed(r) = {}
  <2> HIDE DEF names, count
  <2>1. Cardinality(names) \in Nat /\ Cardinality(names) + count \in Nat
    BY <1>1, <1>2, FS_CardinalityType
  <2>2. Cardinality(0..(GetSlotsSize(r) - 1)) = Cardinality(names) + count
    <3> DEFINE n == Cardinality(names) + count
    <3>1. n - 1 \in Int /\ GetSlotsSize(r) = n
      BY <1>3, <2>1
    <3> HIDE DEF n
    <3>2. Cardinality(0..(n - 1)) = IF 0 > n - 1 THEN 0 ELSE (n - 1) - 0 + 1
      BY <3>1, FS_Interval
    <3> QED BY <2>1, <3>1, <3>2 DEF n
  <2>3. Cardinality(Offsets(r) \cup Freed(r)) =
          Cardinality(names) + count - Cardinality(Offsets(r) \cap Freed(r))
    BY <1>5, <1>8, FS_Union
  <2>4. IsFiniteSet(Offsets(r) \cap Freed(r))
    BY <1>5, FS_Intersection
  <2>5. Cardinality(Offsets(r) \cap Freed(r)) \in Nat
    BY <2>4, FS_CardinalityType
  <2>6. Cardinality(Offsets(r) \cup Freed(r)) = Cardinality(names) + count
    BY <1>8, <2>2
  <2>7. Cardinality(Offsets(r) \cap Freed(r)) = 0
    <3> DEFINE common == Cardinality(Offsets(r) \cap Freed(r))
               all == Cardinality(names)
    <3>1. all + (count - common) = all + count
      BY <2>3, <2>6, Zenon
    <3>2. common \in Nat /\ all \in Nat /\ count \in Nat
      BY <1>1, <2>1, <2>5
    <3> HIDE DEF common, all
    <3>3. common = 0
      BY <3>1, <3>2
    <3> QED BY <3>3 DEF common
  <2> QED BY <2>4, <2>7, FS_EmptySet
<1>9. Offsets(r) \cap Freed(r) = {} <=> \A x \in names : r.table[x].offset \notin Freed(r)
  BY DEF Offsets
<1> QED BY <1>5, <1>7, <1>8, <1>9 DEF OffsetsExact, Placed

\* What is placed does not depend on the other fields of a map.
LEMMA SamePlaces ==
  ASSUME NEW r, NEW s, s.table = r.table, s.deleted = r.deleted
  PROVE  /\ GetSlotsSize(s) = GetSlotsSize(r)
         /\ Offsets(s) = Offsets(r) /\ Freed(s) = Freed(r)
         /\ Placed(s) <=> Placed(r)
<1>1. GetSlotsSize(s) = GetSlotsSize(r) /\ Offsets(s) = Offsets(r) /\ Freed(s) = Freed(r)
  BY DEF GetSlotsSize, Offsets, Freed
<1> QED BY <1>1 DEF Placed

\* Map::Map(previous, unique) copies the table and the freed offsets.
LEMMA DerivedPlaced ==
  ASSUME NEW r, NEW ids, IsMap(r, ids), Placed(r), NEW u \in BOOLEAN
  PROVE  /\ Derived(r, u).table = r.table /\ Derived(r, u).deleted = r.deleted
         /\ Derived(r, u).prototype = r.prototype /\ Derived(r, u).indexed = r.indexed
         /\ GetSlotsSize(Derived(r, u)) = GetSlotsSize(r)
         /\ Placed(Derived(r, u))
<1>1. /\ Derived(r, u).table = r.table /\ Derived(r, u).deleted = r.deleted
      /\ Derived(r, u).prototype = r.prototype /\ Derived(r, u).indexed = r.indexed
  BY DEF Derived, IsMap, MapFields
<1>2. GetSlotsSize(Derived(r, u)) = GetSlotsSize(r)
  BY <1>1 DEF GetSlotsSize
<1> QED BY <1>1, <1>2 DEF Placed, Offsets, Freed

\* The new entry has an offset that no other entry has.
LEMMA ExtendPlaced ==
  ASSUME NEW r, NEW ids, IsMap(r, ids), Placed(r), NEW n \in Names \ DOMAIN r.table,
         NEW a \in StoredAttributes
  PROVE  LET e == Extend(r, n, a)
         IN /\ DOMAIN e.table = DOMAIN r.table \cup {n}
            /\ e.table[n].attributes = a
            /\ \A x \in DOMAIN r.table : e.table[x] = r.table[x]
            /\ e.prototype = r.prototype /\ e.indexed = r.indexed
            /\ Placed(e)
<1> DEFINE e == Extend(r, n, a)
           reuse == r.deleted # <<>>
           offset == IF reuse THEN Head(r.deleted) ELSE GetSlotsSize(r)
           t == With(r.table, n, [offset |-> offset, attributes |-> a])
           d == IF reuse THEN Tail(r.deleted) ELSE r.deleted
           size == GetSlotsSize(r)
<1>1. e.table = t /\ e.deleted = d /\ e.prototype = r.prototype /\ e.indexed = r.indexed
  BY DEF Extend, IsMap, MapFields
<1>2. /\ DOMAIN t = DOMAIN r.table \cup {n}
      /\ t[n] = [offset |-> offset, attributes |-> a]
      /\ \A x \in DOMAIN r.table : t[x] = r.table[x]
  BY DEF With
<1>3. /\ IsFiniteSet(DOMAIN r.table) /\ Cardinality(DOMAIN r.table) \in Nat
      /\ Cardinality(DOMAIN t) = Cardinality(DOMAIN r.table) + 1
  <2>1. IsFiniteSet(DOMAIN r.table)
    BY HeapAssumption, FS_Subset DEF IsMap
  <2> QED BY <1>2, <2>1, FS_CardinalityType, FS_AddElement
<1>4. r.deleted \in Seq(Nat) /\ Len(r.deleted) \in Nat /\ size \in Nat
      /\ size = Cardinality(DOMAIN r.table) + Len(r.deleted)
  BY SlotsSizeNat, LenProperties DEF IsMap, GetSlotsSize
<1>5. Offsets(e) = Offsets(r) \cup {offset}
  <2>1. Offsets(e) = {t[x].offset : x \in DOMAIN r.table \cup {n}}
    BY <1>1, <1>2 DEF Offsets
  <2>2. t[n].offset = offset /\ \A x \in DOMAIN r.table : t[x].offset = r.table[x].offset
    BY <1>2
  <2> HIDE DEF t, offset
  <2> QED BY <2>1, <2>2 DEF Offsets
<1>6. CASE reuse
  <2>1. /\ d \in Seq(Nat) /\ Len(d) = Len(r.deleted) - 1 /\ Len(d) \in Nat
        /\ \A i \in 1..Len(d) : d[i] = r.deleted[i + 1]
        /\ offset = r.deleted[1] /\ Len(r.deleted) >= 1
    BY <1>4, <1>6, HeadTailProperties, LenProperties
  <2>2. GetSlotsSize(e) = size
    BY <1>1, <1>3, <1>4, <2>1 DEF GetSlotsSize
  <2>3. Freed(e) = Freed(r) \ {offset}
    <3> HIDE DEF d, offset
    <3>1. Freed(e) = {d[i] : i \in 1..Len(d)}
      BY <1>1 DEF Freed
    <3>2. ASSUME NEW i \in 1..Len(d) PROVE d[i] \in Freed(r) /\ d[i] # offset
      <4>1. /\ i + 1 \in 1..Len(r.deleted) /\ 1 \in 1..Len(r.deleted) /\ i + 1 # 1
            /\ d[i] = r.deleted[i + 1]
        BY <1>4, <2>1
      <4>2. r.deleted[i + 1] # r.deleted[1]
        BY <4>1 DEF Placed
      <4> QED BY <2>1, <4>1, <4>2 DEF Freed
    <3>3. ASSUME NEW j \in 1..Len(r.deleted), r.deleted[j] # offset
          PROVE  \E i \in 1..Len(d) : d[i] = r.deleted[j]
      <4>1. j - 1 \in 1..Len(d) /\ d[j - 1] = r.deleted[j]
        BY SMTT(30), <1>4, <2>1, <3>3
      <4> QED BY <4>1
    <3>4. Freed(r) = {r.deleted[i] : i \in 1..Len(r.deleted)}
      BY DEF Freed
    <3>5. Freed(e) \subseteq Freed(r) \ {offset}
      BY <3>1, <3>2
    <3>6. Freed(r) \ {offset} \subseteq Freed(e)
      BY <3>1, <3>3, <3>4
    <3> QED BY <3>5, <3>6
  <2>4. offset \in Freed(r) /\ offset \notin Offsets(r)
    BY <1>4, <2>1 DEF Freed, Placed, Offsets
  <2>5. \A i, j \in 1..Len(d) : d[i] = d[j] => i = j
    <3> HIDE DEF d, offset
    <3> QED BY <1>4, <2>1 DEF Placed
  <2> HIDE DEF t, d, offset, size
  <2>6. \A x, y \in DOMAIN e.table : e.table[x].offset = e.table[y].offset => x = y
    BY <1>1, <1>2, <2>4 DEF Placed, Offsets
  <2>7. \A x \in DOMAIN e.table : e.table[x].offset \notin Freed(e)
    BY <1>1, <1>2, <2>3 DEF Placed
  <2>8. Offsets(e) \cup Freed(e) = 0..(GetSlotsSize(e) - 1)
    BY <1>5, <2>2, <2>3, <2>4 DEF Placed, size
  <2> QED BY <1>1, <1>2, <2>5, <2>6, <2>7, <2>8 DEF Placed
<1>7. CASE ~reuse
  <2>1. d = r.deleted /\ Len(r.deleted) = 0 /\ offset = size
    BY <1>7, EmptySeq
  <2>2. GetSlotsSize(e) = size + 1
    BY <1>1, <1>3, <1>4, <2>1 DEF GetSlotsSize
  <2>3. Freed(e) = {} /\ Freed(r) = {}
    BY <1>1, <2>1 DEF Freed
  <2>4. offset \notin Offsets(r)
    BY <1>4, <2>1 DEF Placed
  <2> HIDE DEF t, d, offset, size
  <2>5. \A x, y \in DOMAIN e.table : e.table[x].offset = e.table[y].offset => x = y
    BY <1>1, <1>2, <2>4 DEF Placed, Offsets
  <2>6. Offsets(e) \cup Freed(e) = 0..(GetSlotsSize(e) - 1)
    <3>1. Offsets(r) = 0..(size - 1)
      BY <2>3 DEF Placed, size
    <3> QED BY <1>4, <1>5, <2>1, <2>2, <2>3, <3>1
  <2>7. \A i, j \in 1..Len(e.deleted) : e.deleted[i] = e.deleted[j] => i = j
    BY <1>1, <2>1 DEF Placed
  <2> QED BY <1>1, <1>2, <2>3, <2>5, <2>6, <2>7 DEF Placed
<1> HIDE DEF t, d, offset, size, e
<1> QED BY <1>1, <1>2, <1>6, <1>7 DEF e

\* Deleting a property keeps its offset for reuse, so none is lost.
LEMMA ShrinkPlaced ==
  ASSUME NEW r, NEW ids, IsMap(r, ids), Placed(r), NEW n \in DOMAIN r.table
  PROVE  LET e == Shrink(r, n)
         IN /\ DOMAIN e.table = DOMAIN r.table \ {n}
            /\ \A x \in DOMAIN r.table \ {n} : e.table[x] = r.table[x]
            /\ e.prototype = r.prototype /\ e.indexed = r.indexed
            /\ GetSlotsSize(e) = GetSlotsSize(r)
            /\ Placed(e)
<1> DEFINE e == Shrink(r, n)
           t == [x \in DOMAIN r.table \ {n} |-> r.table[x]]
           offset == r.table[n].offset
           d == <<offset>> \o r.deleted
           size == GetSlotsSize(r)
<1>1. e.table = t /\ e.deleted = d /\ e.prototype = r.prototype /\ e.indexed = r.indexed
  BY DEF Shrink, IsMap, MapFields
<1>2. DOMAIN t = DOMAIN r.table \ {n} /\ \A x \in DOMAIN t : t[x] = r.table[x]
  OBVIOUS
<1>3. /\ IsFiniteSet(DOMAIN r.table) /\ Cardinality(DOMAIN r.table) \in Nat
      /\ Cardinality(DOMAIN t) = Cardinality(DOMAIN r.table) - 1
  <2>1. IsFiniteSet(DOMAIN r.table)
    BY HeapAssumption, FS_Subset DEF IsMap
  <2> QED BY <1>2, <2>1, FS_CardinalityType, FS_RemoveElement
<1>4. r.deleted \in Seq(Nat) /\ Len(r.deleted) \in Nat /\ size \in Nat /\ offset \in Nat
      /\ size = Cardinality(DOMAIN r.table) + Len(r.deleted)
  BY SlotsSizeNat, LenProperties DEF IsMap, GetSlotsSize
<1>5. /\ Len(d) = Len(r.deleted) + 1
      /\ d[1] = offset
      /\ \A i \in 1..Len(r.deleted) : d[i + 1] = r.deleted[i]
  <2> HIDE DEF offset
  <2>1. <<offset>> \in Seq(Nat) /\ Len(<<offset>>) = 1 /\ <<offset>>[1] = offset
    BY <1>4
  <2>2. /\ Len(d) = Len(<<offset>>) + Len(r.deleted)
        /\ \A i \in 1..(Len(<<offset>>) + Len(r.deleted)) :
             d[i] = IF i <= Len(<<offset>>) THEN <<offset>>[i] ELSE r.deleted[i - Len(<<offset>>)]
    BY <1>4, <2>1, ConcatProperties
  <2> QED BY SMTT(30), <1>4, <2>1, <2>2
<1> HIDE DEF t, d
<1>6. offset \in Offsets(r) /\ offset \notin Freed(r)
  BY DEF Offsets, Placed
<1>7. Freed(e) = Freed(r) \cup {offset}
  <2>1. Freed(e) = {d[i] : i \in 1..Len(d)} /\ Freed(r) = {r.deleted[i] : i \in 1..Len(r.deleted)}
    BY <1>1 DEF Freed
  <2>2. ASSUME NEW i \in 1..Len(d) PROVE d[i] \in Freed(r) \cup {offset}
    <3>1. CASE i = 1
      BY <1>5, <3>1
    <3>2. CASE i # 1
      <4>1. i - 1 \in 1..Len(r.deleted) /\ (i - 1) + 1 = i
        BY <1>4, <1>5, <3>2
      <4>2. d[i] = r.deleted[i - 1]
        BY <1>5, <4>1
      <4> QED BY <2>1, <4>1, <4>2
    <3> QED BY <3>1, <3>2
  <2>3. ASSUME NEW i \in 1..Len(r.deleted) PROVE r.deleted[i] \in Freed(e)
    <3>1. i + 1 \in 1..Len(d) /\ d[i + 1] = r.deleted[i]
      BY <1>4, <1>5
    <3> QED BY <2>1, <3>1
  <2>4. offset \in Freed(e)
    <3>1. 1 \in 1..Len(d)
      BY <1>4, <1>5
    <3> QED BY <1>5, <2>1, <3>1
  <2>5. Freed(e) \subseteq Freed(r) \cup {offset}
    BY <2>1, <2>2
  <2>6. Freed(r) \subseteq Freed(e)
    BY <2>1, <2>3
  <2> QED BY <2>4, <2>5, <2>6
<1>8. Offsets(e) = Offsets(r) \ {offset}
  BY <1>1, <1>2 DEF Offsets, Placed
<1>9. \A i, j \in 1..Len(d) : d[i] = d[j] => i = j
  <2>1. \A i \in 1..Len(d) : i = 1 \/ (i - 1 \in 1..Len(r.deleted) /\ d[i] = r.deleted[i - 1])
    <3> SUFFICES ASSUME NEW i \in 1..Len(d), i # 1
                 PROVE  i - 1 \in 1..Len(r.deleted) /\ d[i] = r.deleted[i - 1]
      OBVIOUS
    <3>1. i - 1 \in 1..Len(r.deleted) /\ (i - 1) + 1 = i
      BY <1>4, <1>5
    <3> QED BY <1>5, <3>1
  <2>2. \A k \in 1..Len(r.deleted) : r.deleted[k] # offset
    BY <1>6 DEF Freed
  <2> SUFFICES ASSUME NEW i \in 1..Len(d), NEW j \in 1..Len(d), d[i] = d[j]
               PROVE  i = j
    OBVIOUS
  <2>3. CASE i = 1 \/ j = 1
    BY <1>5, <2>1, <2>2, <2>3
  <2>4. CASE i # 1 /\ j # 1
    <3>1. i - 1 = j - 1
      BY ZenonT(60), <2>1, <2>4 DEF Placed
    <3> QED BY <3>1
  <2> QED BY <2>3, <2>4
<1>10. GetSlotsSize(e) = size
  BY <1>1, <1>3, <1>4, <1>5 DEF GetSlotsSize
<1> HIDE DEF offset, size, e
<1>11. \A x, y \in DOMAIN e.table : e.table[x].offset = e.table[y].offset => x = y
  BY <1>1, <1>2 DEF Placed
<1>12. \A x \in DOMAIN e.table : e.table[x].offset \notin Freed(e)
  BY <1>1, <1>2, <1>7 DEF Placed, offset
<1>13. Offsets(e) \cup Freed(e) = 0..(GetSlotsSize(e) - 1)
  BY <1>6, <1>7, <1>8, <1>10 DEF Placed, size
<1>14. Placed(e)
  BY <1>1, <1>9, <1>11, <1>12, <1>13 DEF Placed
<1> QED BY <1>1, <1>2, <1>10, <1>14 DEF e, size

\* Other attributes do not move a property.
LEMMA AttributesPlaced ==
  ASSUME NEW r, NEW ids, IsMap(r, ids), Placed(r), NEW n \in DOMAIN r.table, NEW a
  PROVE  LET e == [r EXCEPT !.table[n].attributes = a]
         IN /\ DOMAIN e.table = DOMAIN r.table
            /\ e.table[n].attributes = a
            /\ \A x \in DOMAIN r.table : e.table[x].offset = r.table[x].offset
            /\ \A x \in DOMAIN r.table \ {n} : e.table[x] = r.table[x]
            /\ e.prototype = r.prototype /\ e.indexed = r.indexed
            /\ GetSlotsSize(e) = GetSlotsSize(r)
            /\ Placed(e)
<1> DEFINE e == [r EXCEPT !.table[n].attributes = a]
           t == [r.table EXCEPT ![n] = [r.table[n] EXCEPT !.attributes = a]]
<1>1. e.table = t /\ e.deleted = r.deleted /\ e.prototype = r.prototype /\ e.indexed = r.indexed
  BY DEF IsMap, MapFields
<1>2. /\ DOMAIN t = DOMAIN r.table /\ t[n].attributes = a
      /\ \A x \in DOMAIN r.table : t[x].offset = r.table[x].offset
      /\ \A x \in DOMAIN r.table \ {n} : t[x] = r.table[x]
  BY DEF IsMap
<1> HIDE DEF t, e
<1>3. GetSlotsSize(e) = GetSlotsSize(r)
  BY <1>1, <1>2 DEF GetSlotsSize
<1>4. Offsets(e) = Offsets(r) /\ Freed(e) = Freed(r)
  BY <1>1, <1>2 DEF Offsets, Freed
<1>5. Placed(e)
  BY <1>1, <1>2, <1>3, <1>4 DEF Placed
<1> QED BY <1>1, <1>2, <1>3, <1>5 DEF e

-----------------------------------------------------------------------------
(* A heap of maps                                                          *)

TransitionsExact(h) ==
  \A m \in Ids(h) : \A key \in DOMAIN h[m].transitions :
    AddsOne(h[m], key, h[h[m].transitions[key]])

Exact(h) == TransitionsExact(h) /\ \A m \in Ids(h) : Placed(h[m])

\* A new map without transitions of its own, like every map that
\* Map::NewUniqueMap makes.
LEMMA AppendedExact ==
  ASSUME HeapOK, Exact(maps), NEW r, Placed(r), DOMAIN r.transitions = {}
  PROVE  /\ Exact(Appended(r).maps)
         /\ Appended(r).maps[Appended(r).map] = r
<1> DEFINE h == Append(maps, r)
<1>1. /\ Len(maps) \in Nat /\ Len(h) = Len(maps) + 1
      /\ \A k \in LiveMaps : h[k] = maps[k]
      /\ h[Len(maps) + 1] = r
  BY AppendHeap DEF HeapOK, Typed, LiveMaps, Ids
<1>2. Appended(r).maps = h /\ Appended(r).map = Len(maps) + 1
  BY DEF Appended, Moved
<1> HIDE DEF h
<1>3. Ids(h) = LiveMaps \cup {Len(maps) + 1}
  BY <1>1 DEF Ids, LiveMaps
<1>4. \A k \in Ids(h) : Placed(h[k])
  BY <1>1, <1>3 DEF Exact, Ids, LiveMaps
<1>5. TransitionsExact(h)
  <2> SUFFICES ASSUME NEW k \in Ids(h), NEW key \in DOMAIN h[k].transitions
               PROVE  AddsOne(h[k], key, h[h[k].transitions[key]])
    BY DEF TransitionsExact
  <2>1. k \in LiveMaps /\ h[k] = maps[k]
    BY <1>1, <1>3
  <2>2. maps[k].transitions[key] \in LiveMaps
    BY <2>1 DEF HeapOK, Typed, IsMap, Ids, LiveMaps
  <2>3. AddsOne(maps[k], key, maps[maps[k].transitions[key]])
    BY <2>1 DEF Exact, TransitionsExact, Ids, LiveMaps
  <2> QED BY <1>1, <2>1, <2>2, <2>3
<1> QED BY <1>1, <1>2, <1>4, <1>5 DEF Exact

\* A unique map has no transitions and none leads to it, so that it can change.
LEMMA UniquelyExact ==
  ASSUME HeapOK, Exact(maps), NEW m \in LiveMaps,
         NEW r, Placed(r), DOMAIN r.transitions = {}
  PROVE  /\ Exact(Uniquely(m, r).maps)
         /\ Uniquely(m, r).maps[Uniquely(m, r).map] = r
<1>1. CASE ~(maps[m].unique /\ ~maps[m].flattened)
  BY <1>1, AppendedExact DEF Uniquely
<1>2. CASE maps[m].unique /\ ~maps[m].flattened
  <2> DEFINE h == [maps EXCEPT ![m] = r]
  <2>1. /\ Len(h) = Len(maps)
        /\ h[m] = r
        /\ \A k \in LiveMaps : k # m => h[k] = maps[k]
    <3>1. Heap(maps) /\ m \in Ids(maps)
      BY DEF HeapOK, Typed, LiveMaps, Ids
    <3> QED BY <3>1, UpdateHeap DEF LiveMaps, Ids
  <2>2. Uniquely(m, r).maps = h /\ Uniquely(m, r).map = m
    BY <1>2 DEF Uniquely, Moved
  <2> HIDE DEF h
  <2>3. Ids(h) = LiveMaps
    BY <2>1 DEF Ids, LiveMaps
  <2>4. \A k \in Ids(h) : Placed(h[k])
    BY <2>1, <2>3 DEF Exact, Ids, LiveMaps
  <2>5. TransitionsExact(h)
    <3> SUFFICES ASSUME NEW k \in Ids(h), NEW key \in DOMAIN h[k].transitions
                 PROVE  AddsOne(h[k], key, h[h[k].transitions[key]])
      BY DEF TransitionsExact
    <3>1. k # m /\ k \in LiveMaps /\ h[k] = maps[k]
      BY <2>1, <2>3
    <3>2. maps[k].transitions[key] \in LiveMaps /\ ~maps[maps[k].transitions[key]].unique
      BY <3>1 DEF HeapOK, Typed, TransitionsShared, IsMap, Ids, LiveMaps
    <3>3. AddsOne(maps[k], key, maps[maps[k].transitions[key]])
      BY <3>1 DEF Exact, TransitionsExact, Ids, LiveMaps
    <3> QED BY <1>2, <2>1, <3>1, <3>2, <3>3
  <2> QED BY <2>1, <2>2, <2>4, <2>5 DEF Exact
<1> QED BY <1>1, <1>2

\* Map::AddPropertyTransition: all that the map after it, found or made, has.
LEMMA AddPropertyExact ==
  ASSUME HeapOK, Exact(maps), NEW m \in LiveMaps,
         NEW n \in Names \ DOMAIN maps[m].table, NEW a \in StoredAttributes
  PROVE  LET moved == AddPropertyTransition(m, n, a)
             r == maps[m]
             t == moved.maps[moved.map]
         IN /\ Exact(moved.maps)
            /\ DOMAIN t.table = DOMAIN r.table \cup {n}
            /\ t.table[n].attributes = a
            /\ \A x \in DOMAIN r.table : t.table[x] = r.table[x]
            /\ t.prototype = r.prototype /\ t.indexed = r.indexed
<1> DEFINE r == maps[m]
           key == <<n, a>>
           Adds(s) == /\ DOMAIN s.table = DOMAIN r.table \cup {n}
                      /\ s.table[n].attributes = a
                      /\ \A x \in DOMAIN r.table : s.table[x] = r.table[x]
                      /\ s.prototype = r.prototype /\ s.indexed = r.indexed
           moved == AddPropertyTransition(m, n, a)
<1>1. IsMap(r, LiveMaps) /\ Placed(r)
  BY DEF HeapOK, Typed, Exact, Ids, LiveMaps
<1>2. ASSUME NEW u \in BOOLEAN
      PROVE  LET d == Derived(r, u)
                 e == Extend(d, n, a)
             IN /\ Adds(e) /\ Placed(e) /\ IsMap(e, LiveMaps)
                /\ DOMAIN e.transitions = {} /\ e.unique = u
  <2> DEFINE d == Derived(r, u)
  <2>1. /\ d.table = r.table /\ d.prototype = r.prototype /\ d.indexed = r.indexed
        /\ Placed(d)
    BY <1>1, DerivedPlaced
  <2>2. IsMap(d, LiveMaps) /\ DOMAIN d.transitions = {} /\ d.unique = u
    BY <1>1, DerivedIsMap
  <2> HIDE DEF d
  <2> DEFINE e == Extend(d, n, a)
  <2>3. n \in Names \ DOMAIN d.table
    BY <2>1
  <2>4. /\ DOMAIN e.table = DOMAIN d.table \cup {n}
        /\ e.table[n].attributes = a
        /\ \A x \in DOMAIN d.table : e.table[x] = d.table[x]
        /\ e.prototype = d.prototype /\ e.indexed = d.indexed
        /\ Placed(e)
    BY <2>1, <2>2, <2>3, ExtendPlaced
  <2>5. IsMap(e, LiveMaps) /\ e.transitions = d.transitions /\ e.unique = d.unique
    BY <2>2, ExtendIsMap
  <2> HIDE DEF e
  <2>6. Adds(e) /\ Placed(e) /\ IsMap(e, LiveMaps) /\ DOMAIN e.transitions = {} /\ e.unique = u
    BY <2>1, <2>2, <2>4, <2>5
  <2> QED BY <2>6 DEF d, e
<1>3. CASE ~r.unique /\ key \in DOMAIN r.transitions
  <2>1. moved.maps = maps /\ moved.map = r.transitions[key]
    BY <1>3 DEF AddPropertyTransition, Moved
  <2>2. AddsOne(r, key, maps[r.transitions[key]])
    BY <1>3 DEF Exact, TransitionsExact, Ids, LiveMaps
  <2>3. Adds(maps[r.transitions[key]])
    BY <2>2 DEF AddsOne
  <2> QED BY <2>1, <2>3
<1>4. CASE /\ ~r.unique /\ key \notin DOMAIN r.transitions
           /\ r.transitCount <= MaxTransition
  <2> DEFINE e == Extend(Derived(r, FALSE), n, a)
             next == [e EXCEPT !.transitCount = r.transitCount + 1]
             parent == [r EXCEPT !.transitions = With(@, key, Len(maps) + 1)]
             g == [maps EXCEPT ![m] = parent]
             h == Append(g, next)
  <2>1. moved.maps = h /\ moved.map = Len(maps) + 1
    BY <1>4 DEF AddPropertyTransition, Moved
  <2>2. Adds(e) /\ Placed(e) /\ IsMap(e, LiveMaps) /\ DOMAIN e.transitions = {} /\ ~e.unique
    BY <1>2
  <2> HIDE DEF e
  <2>3. /\ next.table = e.table /\ next.deleted = e.deleted
        /\ next.prototype = e.prototype /\ next.indexed = e.indexed
        /\ next.transitions = e.transitions /\ next.unique = e.unique
    BY <2>2 DEF IsMap, MapFields
  <2> HIDE DEF next
  <2>4. Adds(next) /\ Placed(next) /\ DOMAIN next.transitions = {} /\ ~next.unique
    <3>1. Placed(next)
      BY <2>2, <2>3, SamePlaces
    <3> QED BY <2>2, <2>3, <3>1
  <2>5. /\ parent.unique = r.unique /\ parent.table = r.table
        /\ parent.deleted = r.deleted
        /\ parent.prototype = r.prototype /\ parent.indexed = r.indexed
        /\ parent.transitions = With(r.transitions, key, Len(maps) + 1)
    BY <1>1 DEF IsMap, MapFields
  <2> HIDE DEF parent
  <2>6. /\ Heap(g) /\ Len(maps) \in Nat /\ Len(g) = Len(maps) /\ g[m] = parent
        /\ \A k \in LiveMaps : k # m => g[k] = maps[k]
    <3>1. Heap(maps) /\ m \in Ids(maps)
      BY DEF HeapOK, Typed, LiveMaps, Ids
    <3> QED BY <3>1, UpdateHeap DEF LiveMaps, Ids
  <2> HIDE DEF g
  <2>7. /\ Len(h) = Len(maps) + 1
        /\ h[m] = parent /\ h[Len(maps) + 1] = next
        /\ \A k \in LiveMaps : k # m => h[k] = maps[k]
    BY <2>6, AppendHeap DEF Ids, LiveMaps
  <2> HIDE DEF h
  <2>8. /\ Ids(h) = LiveMaps \cup {Len(maps) + 1}
        /\ Len(maps) + 1 \notin LiveMaps
    BY <2>6, <2>7 DEF Ids, LiveMaps
  <2>9. \A k \in LiveMaps : /\ h[k].table = maps[k].table /\ h[k].deleted = maps[k].deleted
                            /\ h[k].unique = maps[k].unique
                            /\ h[k].prototype = maps[k].prototype
                            /\ h[k].indexed = maps[k].indexed
    BY <2>5, <2>7
  <2>10. \A k \in Ids(h) : Placed(h[k])
    <3> SUFFICES ASSUME NEW k \in LiveMaps PROVE Placed(h[k])
      BY <2>4, <2>7, <2>8
    <3>1. Placed(maps[k])
      BY DEF Exact, Ids, LiveMaps
    <3> QED BY <2>9, <3>1, SamePlaces
  <2>11. TransitionsExact(h)
    <3> SUFFICES ASSUME NEW k \in Ids(h), NEW j \in DOMAIN h[k].transitions
                 PROVE  AddsOne(h[k], j, h[h[k].transitions[j]])
      BY DEF TransitionsExact
    <3>1. CASE k = m /\ j = key
      <4>1. h[k].transitions[j] = Len(maps) + 1 /\ h[k] = parent
        BY <3>1, <2>5, <2>7 DEF With
      <4>2. n \notin DOMAIN r.table /\ key[1] = n /\ key[2] = a
        OBVIOUS
      <4> QED BY SMTT(60), <1>4, <2>4, <2>5, <2>7, <3>1, <4>1, <4>2 DEF AddsOne
    <3>2. CASE ~(k = m /\ j = key)
      <4>1. k \in LiveMaps /\ j \in DOMAIN maps[k].transitions
            /\ h[k].transitions[j] = maps[k].transitions[j]
        <5>1. CASE k = m
          BY <3>2, <5>1, <2>5, <2>7 DEF With
        <5>2. CASE k # m
          BY <5>2, <2>4, <2>7, <2>8
        <5> QED BY <5>1, <5>2
      <4>2. maps[k].transitions[j] \in LiveMaps
        BY <4>1 DEF HeapOK, Typed, IsMap, Ids, LiveMaps
      <4>3. AddsOne(maps[k], j, maps[maps[k].transitions[j]])
        BY <4>1 DEF Exact, TransitionsExact, Ids, LiveMaps
      <4> QED BY SMTT(60), <2>9, <4>1, <4>2, <4>3 DEF AddsOne
    <3> QED BY <3>1, <3>2
  <2> QED BY <2>1, <2>4, <2>7, <2>10, <2>11 DEF Exact
<1>5. CASE /\ ~(~r.unique /\ key \in DOMAIN r.transitions)
           /\ ~(/\ ~r.unique /\ key \notin DOMAIN r.transitions
                /\ r.transitCount <= MaxTransition)
  <2> DEFINE e == Extend(Derived(r, TRUE), n, a)
  <2>1. moved = Uniquely(m, e)
    BY <1>5 DEF AddPropertyTransition
  <2>2. Adds(e) /\ Placed(e) /\ DOMAIN e.transitions = {}
    BY <1>2
  <2> HIDE DEF e
  <2>3. Exact(Uniquely(m, e).maps) /\ Uniquely(m, e).maps[Uniquely(m, e).map] = e
    BY <2>2, UniquelyExact
  <2> QED BY <2>1, <2>2, <2>3
<1> QED BY <1>3, <1>4, <1>5

\* Map::DeletePropertyTransition.
LEMMA DeletePropertyExact ==
  ASSUME HeapOK, Exact(maps), NEW m \in LiveMaps, NEW n \in DOMAIN maps[m].table
  PROVE  LET moved == DeletePropertyTransition(m, n)
             r == maps[m]
             t == moved.maps[moved.map]
         IN /\ Exact(moved.maps)
            /\ DOMAIN t.table = DOMAIN r.table \ {n}
            /\ \A x \in DOMAIN r.table \ {n} : t.table[x] = r.table[x]
            /\ t.prototype = r.prototype /\ t.indexed = r.indexed
            /\ GetSlotsSize(t) = GetSlotsSize(r)
<1> DEFINE r == maps[m]
           d == Derived(r, TRUE)
           e == Shrink(d, n)
<1>1. IsMap(r, LiveMaps) /\ Placed(r)
  BY DEF HeapOK, Typed, Exact, Ids, LiveMaps
<1>2. /\ d.table = r.table /\ d.prototype = r.prototype /\ d.indexed = r.indexed
      /\ GetSlotsSize(d) = GetSlotsSize(r) /\ Placed(d)
      /\ IsMap(d, LiveMaps) /\ DOMAIN d.transitions = {}
  BY <1>1, DerivedPlaced, DerivedIsMap
<1>3. DeletePropertyTransition(m, n) = Appended(e)
  BY DEF DeletePropertyTransition
<1> HIDE DEF d
<1>4. /\ DOMAIN e.table = DOMAIN r.table \ {n}
      /\ \A x \in DOMAIN r.table \ {n} : e.table[x] = r.table[x]
      /\ e.prototype = r.prototype /\ e.indexed = r.indexed
      /\ GetSlotsSize(e) = GetSlotsSize(r)
      /\ Placed(e)
  <2>1. n \in DOMAIN d.table
    BY <1>2
  <2> HIDE DEF e
  <2> QED BY <1>2, <2>1, ShrinkPlaced DEF e
<1>5. DOMAIN e.transitions = {}
  BY <1>2 DEF Shrink, IsMap, MapFields
<1> HIDE DEF e
<1>6. Exact(Appended(e).maps) /\ Appended(e).maps[Appended(e).map] = e
  BY <1>4, <1>5, AppendedExact
<1> QED BY <1>3, <1>4, <1>6

\* Map::ChangeAttributesTransition.
LEMMA ChangeAttributesExact ==
  ASSUME HeapOK, Exact(maps), NEW m \in LiveMaps, NEW n \in DOMAIN maps[m].table,
         NEW a \in StoredAttributes
  PROVE  LET moved == ChangeAttributesTransition(m, n, a)
             r == maps[m]
             t == moved.maps[moved.map]
         IN /\ Exact(moved.maps)
            /\ DOMAIN t.table = DOMAIN r.table
            /\ t.table[n].attributes = a
            /\ \A x \in DOMAIN r.table : t.table[x].offset = r.table[x].offset
            /\ \A x \in DOMAIN r.table \ {n} : t.table[x] = r.table[x]
            /\ t.prototype = r.prototype /\ t.indexed = r.indexed
            /\ GetSlotsSize(t) = GetSlotsSize(r)
<1> DEFINE r == maps[m]
           d == Derived(r, TRUE)
           e == [d EXCEPT !.table[n].attributes = a]
<1>1. IsMap(r, LiveMaps) /\ Placed(r)
  BY DEF HeapOK, Typed, Exact, Ids, LiveMaps
<1>2. /\ d.table = r.table /\ d.prototype = r.prototype /\ d.indexed = r.indexed
      /\ GetSlotsSize(d) = GetSlotsSize(r) /\ Placed(d)
      /\ IsMap(d, LiveMaps) /\ DOMAIN d.transitions = {}
  BY <1>1, DerivedPlaced, DerivedIsMap
<1>3. ChangeAttributesTransition(m, n, a) = Appended(e)
  BY DEF ChangeAttributesTransition
<1> HIDE DEF d
<1>4. /\ DOMAIN e.table = DOMAIN r.table
      /\ e.table[n].attributes = a
      /\ \A x \in DOMAIN r.table : e.table[x].offset = r.table[x].offset
      /\ \A x \in DOMAIN r.table \ {n} : e.table[x] = r.table[x]
      /\ e.prototype = r.prototype /\ e.indexed = r.indexed
      /\ GetSlotsSize(e) = GetSlotsSize(r)
      /\ Placed(e)
  <2>1. n \in DOMAIN d.table
    BY <1>2
  <2> HIDE DEF e
  <2> QED BY <1>2, <2>1, AttributesPlaced DEF e
<1>5. DOMAIN e.transitions = {}
  BY <1>2 DEF IsMap, MapFields
<1> HIDE DEF e
<1>6. Exact(Appended(e).maps) /\ Appended(e).maps[Appended(e).map] = e
  BY <1>4, <1>5, AppendedExact
<1> QED BY <1>3, <1>4, <1>6

\* The transitions that change something other than the properties: t has the
\* table of r.
SameProperties(r, t) ==
  /\ t.table = r.table /\ t.deleted = r.deleted /\ GetSlotsSize(t) = GetSlotsSize(r)
  /\ Offsets(t) = Offsets(r)

\* The transitions for the prototype, for indexed elements and for preventing
\* extensions copy the properties, and leave the recorded transitions exact.
LEMMA OtherTransitionsExact ==
  ASSUME HeapOK, Exact(maps), NEW m \in LiveMaps, NEW p
  PROVE  LET r == maps[m]
             proto == ChangePrototypeTransition(m, p)
             index == ChangeIndexedTransition(m)
             close == ChangeExtensibleTransition(m)
         IN /\ /\ Exact(proto.maps) /\ SameProperties(r, proto.maps[proto.map])
               /\ proto.maps[proto.map].prototype = p
            /\ /\ Exact(index.maps) /\ SameProperties(r, index.maps[index.map])
               /\ index.maps[index.map].prototype = r.prototype
            /\ /\ Exact(close.maps) /\ SameProperties(r, close.maps[close.map])
               /\ close.maps[close.map].prototype = r.prototype
<1> DEFINE r == maps[m]
           d == Derived(r, TRUE)
           dp == [d EXCEPT !.prototype = p]
           di == [d EXCEPT !.indexed = TRUE]
           Like(e) == Placed(e) /\ SameProperties(r, e) /\ DOMAIN e.transitions = {}
<1>1. IsMap(r, LiveMaps) /\ Placed(r)
  BY DEF HeapOK, Typed, Exact, Ids, LiveMaps
<1>2. /\ d.table = r.table /\ d.deleted = r.deleted /\ d.prototype = r.prototype
      /\ IsMap(d, LiveMaps) /\ DOMAIN d.transitions = {}
  BY <1>1, DerivedPlaced, DerivedIsMap
<1>3. /\ ChangePrototypeTransition(m, p) = Uniquely(m, dp)
      /\ ChangeIndexedTransition(m) = Uniquely(m, di)
      /\ ChangeExtensibleTransition(m) = Appended(d)
  BY DEF ChangePrototypeTransition, ChangeIndexedTransition, ChangeExtensibleTransition
<1> HIDE DEF d
<1>4. /\ dp.table = d.table /\ dp.deleted = d.deleted /\ dp.transitions = d.transitions
      /\ dp.prototype = p
      /\ di.table = d.table /\ di.deleted = d.deleted /\ di.transitions = d.transitions
      /\ di.prototype = d.prototype
  BY <1>2 DEF IsMap, MapFields
<1> HIDE DEF dp, di
<1>5. Like(d) /\ Like(dp) /\ Like(di)
  <2>1. ASSUME NEW e, e.table = r.table, e.deleted = r.deleted, DOMAIN e.transitions = {}
        PROVE  Like(e)
    BY <1>1, <2>1, SamePlaces DEF SameProperties
  <2> QED BY <1>2, <1>4, <2>1
<1>6. ASSUME NEW e, Like(e)
      PROVE  /\ Exact(Appended(e).maps) /\ Appended(e).maps[Appended(e).map] = e
             /\ Exact(Uniquely(m, e).maps) /\ Uniquely(m, e).maps[Uniquely(m, e).map] = e
  BY <1>6, AppendedExact, UniquelyExact
<1> QED BY <1>2, <1>3, <1>4, <1>5, <1>6

\* Flattening changes no entry and no transition.
LEMMA FlattenedExact ==
  ASSUME NEW g, Typed(g), Exact(g), NEW ms
  PROVE  Exact(Flattened(g, ms))
<1> DEFINE h == Flattened(g, ms)
<1>1. DOMAIN g = Ids(g) /\ Len(g) \in Nat
  BY SequenceIsHeap DEF Typed, Heap, Ids
<1>2. /\ DOMAIN h = Ids(g)
      /\ \A m \in Ids(g) :
           h[m] = IF m \in ms /\ g[m].unique /\ ~g[m].flattened
                  THEN [g[m] EXCEPT !.flattened = TRUE] ELSE g[m]
  BY <1>1 DEF Flattened
<1>3. Ids(h) = Ids(g)
  <2> DEFINE T == {h[m] : m \in Ids(g)}
  <2>1. h = [m \in 1..Len(g) |-> h[m]] /\ \A m \in 1..Len(g) : h[m] \in T
    BY <1>2 DEF Flattened, Ids
  <2> HIDE DEF T, h
  <2>2. h \in Seq(T)
    BY <1>1, <2>1
  <2> QED BY <1>1, <1>2, <2>2, LenProperties DEF Ids
<1> HIDE DEF h
<1>4. \A m \in Ids(g) : \A f \in {"table", "deleted", "transitions", "unique",
                                      "prototype", "indexed"} : h[m][f] = g[m][f]
  <2> SUFFICES ASSUME NEW m \in Ids(g)
               PROVE  \A f \in {"table", "deleted", "transitions", "unique",
                                "prototype", "indexed"} : h[m][f] = g[m][f]
    OBVIOUS
  <2>1. DOMAIN g[m] = MapFields
    BY DEF Typed, IsMap
  <2> QED BY <1>2, <2>1 DEF MapFields
<1>5. \A m \in Ids(g) : Placed(h[m])
  <2> SUFFICES ASSUME NEW m \in Ids(g) PROVE Placed(h[m])
    OBVIOUS
  <2>1. Placed(g[m]) /\ h[m].table = g[m].table /\ h[m].deleted = g[m].deleted
    BY <1>4 DEF Exact
  <2> QED BY <2>1, SamePlaces
<1>6. TransitionsExact(h)
  <2> SUFFICES ASSUME NEW m \in Ids(g), NEW key \in DOMAIN h[m].transitions
               PROVE  AddsOne(h[m], key, h[h[m].transitions[key]])
    BY <1>3 DEF TransitionsExact
  <2>1. key \in DOMAIN g[m].transitions /\ h[m].transitions[key] = g[m].transitions[key]
    BY <1>4
  <2>2. g[m].transitions[key] \in Ids(g)
    BY <2>1 DEF Typed, IsMap
  <2>3. AddsOne(g[m], key, g[g[m].transitions[key]])
    BY <2>1 DEF Exact, TransitionsExact
  <2>4. \A k \in Ids(g) : /\ h[k].table = g[k].table /\ h[k].unique = g[k].unique
                            /\ h[k].prototype = g[k].prototype
                            /\ h[k].indexed = g[k].indexed
    BY <1>4
  <2> QED BY SMTT(60), <2>1, <2>2, <2>3, <2>4 DEF AddsOne
<1> QED BY <1>3, <1>5, <1>6 DEF Exact, h

-----------------------------------------------------------------------------
(* Steps                                                                   *)

HeapInv == IInv /\ Exact(maps)

\* The maps a context is set up with have no transitions yet.
LEMMA InitExact ==
  ASSUME Init
  PROVE  HeapInv
<1>1. maps = RootMaps /\ IInv
  BY InitEstablishes DEF Init
<1>2. ASSUME NEW m \in Ids(maps)
      PROVE  Placed(maps[m]) /\ DOMAIN maps[m].transitions = {}
  <2>1. IsMap(RootMaps[m], {}) /\ OffsetsExact(RootMaps[m])
    BY <1>1, RootAssumption, RootContents DEF Ids
  <2>2. DOMAIN RootMaps[m].transitions = {}
    BY <2>1 DEF IsMap
  <2> QED BY <1>1, <2>1, <2>2, ExactMeansPlaced
<1>3. TransitionsExact(maps)
  BY <1>2 DEF TransitionsExact
<1> QED BY <1>1, <1>2, <1>3 DEF HeapInv, Exact

\* A definition of a property: merged with what the object has, or added.
LEMMA DefineExact ==
  ASSUME HeapInv, NEW o \in Objects, NEW n \in Names, NEW d \in Descriptors,
         DefineOwnProperty(o, n, d)
  PROVE  Exact(maps')
<1>1. HeapOK /\ MapOf(o) \in LiveMaps /\ Exact(maps)
  BY InvariantGivesHeap DEF HeapInv
<1>2. CASE DefineFound(o, n, d)
  <2> DEFINE a == Entry(MapOf(o), n).attributes
             new == Merge(OwnSlot(o, n), d).attributes
  <2>1. n \in DOMAIN maps[MapOf(o)].table
    BY <1>2 DEF DefineFound, HasOwn, Has
  <2>2. new \in StoredAttributes
    <3>1. a \in StoredAttributes
      BY <1>1, <2>1 DEF HeapOK, Typed, IsMap, Ids, LiveMaps, Entry
    <3> QED BY <3>1, MergeStored DEF OwnSlot
  <2>3. Exact(ChangeAttributesTransition(MapOf(o), n, new).maps)
    BY <1>1, <2>1, <2>2, ChangeAttributesExact
  <2> QED BY <1>1, <1>2, <2>3 DEF DefineFound, Redefined, Become, Moved
<1>3. CASE DefineNotFound(o, n, d)
  <2> DEFINE a == NewSlot(d).attributes
  <2>1. n \in Names \ DOMAIN maps[MapOf(o)].table /\ a \in StoredAttributes
    BY <1>3, NewSlotStored DEF DefineNotFound, HasOwn, Has
  <2>2. Exact(AddPropertyTransition(MapOf(o), n, a).maps)
    BY <1>1, <2>1, AddPropertyExact
  <2> QED BY <1>3, <2>2 DEF DefineNotFound, Added, Become
<1> QED BY <1>2, <1>3 DEF DefineOwnProperty

\* A [[Put]] step defines an own property of its receiver: the value alone when
\* it has one, and a property with all attributes when it has none.
LEMMA PutIsDefine ==
  ASSUME NEW o, NEW n, NEW v \in Values, Put(o, n, v)
  PROVE  \E d \in {ValueOnly(v), DefaultData(v)} :
           d \in Descriptors /\ DefineOwnProperty(o, n, d)
<1>1. ValueOnly(v) \in Descriptors /\ DefaultData(v) \in Descriptors
  BY DescriptorAssumption
  DEF ValueOnly, DefaultData, Descriptors, DataDescriptors, Flag
<1> QED BY <1>1 DEF Put, DefineOwnProperty

\* Every step makes an exact heap of an exact heap.
LEMMA StepExact ==
  ASSUME HeapInv, [Next]_hvars
  PROVE  HeapInv'
<1>1. IInv' /\ HeapOK /\ Exact(maps)
  BY StepKeeps, InvariantGivesHeap DEF HeapInv
<1>2. CASE UNCHANGED hvars
  BY <1>1, <1>2 DEF hvars, HeapInv
<1>3. ASSUME NEW o \in Objects, NEW n \in Names, NamedStep(o, n)
      PROVE  Exact(maps')
  <2>1. MapOf(o) \in LiveMaps
    BY InvariantGivesHeap DEF HeapInv
  <2>2. CASE Get(o, n)
    BY <1>1, <2>2 DEF Get, hvars
  <2>3. ASSUME NEW d \in Inputs, DefineOwnProperty(o, n, d)
        PROVE  Exact(maps')
    BY <2>3, HeapAssumption, DefineExact
  <2>4. ASSUME NEW v \in PutValues, Put(o, n, v)
        PROVE  Exact(maps')
    BY <2>4, HeapAssumption, PutIsDefine, DefineExact
  <2>5. CASE Delete(o, n)
    BY <1>1, <2>1, <2>5, DeletePropertyExact DEF Delete, Become, HasOwn, Has
  <2> QED BY <1>3, <2>2, <2>3, <2>4, <2>5 DEF NamedStep
<1>4. ASSUME NEW o \in Objects, ObjectStep(o)
      PROVE  Exact(maps')
  <2>1. MapOf(o) \in LiveMaps
    BY InvariantGivesHeap DEF HeapInv
  <2>2. ASSUME NEW p \in Prototypes, ChangePrototype(o, p)
        PROVE  Exact(maps')
    BY <1>1, <2>1, <2>2, OtherTransitionsExact DEF ChangePrototype, Become
  <2>3. CASE BecomeIndexed(o)
    BY <1>1, <2>1, <2>3, OtherTransitionsExact DEF BecomeIndexed, Become
  <2>4. CASE PreventExtensions(o)
    BY <1>1, <2>1, <2>4, OtherTransitionsExact DEF PreventExtensions
  <2>5. CASE FlattenMap(o)
    BY <1>1, <2>5, FlattenedExact DEF FlattenMap, HeapOK
  <2> QED BY <1>4, <2>2, <2>3, <2>4, <2>5 DEF ObjectStep
<1> QED BY <1>1, <1>2, <1>3, <1>4 DEF Next, HeapInv

-----------------------------------------------------------------------------
(* Theorems                                                                *)

\* Every reachable heap is well formed, and its transitions record what they add.
LEMMA HeapInvariance == Spec => []HeapInv
BY InitExact, StepExact, PTL DEF Spec

\* Whatever properties objects gain and lose, and whichever of them share maps,
\* no two properties of a map have one offset and none is lost: what a map has
\* given out and taken back are exactly its slots.
THEOREM OffsetsStaySlots == Spec => []OffsetsAreSlots
<1>1. HeapInv => OffsetsAreSlots
  <2> SUFFICES ASSUME HeapInv, NEW m \in LiveMaps PROVE OffsetsExact(maps[m])
    BY DEF OffsetsAreSlots
  <2>1. IsMap(maps[m], LiveMaps) /\ Placed(maps[m])
    BY InvariantGivesHeap DEF HeapInv, Exact, HeapOK, Typed, Ids, LiveMaps
  <2> QED BY <2>1, ExactMeansPlaced
<1> QED BY <1>1, HeapInvariance, PTL

\* For every kMaxTransition and any number of objects that share maps, a
\* transition always leads to its map plus the one property it is named for.
THEOREM TransitionsStayExact == Spec => []TransitionsAddOneProperty
<1>1. HeapInv => TransitionsAddOneProperty
  BY DEF HeapInv, Exact, TransitionsExact, TransitionsAddOneProperty, Ids, LiveMaps
<1> QED BY <1>1, HeapInvariance, PTL
-----------------------------------------------------------------------------
(* Storage                                                                 *)

\* CLP2(n) is the smallest power of two that is at least n.
LEMMA PowerAbove ==
  ASSUME NEW n \in Nat
  PROVE  /\ CLP2(n) \in {2^k : k \in 0..n} /\ CLP2(n) \in Nat /\ CLP2(n) >= n
         /\ \A k \in 0..n : 2^k >= n => CLP2(n) <= 2^k
<1> DEFINE P == {2^k : k \in 0..n}
           T == {p \in P : p >= n}
           Smallest(p) == p >= n /\ \A k \in 0..n : 2^k >= n => p <= 2^k
<1>1. P \subseteq Nat /\ 2^n \in T
  BY PowerIsEnough
<1>2. PICK p \in T : \A q \in T : p <= q
  <2> HIDE DEF T, P
  <2> QED BY <1>1, LeastNatural DEF T
<1>3. \A k \in 0..n : 2^k \in P
  OBVIOUS
<1>4. CLP2(n) = CHOOSE q \in P : Smallest(q)
  BY DEF CLP2
<1> HIDE DEF P
<1>5. p \in P /\ Smallest(p)
  BY <1>2, <1>3
<1> HIDE DEF Smallest
<1>6. CLP2(n) \in P /\ Smallest(CLP2(n))
  BY <1>4, <1>5
<1> QED BY <1>1, <1>6 DEF Smallest, P

\* core::NextCapacity(n) is at least n.
LEMMA NextCapacityIsEnough ==
  ASSUME NEW n \in Nat
  PROVE  NextCapacity(n) \in Nat /\ NextCapacity(n) >= n
BY PowerAbove, HeapAssumption DEF NextCapacity

\* A storage of c slots has room for all that NextCapacity gives to fewer: then
\* two maps with one capacity need no resize between them.
Roomy(c) == \A k \in 0..c : NextCapacity(k) <= c

\* A capacity the storage is given is roomy: there is none smaller for its size.
LEMMA CapacityIsRoomy ==
  ASSUME NEW n \in Nat
  PROVE  Roomy(NextCapacity(n))
<1> DEFINE c == NextCapacity(n)
<1> SUFFICES ASSUME NEW k \in 0..c PROVE NextCapacity(k) <= c
  BY DEF Roomy
<1>1. c \in Nat /\ c >= n /\ MinCapacity \in Nat
  BY NextCapacityIsEnough, HeapAssumption
<1>2. k \in Nat /\ k <= c
  BY <1>1
<1>3. CASE k = 0
  BY <1>1, <1>3 DEF NextCapacity
<1>4. CASE k > 0 /\ k < MinCapacity
  <2>1. n > 0
    BY <1>2, <1>4 DEF NextCapacity
  <2>2. c >= MinCapacity
    BY <1>1, <2>1 DEF NextCapacity
  <2> QED BY <1>1, <1>2, <1>4, <2>2 DEF NextCapacity
<1>5. CASE k > 0 /\ k >= MinCapacity
  <2>1. n > 0
    BY <1>2, <1>5 DEF NextCapacity
  <2>2. PICK e \in Nat : c = 2^e
    <3>1. CASE n < MinCapacity
      BY <1>1, <2>1, <3>1, HeapAssumption DEF NextCapacity
    <3>2. CASE n >= MinCapacity
      BY <1>1, <2>1, <3>2, PowerAbove DEF NextCapacity
    <3> QED BY <1>1, <3>1, <3>2
  <2> HIDE DEF c
  <2> DEFINE pow(i) == 2^i
  <2>3. /\ \A i \in 0..k : pow(i) >= k => CLP2(k) <= pow(i)
        /\ c = pow(e) /\ pow(k) \in Nat /\ pow(k) >= k /\ CLP2(k) \in Nat
        /\ k <= e => pow(k) <= pow(e)
    BY <1>2, <2>2, PowerAbove, PowerIsEnough, PowersGrow
  <2> HIDE DEF pow
  <2>4. CLP2(k) <= c
    <3>1. CASE e <= k
      BY <1>1, <1>2, <2>3, <3>1
    <3>2. CASE e > k
      BY <1>1, <1>2, <2>3, <3>2
    <3> QED BY <1>2, <3>1, <3>2
  <2>5. NextCapacity(k) = CLP2(k)
    BY <1>1, <1>2, <1>5 DEF NextCapacity
  <2> QED BY <2>4, <2>5
<1> QED BY <1>1, <1>2, <1>3, <1>4, <1>5

\* Slots are the first so many numbers.
IsStorage(s, c) == c \in Nat /\ DOMAIN s = 0..(c - 1) /\ Roomy(c)

\* A storage has as many cells as its capacity.
LEMMA StorageSize ==
  ASSUME NEW s, NEW c, IsStorage(s, c)
  PROVE  Cardinality(DOMAIN s) = c
<1>1. Cardinality(0..(c - 1)) = IF 0 > c - 1 THEN 0 ELSE (c - 1) - 0 + 1
  <2>1. c - 1 \in Int /\ 0 \in Int
    BY DEF IsStorage
  <2> QED BY <2>1, FS_Interval
<1> QED BY <1>1 DEF IsStorage

\* FixedStorage::resize gives room for n slots and keeps those there were.
LEMMA ResizedKeeps ==
  ASSUME NEW s, NEW c, IsStorage(s, c), NEW n \in Nat
  PROVE  \E k \in Nat :
           /\ IsStorage(Resized(s, n), k) /\ k >= n /\ k >= c
           /\ \A i \in DOMAIN s : Resized(s, n)[i] = s[i]
           /\ \A i \in DOMAIN Resized(s, n) \ DOMAIN s : Resized(s, n)[i] = Empty
<1>1. Cardinality(DOMAIN s) = c /\ c \in Nat
  BY StorageSize DEF IsStorage
<1>2. CASE n <= c
  <2>1. Resized(s, n) = s
    BY <1>1, <1>2 DEF Resized
  <2> QED BY <1>1, <1>2, <2>1 DEF IsStorage
<1>3. CASE ~(n <= c)
  <2> DEFINE k == NextCapacity(n)
  <2>1. k \in Nat /\ k >= n
    BY NextCapacityIsEnough
  <2>2. Resized(s, n) = [i \in 0..(k - 1) |-> IF i \in DOMAIN s THEN s[i] ELSE Empty]
    BY <1>1, <1>3 DEF Resized
  <2>3. Roomy(k)
    BY CapacityIsRoomy
  <2> HIDE DEF k
  <2> QED BY <1>1, <1>3, <2>1, <2>2, <2>3 DEF IsStorage
<1> QED BY <1>2, <1>3

-----------------------------------------------------------------------------
(* What a step does to the object it is about, and that it does nothing to *)
(* the others, although maps are shared and change in place.               *)

MapAt(o) == maps[MapOf(o)]

Untouched(x) ==
  /\ objs'[x] = objs[x]
  /\ MapAt(x)'.table = MapAt(x).table
  /\ MapAt(x)'.deleted = MapAt(x).deleted
  /\ MapAt(x)'.prototype = MapAt(x).prototype

Others(o) == \A x \in Objects \ {o} : Untouched(x)

\* What the map of an object is, from the invariant.
LEMMA MapAtIsMap ==
  ASSUME HeapInv, NEW o \in Objects
  PROVE  IsMap(MapAt(o), LiveMaps) /\ Placed(MapAt(o)) /\ MapOf(o) \in LiveMaps
BY InvariantGivesHeap DEF HeapInv, HeapOK, Typed, Exact, Ids, LiveMaps, MapAt

\* The same after a step that keeps the invariant.
LEMMA NextMapIsMap ==
  ASSUME HeapInv', NEW o \in Objects
  PROVE  IsMap(MapAt(o)', LiveMaps') /\ Placed(MapAt(o)')
<1>1. \A m \in 1..Len(maps') : IsMap(maps'[m], 1..Len(maps'))
  BY DEF HeapInv, IInv, TypeOK, LiveMaps
<1>2. objs'[o].map \in 1..Len(maps')
  BY DEF HeapInv, IInv, TypeOK, LiveMaps
<1>3. \A m \in 1..Len(maps') : Placed(maps'[m])
  BY DEF HeapInv, Exact, Ids
<1> QED BY <1>1, <1>2, <1>3 DEF MapAt, MapOf, LiveMaps

\* A map that another object has as well is shared, so that all it can gain is
\* a transition.
LEMMA MovesTouchesOne ==
  ASSUME IInv, NEW o \in Objects, NEW moved, Moves(o, moved)
  PROVE  Others(o) /\ MapAt(o)' = moved.maps[moved.map]
<1>1. /\ maps' = moved.maps /\ objs'[o].map = moved.map
      /\ \A x \in Objects : x # o => objs'[x] = objs[x]
      /\ \A k \in LiveMaps : k # MapOf(o) => Kept(maps[k], moved.maps[k])
      /\ Stable(maps[MapOf(o)], moved.maps[MapOf(o)])
  BY DEF Moves, Evolves, Lasting
<1>2. ASSUME NEW x \in Objects, x # o PROVE Untouched(x)
  <2>1. objs'[x] = objs[x] /\ MapAt(x)' = moved.maps[MapOf(x)] /\ MapOf(x) \in LiveMaps
    BY <1>1, <1>2, InvariantGivesHeap DEF MapAt, MapOf
  <2>2. CASE MapOf(x) # MapOf(o)
    <3>1. Kept(maps[MapOf(x)], moved.maps[MapOf(x)]) /\ IsMap(maps[MapOf(x)], LiveMaps)
      BY <1>1, <2>1, <2>2 DEF IInv, TypeOK
    <3>2. \A f \in MapFields \ {"flattened"} :
            moved.maps[MapOf(x)][f] = maps[MapOf(x)][f]
      BY <3>1 DEF Kept, IsMap, MapFields
    <3> QED BY <2>1, <3>2 DEF Untouched, MapAt, MapFields
  <2>3. CASE MapOf(x) = MapOf(o)
    <3>1. ~maps[MapOf(x)].unique
      BY <1>2, <2>1, <2>3 DEF IInv, UniqueMapsNotShared
    <3>2. \A f \in MapFields \ {"transitions"} : moved.maps[MapOf(x)][f] = maps[MapOf(x)][f]
      BY <1>1, <2>3, <3>1 DEF Stable
    <3> QED BY <2>1, <3>2 DEF Untouched, MapAt, MapFields
  <2> QED BY <2>2, <2>3
<1> QED BY <1>1, <1>2 DEF Others, MapAt, MapOf

\* JSObject::set_map moves one object to a map and a storage, and nothing else.
LEMMA BecomeEffect ==
  ASSUME HeapInv, NEW o \in Objects, NEW moved, NEW slots,
         Evolves(MapOf(o), moved), Become(o, moved, slots)
  PROVE  /\ Others(o)
         /\ MapAt(o)' = moved.maps[moved.map]
         /\ objs'[o].slots = slots
         /\ objs'[o].extensible = objs[o].extensible
<1>1. DOMAIN objs = Objects /\ DOMAIN objs[o] = {"map", "slots", "extensible"} /\ IInv
  BY DEF HeapInv, IInv, TypeOK
<1>2. objs'[o] = [objs[o] EXCEPT !.map = moved.map, !.slots = slots]
  BY <1>1 DEF Become
<1>3. Moves(o, moved)
  BY <1>1, BecomeMoves
<1> QED BY <1>1, <1>2, <1>3, MovesTouchesOne

\* The property n of o is redefined: it keeps its place.
LEMMA DefineFoundEffect ==
  ASSUME HeapInv, NEW o \in Objects, NEW n \in Names, NEW d \in Descriptors,
         DefineFound(o, n, d)
  PROVE  LET r == MapAt(o)
             t == MapAt(o)'
             new == Merge(OwnSlot(o, n), d)
         IN /\ Others(o)
            /\ n \in DOMAIN r.table
            /\ DOMAIN t.table = DOMAIN r.table
            /\ t.table[n].attributes = new.attributes
            /\ \A x \in DOMAIN r.table : t.table[x].offset = r.table[x].offset
            /\ \A x \in DOMAIN r.table \ {n} : t.table[x] = r.table[x]
            /\ t.prototype = r.prototype
            /\ GetSlotsSize(t) = GetSlotsSize(r)
            /\ objs'[o].slots = [Slots(o) EXCEPT ![r.table[n].offset] = new.value]
            /\ objs'[o].extensible = objs[o].extensible
<1> DEFINE r == MapAt(o)
           new == Merge(OwnSlot(o, n), d)
           moved == Redefined(o, n, d).moved
           t == moved.maps[moved.map]
<1>1. HeapOK /\ Exact(maps) /\ MapOf(o) \in LiveMaps
  BY InvariantGivesHeap DEF HeapInv
<1>2. n \in DOMAIN maps[MapOf(o)].table
  BY DEF DefineFound, HasOwn, Has
<1>3. new.attributes \in StoredAttributes
  <2>1. OwnSlot(o, n).attributes \in StoredAttributes
    BY <1>1, <1>2 DEF HeapOK, Typed, IsMap, Ids, LiveMaps, Entry, OwnSlot
  <2> QED BY <2>1, MergeStored DEF OwnSlot
<1>4. moved = IF new.attributes = OwnSlot(o, n).attributes THEN Moved(maps, MapOf(o))
              ELSE ChangeAttributesTransition(MapOf(o), n, new.attributes)
  BY DEF Redefined
<1>5. Redefined(o, n, d).slots = [Slots(o) EXCEPT ![r.table[n].offset] = new.value]
  BY DEF Redefined, Entry, MapAt
<1>6. OwnSlot(o, n).attributes = r.table[n].attributes
  BY DEF OwnSlot, Entry, MapAt
<1> HIDE DEF new
<1>7. Evolves(MapOf(o), moved)
  BY <1>1, <1>2, <1>3, <1>4, StayingEvolves, ChangeAttributesEvolves
<1>8. /\ DOMAIN t.table = DOMAIN r.table
      /\ t.table[n].attributes = new.attributes
      /\ \A x \in DOMAIN r.table : t.table[x].offset = r.table[x].offset
      /\ \A x \in DOMAIN r.table \ {n} : t.table[x] = r.table[x]
      /\ t.prototype = r.prototype
      /\ GetSlotsSize(t) = GetSlotsSize(r)
  <2>1. CASE new.attributes = OwnSlot(o, n).attributes
    <3>1. t = r
      BY <1>4, <2>1 DEF Moved, MapAt
    <3> QED BY <1>6, <2>1, <3>1
  <2>2. CASE new.attributes # OwnSlot(o, n).attributes
    BY <1>1, <1>2, <1>3, <1>4, <2>2, ChangeAttributesExact DEF MapAt
  <2> QED BY <2>1, <2>2
<1>9. Become(o, moved, Redefined(o, n, d).slots)
  BY DEF DefineFound
<1> HIDE DEF moved
<1>10. /\ Others(o) /\ MapAt(o)' = t /\ objs'[o].slots = Redefined(o, n, d).slots
      /\ objs'[o].extensible = objs[o].extensible
  BY <1>7, <1>9, BecomeEffect
<1>11. n \in DOMAIN r.table
  BY <1>2 DEF MapAt
<1> HIDE DEF t, r
<1> QED BY <1>8, <1>10, <1>11, <1>5 DEF new, r

\* What the addition of property n to o does: it has a place that no other
\* property has.
AddedTo(o, n, d) ==
  LET r == MapAt(o)
      t == MapAt(o)'
      new == NewSlot(d)
  IN /\ Others(o)
     /\ n \in Names \ DOMAIN r.table
     /\ DOMAIN t.table = DOMAIN r.table \cup {n}
     /\ t.table[n].attributes = new.attributes
     /\ \A x \in DOMAIN r.table : t.table[x] = r.table[x]
     /\ t.prototype = r.prototype
     /\ objs'[o].slots = [Resized(Slots(o), GetSlotsSize(t)) EXCEPT
                            ![t.table[n].offset] = new.value]
     /\ objs[o].extensible /\ objs'[o].extensible = objs[o].extensible

\* The transition is taken, whatever else happened to the flags of maps.
LEMMA AddedEffect ==
  ASSUME HeapInv, NEW o \in Objects, NEW n \in Names, NEW d \in Descriptors,
         ~HasOwn(o, n), objs[o].extensible, NEW h,
         Evolves(MapOf(o), Moved(h, Added(o, n, d).moved.map)),
         \A f \in {"table", "deleted", "prototype"} :
           h[Added(o, n, d).moved.map][f]
             = Added(o, n, d).moved.maps[Added(o, n, d).moved.map][f],
         Become(o, Moved(h, Added(o, n, d).moved.map), Added(o, n, d).slots)
  PROVE  AddedTo(o, n, d)
<1> DEFINE r == MapAt(o)
           new == NewSlot(d)
           moved == AddPropertyTransition(MapOf(o), n, new.attributes)
           t == moved.maps[moved.map]
<1>1. HeapOK /\ Exact(maps) /\ MapOf(o) \in LiveMaps
  BY InvariantGivesHeap DEF HeapInv
<1>2. n \in Names \ DOMAIN maps[MapOf(o)].table /\ new.attributes \in StoredAttributes
  BY NewSlotStored DEF HasOwn, Has
<1>3. Added(o, n, d) = [moved |-> moved,
                        slots |-> [Resized(Slots(o), GetSlotsSize(t)) EXCEPT
                                     ![t.table[n].offset] = new.value]]
  BY DEF Added
<1> HIDE DEF new
<1>4. /\ DOMAIN t.table = DOMAIN r.table \cup {n}
      /\ t.table[n].attributes = new.attributes
      /\ \A x \in DOMAIN r.table : t.table[x] = r.table[x]
      /\ t.prototype = r.prototype
  BY SMTT(60), <1>1, <1>2, AddPropertyExact DEF MapAt
<1> HIDE DEF moved
<1>5. /\ Others(o) /\ MapAt(o)' = h[moved.map] /\ objs'[o].slots = Added(o, n, d).slots
      /\ objs'[o].extensible = objs[o].extensible
  <2>1. Moved(h, moved.map).maps = h /\ Moved(h, moved.map).map = moved.map
    BY DEF Moved
  <2>2. /\ Evolves(MapOf(o), Moved(h, moved.map))
        /\ Become(o, Moved(h, moved.map), Added(o, n, d).slots)
    BY SMTT(60), <1>3
  <2> QED BY <2>1, <2>2, BecomeEffect
<1>6. /\ MapAt(o)'.table = t.table /\ MapAt(o)'.deleted = t.deleted
      /\ MapAt(o)'.prototype = t.prototype
  BY SMTT(60), <1>3, <1>5
<1>7. GetSlotsSize(MapAt(o)') = GetSlotsSize(t)
  BY <1>6 DEF GetSlotsSize
<1>8. n \in Names \ DOMAIN r.table
  BY <1>2 DEF MapAt
<1>9. objs'[o].slots = [Resized(Slots(o), GetSlotsSize(MapAt(o)')) EXCEPT
                          ![MapAt(o)'.table[n].offset] = new.value]
  BY SMTT(60), <1>3, <1>5, <1>6, <1>7
<1> HIDE DEF t, r
<1> QED BY <1>4, <1>5, <1>6, <1>8, <1>9 DEF AddedTo, new, r

\* Defining an absent property adds it with the slot of its descriptor.
LEMMA DefineNotFoundEffect ==
  ASSUME HeapInv, NEW o \in Objects, NEW n \in Names, NEW d \in Descriptors,
         DefineNotFound(o, n, d)
  PROVE  AddedTo(o, n, d)
<1> DEFINE moved == Added(o, n, d).moved
<1>1. HeapOK /\ MapOf(o) \in LiveMaps
  BY InvariantGivesHeap DEF HeapInv
<1>2. n \in Names \ DOMAIN maps[MapOf(o)].table /\ NewSlot(d).attributes \in StoredAttributes
  BY NewSlotStored DEF DefineNotFound, HasOwn, Has
<1>3. moved = AddPropertyTransition(MapOf(o), n, NewSlot(d).attributes)
  BY DEF Added
<1>4. Evolves(MapOf(o), moved) /\ moved = Moved(moved.maps, moved.map)
  <2>1. Evolves(MapOf(o), moved)
    BY <1>1, <1>2, <1>3, AddPropertyEvolves
  <2>2. moved = Moved(moved.maps, moved.map)
    BY <1>3 DEF AddPropertyTransition, Uniquely, Appended, Moved
  <2> QED BY <2>1, <2>2
<1> HIDE DEF moved
<1> QED BY <1>4, AddedEffect DEF DefineNotFound, moved

\* The property n of o is deleted and its place emptied.
LEMMA DeleteEffect ==
  ASSUME HeapInv, NEW o \in Objects, NEW n \in Names, Delete(o, n)
  PROVE  LET r == MapAt(o)
             t == MapAt(o)'
         IN /\ Others(o)
            /\ n \in DOMAIN r.table /\ r.table[n].attributes.configurable
            /\ DOMAIN t.table = DOMAIN r.table \ {n}
            /\ \A x \in DOMAIN r.table \ {n} : t.table[x] = r.table[x]
            /\ t.prototype = r.prototype
            /\ GetSlotsSize(t) = GetSlotsSize(r)
            /\ objs'[o].slots = [Slots(o) EXCEPT ![r.table[n].offset] = Empty]
            /\ objs'[o].extensible = objs[o].extensible
<1> DEFINE r == MapAt(o)
           moved == DeletePropertyTransition(MapOf(o), n)
           t == moved.maps[moved.map]
           slots == [Slots(o) EXCEPT ![r.table[n].offset] = Empty]
<1>1. HeapOK /\ Exact(maps) /\ MapOf(o) \in LiveMaps
  BY InvariantGivesHeap DEF HeapInv
<1>2. n \in DOMAIN maps[MapOf(o)].table /\ r.table[n].attributes.configurable
  BY DEF Delete, HasOwn, Has, Entry, MapAt
<1>3. Evolves(MapOf(o), moved)
  BY <1>1, <1>2, DeletePropertyEvolves
<1>4. /\ DOMAIN t.table = DOMAIN r.table \ {n}
      /\ \A x \in DOMAIN r.table \ {n} : t.table[x] = r.table[x]
      /\ t.prototype = r.prototype
      /\ GetSlotsSize(t) = GetSlotsSize(r)
  BY <1>1, <1>2, DeletePropertyExact DEF MapAt
<1>5. Become(o, moved, slots)
  BY DEF Delete, Entry, MapAt
<1> HIDE DEF moved, slots
<1>6. /\ Others(o) /\ MapAt(o)' = t /\ objs'[o].slots = slots
      /\ objs'[o].extensible = objs[o].extensible
  BY <1>3, <1>5, BecomeEffect
<1> QED BY <1>2, <1>4, <1>6 DEF slots, MapAt

\* The other steps change the prototype or the flags and no property.
LEMMA ChangePrototypeEffect ==
  ASSUME HeapInv, NEW o \in Objects, NEW p \in Prototypes, ChangePrototype(o, p)
  PROVE  /\ Others(o) /\ SameProperties(MapAt(o), MapAt(o)')
         /\ MapAt(o)'.prototype = p
         /\ objs'[o].slots = Slots(o)
         /\ objs[o].extensible /\ objs'[o].extensible = objs[o].extensible
<1> DEFINE moved == ChangePrototypeTransition(MapOf(o), p)
           t == moved.maps[moved.map]
<1>1. HeapOK /\ Exact(maps) /\ MapOf(o) \in LiveMaps /\ p \in Objects \cup {NoObject}
  BY InvariantGivesHeap, HeapAssumption DEF HeapInv
<1>2. Evolves(MapOf(o), moved) /\ SameProperties(MapAt(o), t) /\ t.prototype = p
  BY <1>1, ChangePrototypeEvolves, OtherTransitionsExact DEF MapAt
<1>3. Become(o, moved, Slots(o)) /\ objs[o].extensible
  BY DEF ChangePrototype
<1> HIDE DEF moved
<1> QED BY <1>2, <1>3, BecomeEffect

\* The change to indexed elements keeps the properties, the prototype, the slots
\* and the extensibility of the object.
LEMMA BecomeIndexedEffect ==
  ASSUME HeapInv, NEW o \in Objects, BecomeIndexed(o)
  PROVE  /\ Others(o) /\ SameProperties(MapAt(o), MapAt(o)')
         /\ MapAt(o)'.prototype = MapAt(o).prototype
         /\ objs'[o].slots = Slots(o)
         /\ objs'[o].extensible = objs[o].extensible
<1> DEFINE moved == ChangeIndexedTransition(MapOf(o))
           t == moved.maps[moved.map]
<1>1. HeapOK /\ Exact(maps) /\ MapOf(o) \in LiveMaps
  BY InvariantGivesHeap DEF HeapInv
<1>2. /\ Evolves(MapOf(o), moved) /\ SameProperties(MapAt(o), t)
      /\ t.prototype = MapAt(o).prototype
  BY <1>1, ChangeIndexedEvolves, OtherTransitionsExact DEF MapAt
<1>3. Become(o, moved, Slots(o))
  BY DEF BecomeIndexed
<1> HIDE DEF moved
<1> QED BY <1>2, <1>3, BecomeEffect

\* Preventing extensions keeps the properties, the prototype and the slots.
LEMMA PreventExtensionsEffect ==
  ASSUME HeapInv, NEW o \in Objects, PreventExtensions(o)
  PROVE  /\ Others(o) /\ SameProperties(MapAt(o), MapAt(o)')
         /\ MapAt(o)'.prototype = MapAt(o).prototype
         /\ objs'[o].slots = Slots(o)
         /\ objs'[o].extensible = FALSE
<1> DEFINE moved == ChangeExtensibleTransition(MapOf(o))
           t == moved.maps[moved.map]
           new == [objs[o] EXCEPT !.map = moved.map, !.extensible = FALSE]
<1>1. HeapOK /\ Exact(maps) /\ MapOf(o) \in LiveMaps /\ IInv
      /\ DOMAIN objs = Objects /\ DOMAIN objs[o] = {"map", "slots", "extensible"}
  BY InvariantGivesHeap DEF HeapInv, IInv, TypeOK
<1>2. /\ Evolves(MapOf(o), moved) /\ SameProperties(MapAt(o), t)
      /\ t.prototype = MapAt(o).prototype
  BY <1>1, ChangeExtensibleEvolves, OtherTransitionsExact DEF MapAt
<1>3. Len(moved.maps) <= MaxMaps /\ maps' = moved.maps /\ objs' = [objs EXCEPT ![o] = new]
  BY <1>1 DEF PreventExtensions
<1> HIDE DEF moved
<1>4. /\ DOMAIN new = {"map", "slots", "extensible"} /\ new.map = moved.map
      /\ new.extensible = FALSE /\ new.slots = Slots(o)
  BY <1>1 DEF Slots
<1> HIDE DEF new
<1>5. Moves(o, moved)
  BY <1>1, <1>2, <1>3, <1>4 DEF Moves
<1> QED BY <1>1, <1>2, <1>3, <1>4, <1>5, MovesTouchesOne

\* Flattening changes nothing that an object shows.
LEMMA FlattenEffect ==
  ASSUME HeapInv, NEW ms, Flattening(ms)
  PROVE  \A x \in Objects : Untouched(x)
<1> SUFFICES ASSUME NEW x \in Objects PROVE Untouched(x)
  OBVIOUS
<1>1. MapOf(x) \in LiveMaps /\ MapOf(x)' = MapOf(x) /\ objs' = objs
  BY MapAtIsMap DEF Flattening, MapOf
<1>2. DOMAIN maps = LiveMaps /\ IsMap(MapAt(x), LiveMaps)
  <2>1. HeapOK
    BY InvariantGivesHeap DEF HeapInv
  <2> QED BY <2>1, MapAtIsMap, SequenceIsHeap DEF HeapOK, Typed, Heap, Ids, LiveMaps
<1>3. MapAt(x)' \in {MapAt(x), [MapAt(x) EXCEPT !.flattened = TRUE]}
  BY <1>1, <1>2 DEF Flattening, Flattened, MapAt
<1> QED BY <1>1, <1>2, <1>3 DEF Untouched, IsMap, MapFields

-----------------------------------------------------------------------------
(* Slots                                                                   *)

\* A data property made of an accessor by a descriptor without a value keeps
\* the Accessor cell (README, section 6); nothing else does.
InputsCarryValues == \A d \in Inputs : d.type = "data" => d.value # Absent

DataValues == IF InputsCarryValues THEN Values ELSE Values \cup Accessors

\* What a slot with attributes a may hold.
Holds(a) == IF a.type = "data" THEN DataValues ELSE Accessors

\* The slots s are what map r says.
Fits(r, s) ==
  /\ \E c \in Nat : IsStorage(s, c) /\ GetSlotsSize(r) <= c
  /\ \A n \in DOMAIN r.table : s[r.table[n].offset] \in Holds(r.table[n].attributes)
  /\ \A i \in DOMAIN s \ Offsets(r) : s[i] = Empty

\* Offsets are slots: what is at one of them is there.
LEMMA OffsetInStorage ==
  ASSUME NEW r, NEW ids, IsMap(r, ids), Placed(r), NEW s, Fits(r, s), NEW n \in DOMAIN r.table
  PROVE  r.table[n].offset \in DOMAIN s
<1>1. r.table[n].offset \in 0..(GetSlotsSize(r) - 1)
  BY DEF Placed, Offsets
<1>2. PICK c \in Nat : IsStorage(s, c) /\ GetSlotsSize(r) <= c
  BY DEF Fits
<1>3. GetSlotsSize(r) \in Nat
  BY SlotsSizeNat
<1> QED BY <1>1, <1>2, <1>3 DEF IsStorage

\* A value and other attributes for a property that keeps its place.
LEMMA StoreFits ==
  ASSUME NEW r, NEW ids, IsMap(r, ids), Placed(r), NEW s, Fits(r, s), NEW n \in DOMAIN r.table,
         NEW t, DOMAIN t.table = DOMAIN r.table,
         \A x \in DOMAIN r.table : t.table[x].offset = r.table[x].offset,
         \A x \in DOMAIN r.table \ {n} : t.table[x] = r.table[x],
         GetSlotsSize(t) = GetSlotsSize(r),
         NEW v \in Holds(t.table[n].attributes)
  PROVE  Fits(t, [s EXCEPT ![r.table[n].offset] = v])
<1> DEFINE at == r.table[n].offset
           u == [s EXCEPT ![at] = v]
<1>1. at \in DOMAIN s
  BY OffsetInStorage
<1>2. DOMAIN u = DOMAIN s /\ u[at] = v /\ \A i \in DOMAIN s \ {at} : u[i] = s[i]
  BY <1>1
<1> HIDE DEF u
<1>3. Offsets(t) = Offsets(r)
  BY DEF Offsets
<1>4. \A i \in DOMAIN u \ Offsets(t) : u[i] = Empty
  <2>1. at \in Offsets(r)
    BY DEF Offsets
  <2> QED BY <1>2, <1>3, <2>1 DEF Fits
<1>5. ASSUME NEW x \in DOMAIN t.table
      PROVE  u[t.table[x].offset] \in Holds(t.table[x].attributes)
  <2>1. CASE x = n
    BY <1>2, <2>1
  <2>2. CASE x # n
    <3>1. r.table[x].offset # at /\ r.table[x].offset \in DOMAIN s
      BY <2>2, OffsetInStorage DEF Placed
    <3> QED BY <1>2, <2>2, <3>1 DEF Fits
  <2> QED BY <2>1, <2>2
<1>6. \E c \in Nat : IsStorage(u, c) /\ GetSlotsSize(t) <= c
  BY <1>2 DEF Fits, IsStorage
<1> QED BY <1>4, <1>5, <1>6 DEF Fits, u

\* A new property, with storage for it.
LEMMA AddFits ==
  ASSUME NEW r, NEW ids, IsMap(r, ids), Placed(r), NEW s, Fits(r, s),
         NEW n \in Names \ DOMAIN r.table,
         NEW t, NEW jds, IsMap(t, jds), Placed(t), DOMAIN t.table = DOMAIN r.table \cup {n},
         \A x \in DOMAIN r.table : t.table[x] = r.table[x],
         NEW v \in Holds(t.table[n].attributes)
  PROVE  Fits(t, [Resized(s, GetSlotsSize(t)) EXCEPT ![t.table[n].offset] = v])
<1> DEFINE at == t.table[n].offset
           w == Resized(s, GetSlotsSize(t))
           u == [w EXCEPT ![at] = v]
<1>1. GetSlotsSize(t) \in Nat /\ GetSlotsSize(r) \in Nat
  BY SlotsSizeNat
<1>2. PICK c \in Nat : IsStorage(s, c) /\ GetSlotsSize(r) <= c
  BY DEF Fits
<1>3. PICK k \in Nat :
        /\ IsStorage(w, k) /\ k >= GetSlotsSize(t) /\ k >= c
        /\ \A i \in DOMAIN s : w[i] = s[i]
        /\ \A i \in DOMAIN w \ DOMAIN s : w[i] = Empty
  BY <1>1, <1>2, ResizedKeeps
<1> HIDE DEF w
<1>4. at \in 0..(GetSlotsSize(t) - 1)
  BY DEF Placed, Offsets
<1>5. at \in DOMAIN w
  BY <1>1, <1>3, <1>4 DEF IsStorage
<1>6. DOMAIN u = 0..(k - 1) /\ u[at] = v /\ \A i \in DOMAIN w \ {at} : u[i] = w[i]
  BY <1>3, <1>5 DEF IsStorage
<1> HIDE DEF u
<1>7. Offsets(t) = Offsets(r) \cup {at}
  BY DEF Offsets
<1>8. \A i \in DOMAIN u \ Offsets(t) : u[i] = Empty
  <2> SUFFICES ASSUME NEW i \in DOMAIN u, i \notin Offsets(t) PROVE u[i] = Empty
    OBVIOUS
  <2>1. i # at /\ i \notin Offsets(r) /\ i \in DOMAIN w /\ u[i] = w[i]
    BY <1>3, <1>6, <1>7 DEF IsStorage
  <2>2. i \in DOMAIN s => s[i] = Empty
    BY <2>1 DEF Fits
  <2> QED BY <1>3, <2>1, <2>2
<1>9. ASSUME NEW x \in DOMAIN t.table
      PROVE  u[t.table[x].offset] \in Holds(t.table[x].attributes)
  <2>1. CASE x = n
    BY <1>6, <2>1
  <2>2. CASE x # n
    <3>1. x \in DOMAIN r.table /\ t.table[x] = r.table[x]
      BY <2>2
    <3>2. r.table[x].offset # at /\ r.table[x].offset \in DOMAIN s
      BY <2>2, <3>1, OffsetInStorage DEF Placed
    <3>3. r.table[x].offset \in DOMAIN w
      BY <1>2, <1>3, <3>2 DEF IsStorage
    <3>4. u[r.table[x].offset] = s[r.table[x].offset]
      BY <1>3, <1>6, <3>2, <3>3
    <3> QED BY <3>1, <3>4 DEF Fits
  <2> QED BY <2>1, <2>2
<1>10. \E j \in Nat : IsStorage(u, j) /\ GetSlotsSize(t) <= j
  BY <1>1, <1>3, <1>6 DEF IsStorage
<1> QED BY <1>8, <1>9, <1>10 DEF Fits, u, w

\* A deletion empties the place.
LEMMA DeleteFits ==
  ASSUME NEW r, NEW ids, IsMap(r, ids), Placed(r), NEW s, Fits(r, s), NEW n \in DOMAIN r.table,
         NEW t, DOMAIN t.table = DOMAIN r.table \ {n},
         \A x \in DOMAIN r.table \ {n} : t.table[x] = r.table[x],
         GetSlotsSize(t) = GetSlotsSize(r)
  PROVE  Fits(t, [s EXCEPT ![r.table[n].offset] = Empty])
<1> DEFINE at == r.table[n].offset
           u == [s EXCEPT ![at] = Empty]
<1>1. at \in DOMAIN s
  BY OffsetInStorage
<1>2. DOMAIN u = DOMAIN s /\ u[at] = Empty /\ \A i \in DOMAIN s \ {at} : u[i] = s[i]
  BY <1>1
<1> HIDE DEF u
<1>3. \A i \in Offsets(r) : i # at => i \in Offsets(t)
  BY DEF Offsets
<1>4. \A i \in DOMAIN u \ Offsets(t) : u[i] = Empty
  BY <1>2, <1>3 DEF Fits
<1>5. ASSUME NEW x \in DOMAIN t.table
      PROVE  u[t.table[x].offset] \in Holds(t.table[x].attributes)
  <2>1. x \in DOMAIN r.table /\ x # n /\ t.table[x] = r.table[x]
    OBVIOUS
  <2>2. r.table[x].offset # at /\ r.table[x].offset \in DOMAIN s
    BY <2>1, OffsetInStorage DEF Placed
  <2> QED BY <1>2, <2>1, <2>2 DEF Fits
<1>6. \E c \in Nat : IsStorage(u, c) /\ GetSlotsSize(t) <= c
  BY <1>2 DEF Fits, IsStorage
<1> QED BY <1>4, <1>5, <1>6 DEF Fits, u

\* A map with the same properties.
LEMMA SameFits ==
  ASSUME NEW r, NEW s, Fits(r, s), NEW t, t.table = r.table, t.deleted = r.deleted
  PROVE  Fits(t, s)
BY SamePlaces DEF Fits

\* What a slot gets from a descriptor: the only one that does not fit is the
\* Accessor cell that InputsCarryValues excludes.
LEMMA MergeHolds ==
  ASSUME NEW a \in StoredAttributes, NEW v \in Holds(a), NEW d \in Descriptors,
         InputsCarryValues => (d.type = "data" => d.value # Absent)
  PROVE  LET new == Merge([attributes |-> a, value |-> v], d)
         IN new.value \in Holds(new.attributes)
<1> DEFINE s == [attributes |-> a, value |-> v]
           new == Merge(s, d)
<1>1. a.type \in {"data", "accessor"} /\ a = [type |-> a.type, writable |-> a.writable,
        enumerable |-> a.enumerable, configurable |-> a.configurable]
  BY DEF StoredAttributes
<1>2. CASE d.type = "generic"
  <2>1. new.value = v /\ new.attributes.type = a.type
    BY <1>1, <1>2 DEF Merge
  <2> QED BY <2>1 DEF Holds
<1>3. CASE d.type = "data"
  <2>1. d.value \in Values \cup {Absent}
    BY <1>3 DEF Descriptors, DataDescriptors, AccessorDescriptors, GenericDescriptors
  <2>2. new.value = Or(d.value, v) /\ new.attributes.type = "data"
    BY <1>1, <1>3 DEF Merge
  <2>3. Or(d.value, v) \in DataValues
    BY <1>1, <1>3, <2>1 DEF Or, Holds, DataValues
  <2> QED BY <2>2, <2>3 DEF Holds
<1>4. CASE d.type = "accessor"
  <2> DEFINE cell == IF a.type = "accessor" THEN v ELSE [get |-> Null, set |-> Null]
             pair == [get |-> Or(d.get, cell.get), set |-> Or(d.set, cell.set)]
  <2>1. d.get \in Callee \cup {Absent} /\ d.set \in Callee \cup {Absent}
    BY <1>4 DEF Descriptors, DataDescriptors, AccessorDescriptors, GenericDescriptors
  <2>2. cell \in Accessors
    BY <1>1 DEF Accessors, Callee, Holds
  <2>3. pair \in Accessors
    BY <2>1, <2>2 DEF Accessors, Or
  <2>4. new.value = pair /\ new.attributes.type = "accessor"
    BY <1>1, <1>4 DEF Merge
  <2> QED BY <2>3, <2>4 DEF Holds
<1> QED BY <1>2, <1>3, <1>4, DescriptorKinds

\* The slot of a new property holds what its attributes announce.
LEMMA NewSlotHolds ==
  ASSUME NEW d \in Descriptors
  PROVE  NewSlot(d).value \in Holds(NewSlot(d).attributes)
<1>1. CASE d.type = "accessor"
  <2>1. d.get \in Callee \cup {Absent} /\ d.set \in Callee \cup {Absent}
    BY <1>1 DEF Descriptors, DataDescriptors, AccessorDescriptors, GenericDescriptors
  <2>2. NewSlot(d).value \in Accessors /\ NewSlot(d).attributes.type = "accessor"
    BY <1>1, <2>1 DEF NewSlot, OrNull, Accessors, Callee
  <2> QED BY <2>2 DEF Holds
<1>2. CASE d.type = "data"
  <2>1. d.value \in Values \cup {Absent}
    BY <1>2 DEF Descriptors, DataDescriptors, AccessorDescriptors, GenericDescriptors
  <2>2. NewSlot(d).value \in Values /\ NewSlot(d).attributes.type = "data"
    BY <1>2, <2>1, DescriptorAssumption DEF NewSlot, Or
  <2> QED BY <2>2 DEF Holds, DataValues
<1>3. CASE d.type = "generic"
  <2>1. NewSlot(d).value \in Values /\ NewSlot(d).attributes.type = "data"
    BY <1>3, DescriptorAssumption DEF NewSlot
  <2> QED BY <2>1 DEF Holds, DataValues
<1> QED BY <1>1, <1>2, <1>3, DescriptorKinds

SlotInv == HeapInv /\ \A o \in Objects : Fits(MapAt(o), Slots(o))

\* At first an object has no property and its slots are empty.
LEMMA InitSlots ==
  ASSUME Init
  PROVE  SlotInv
<1>1. HeapInv
  BY InitExact
<1> SUFFICES ASSUME NEW o \in Objects PROVE Fits(MapAt(o), Slots(o))
  BY <1>1 DEF SlotInv
<1> DEFINE r == RootMaps[RootOf[o]]
<1>2. MapAt(o) = r /\ Slots(o) = Resized(<<>>, GetSlotsSize(r))
  BY DEF Init, MapAt, MapOf, Slots
<1>3. IsMap(r, {}) /\ DOMAIN r.table = {}
  BY RootAssumption, RootContents
<1> HIDE DEF r
<1>4. GetSlotsSize(r) \in Nat
  BY <1>3, SlotsSizeNat
<1> DEFINE none == <<>>
<1>5. IsStorage(none, 0) /\ DOMAIN none = {} /\ Slots(o) = Resized(none, GetSlotsSize(r))
  BY <1>2 DEF IsStorage, Roomy, NextCapacity
<1> HIDE DEF none
<1>6. PICK k \in Nat :
        /\ IsStorage(Resized(none, GetSlotsSize(r)), k) /\ k >= GetSlotsSize(r) /\ k >= 0
        /\ \A i \in DOMAIN none : Resized(none, GetSlotsSize(r))[i] = none[i]
        /\ \A i \in DOMAIN Resized(none, GetSlotsSize(r)) \ DOMAIN none :
             Resized(none, GetSlotsSize(r))[i] = Empty
  BY <1>4, <1>5, ResizedKeeps
<1>7. /\ IsStorage(Slots(o), k) /\ GetSlotsSize(r) <= k
      /\ \A i \in DOMAIN Slots(o) : Slots(o)[i] = Empty
  BY <1>4, <1>5, <1>6
<1> QED BY <1>2, <1>3, <1>7 DEF Fits

\* Those that a step is not about keep their slots and what they mean.
LEMMA UntouchedFits ==
  ASSUME SlotInv, NEW x \in Objects, Untouched(x)
  PROVE  Fits(MapAt(x)', Slots(x)')
<1>1. Fits(MapAt(x), Slots(x)) /\ Slots(x)' = Slots(x)
  BY DEF SlotInv, Untouched, Slots
<1> QED BY <1>1, SameFits DEF Untouched

\* A step of one object leaves the slots of the others fitting their maps.
LEMMA OthersFit ==
  ASSUME SlotInv, NEW o \in Objects, Others(o), HeapInv', Fits(MapAt(o)', Slots(o)')
  PROVE  SlotInv'
<1>1. \A x \in Objects : Fits(MapAt(x)', Slots(x)')
  BY UntouchedFits DEF Others
<1> QED BY <1>1 DEF SlotInv

\* Slots are what the map says before the step.
LEMMA SlotFacts ==
  ASSUME SlotInv, NEW o \in Objects
  PROVE  /\ HeapInv /\ IsMap(MapAt(o), LiveMaps) /\ Placed(MapAt(o))
         /\ Fits(MapAt(o), Slots(o))
         /\ \A n \in DOMAIN MapAt(o).table :
              /\ OwnSlot(o, n) = [attributes |-> MapAt(o).table[n].attributes,
                                  value |-> Slots(o)[MapAt(o).table[n].offset]]
              /\ OwnSlot(o, n).attributes \in StoredAttributes
              /\ OwnSlot(o, n).value \in Holds(OwnSlot(o, n).attributes)
<1>1. /\ HeapInv /\ IsMap(MapAt(o), LiveMaps) /\ Placed(MapAt(o))
      /\ Fits(MapAt(o), Slots(o))
  BY MapAtIsMap DEF SlotInv
<1>2. ASSUME NEW n \in DOMAIN MapAt(o).table
      PROVE  /\ OwnSlot(o, n) = [attributes |-> MapAt(o).table[n].attributes,
                                 value |-> Slots(o)[MapAt(o).table[n].offset]]
             /\ OwnSlot(o, n).attributes \in StoredAttributes
             /\ OwnSlot(o, n).value \in Holds(OwnSlot(o, n).attributes)
  <2>1. OwnSlot(o, n) = [attributes |-> MapAt(o).table[n].attributes,
                         value |-> Slots(o)[MapAt(o).table[n].offset]]
    BY DEF OwnSlot, Entry, MapAt
  <2>2. MapAt(o).table[n].attributes \in StoredAttributes
    BY <1>1 DEF IsMap
  <2>3. Slots(o)[MapAt(o).table[n].offset] \in Holds(MapAt(o).table[n].attributes)
    BY <1>1 DEF Fits
  <2> QED BY <2>1, <2>2, <2>3
<1> QED BY <1>1, <1>2

\* An addition puts a value of its kind at a place with storage.
LEMMA AddedFits ==
  ASSUME SlotInv, HeapInv', NEW o \in Objects, NEW n \in Names, NEW d \in Descriptors,
         AddedTo(o, n, d)
  PROVE  SlotInv'
<1> DEFINE r == MapAt(o)
           t == MapAt(o)'
           new == NewSlot(d)
<1>1. /\ HeapInv /\ IsMap(r, LiveMaps) /\ Placed(r) /\ Fits(r, Slots(o))
      /\ IsMap(t, LiveMaps') /\ Placed(t)
  BY SlotFacts, NextMapIsMap
<1>2. /\ Others(o) /\ n \in Names \ DOMAIN r.table
      /\ DOMAIN t.table = DOMAIN r.table \cup {n}
      /\ t.table[n].attributes = new.attributes
      /\ \A x \in DOMAIN r.table : t.table[x] = r.table[x]
      /\ objs'[o].slots = [Resized(Slots(o), GetSlotsSize(t)) EXCEPT
                             ![t.table[n].offset] = new.value]
  BY DEF AddedTo
<1>3. new.value \in Holds(new.attributes)
  BY NewSlotHolds
<1> HIDE DEF new, r, t
<1>4. Fits(t, [Resized(Slots(o), GetSlotsSize(t)) EXCEPT ![t.table[n].offset] = new.value])
  BY <1>1, <1>2, <1>3, AddFits
<1>5. Fits(MapAt(o)', Slots(o)')
  BY <1>2, <1>4 DEF Slots, t
<1> QED BY <1>2, <1>5, OthersFit

\* Defining a property keeps the slots of every object as its map says.
LEMMA DefineFits ==
  ASSUME SlotInv, HeapInv', NEW o \in Objects, NEW n \in Names, NEW d \in Descriptors,
         InputsCarryValues => (d.type = "data" => d.value # Absent),
         DefineOwnProperty(o, n, d)
  PROVE  SlotInv'
<1> DEFINE r == MapAt(o)
           t == MapAt(o)'
<1>1. /\ HeapInv /\ IsMap(r, LiveMaps) /\ Placed(r) /\ Fits(r, Slots(o))
      /\ IsMap(t, LiveMaps') /\ Placed(t)
  BY SlotFacts, NextMapIsMap
<1>2. CASE DefineFound(o, n, d)
  <2> DEFINE s == OwnSlot(o, n)
             new == Merge(s, d)
  <2>1. /\ Others(o) /\ n \in DOMAIN r.table
        /\ DOMAIN t.table = DOMAIN r.table
        /\ t.table[n].attributes = new.attributes
        /\ \A x \in DOMAIN r.table : t.table[x].offset = r.table[x].offset
        /\ \A x \in DOMAIN r.table \ {n} : t.table[x] = r.table[x]
        /\ GetSlotsSize(t) = GetSlotsSize(r)
        /\ objs'[o].slots = [Slots(o) EXCEPT ![r.table[n].offset] = new.value]
    BY <1>1, <1>2, DefineFoundEffect
  <2>2. /\ s = [attributes |-> s.attributes, value |-> s.value]
        /\ s.attributes \in StoredAttributes /\ s.value \in Holds(s.attributes)
    BY <2>1, SlotFacts
  <2> HIDE DEF s
  <2>3. new.value \in Holds(new.attributes)
    BY <2>2, MergeHolds
  <2> HIDE DEF new, r, t
  <2>4. Fits(t, [Slots(o) EXCEPT ![r.table[n].offset] = new.value])
    BY <1>1, <2>1, <2>3, StoreFits
  <2>5. Fits(MapAt(o)', Slots(o)')
    BY <2>1, <2>4 DEF Slots, t
  <2> QED BY <2>1, <2>5, OthersFit
<1>3. CASE DefineNotFound(o, n, d)
  BY <1>1, <1>3, DefineNotFoundEffect, AddedFits
<1> QED BY <1>2, <1>3 DEF DefineOwnProperty

\* A deletion empties the slot, and the other steps leave the slots alone.
LEMMA RemovalFits ==
  ASSUME SlotInv, HeapInv', NEW o \in Objects, NEW n \in Names, Delete(o, n)
  PROVE  SlotInv'
<1> DEFINE r == MapAt(o)
           t == MapAt(o)'
<1>1. HeapInv /\ IsMap(r, LiveMaps) /\ Placed(r) /\ Fits(r, Slots(o))
  BY SlotFacts
<1>2. /\ Others(o) /\ n \in DOMAIN r.table
      /\ DOMAIN t.table = DOMAIN r.table \ {n}
      /\ \A x \in DOMAIN r.table \ {n} : t.table[x] = r.table[x]
      /\ GetSlotsSize(t) = GetSlotsSize(r)
      /\ objs'[o].slots = [Slots(o) EXCEPT ![r.table[n].offset] = Empty]
  BY <1>1, DeleteEffect
<1> HIDE DEF r, t
<1>3. Fits(t, [Slots(o) EXCEPT ![r.table[n].offset] = Empty])
  BY <1>1, <1>2, DeleteFits
<1>4. Fits(MapAt(o)', Slots(o)')
  BY <1>2, <1>3 DEF Slots, t
<1> QED BY <1>2, <1>4, OthersFit

\* A step that keeps an object's properties and slots keeps the slots fitting.
LEMMA KeptSlotsFit ==
  ASSUME SlotInv, HeapInv', NEW o \in Objects, Others(o),
         SameProperties(MapAt(o), MapAt(o)'), objs'[o].slots = Slots(o)
  PROVE  SlotInv'
<1>1. Fits(MapAt(o), Slots(o)) /\ Slots(o)' = Slots(o)
  BY DEF SlotInv, Slots
<1>2. Fits(MapAt(o)', Slots(o)')
  BY <1>1, SameFits DEF SameProperties
<1> QED BY <1>2, OthersFit

\* A descriptor that a step merges carries the value of a data property, if
\* those that scripts pass do: the ones of an assignment always have it.
LEMMA PutFits ==
  ASSUME SlotInv, HeapInv', NEW o \in Objects, NEW n \in Names, NEW v \in Values,
         Put(o, n, v)
  PROVE  SlotInv'
<1>1. PICK d \in {ValueOnly(v), DefaultData(v)} :
        d \in Descriptors /\ DefineOwnProperty(o, n, d)
  BY PutIsDefine
<1>2. d.value # Absent
  BY DescriptorAssumption DEF ValueOnly, DefaultData
<1> QED BY <1>1, <1>2, DefineFits

\* Every step keeps every object's slots as its map says.
LEMMA StepSlots ==
  ASSUME SlotInv, [Next]_hvars
  PROVE  SlotInv'
<1>1. HeapInv /\ HeapInv'
  BY StepExact DEF SlotInv
<1>2. CASE UNCHANGED hvars
  BY <1>1, <1>2 DEF hvars, SlotInv, MapAt, MapOf, Slots
<1>3. ASSUME NEW o \in Objects, NEW n \in Names, NamedStep(o, n)
      PROVE  SlotInv'
  <2>1. ASSUME NEW d \in Inputs, DefineOwnProperty(o, n, d)
        PROVE  SlotInv'
    BY <1>1, <2>1, HeapAssumption, DefineFits DEF InputsCarryValues
  <2>2. ASSUME NEW v \in PutValues, Put(o, n, v)
        PROVE  SlotInv'
    BY <1>1, <2>2, HeapAssumption, PutFits
  <2>3. CASE Delete(o, n)
    BY <1>1, <2>3, RemovalFits
  <2>4. CASE Get(o, n)
    BY <1>2, <2>4 DEF Get
  <2> QED BY <1>3, <2>1, <2>2, <2>3, <2>4 DEF NamedStep
<1>4. ASSUME NEW o \in Objects, ObjectStep(o)
      PROVE  SlotInv'
  <2>1. ASSUME NEW p \in Prototypes, ChangePrototype(o, p)
        PROVE  SlotInv'
    BY <1>1, <2>1, ChangePrototypeEffect, KeptSlotsFit
  <2>2. CASE BecomeIndexed(o)
    BY <1>1, <2>2, BecomeIndexedEffect, KeptSlotsFit
  <2>3. CASE PreventExtensions(o)
    BY <1>1, <2>3, PreventExtensionsEffect, KeptSlotsFit
  <2>4. CASE FlattenMap(o)
    <3>1. \A x \in Objects : Fits(MapAt(x)', Slots(x)')
      BY <1>1, <2>4, FlattenEffect, UntouchedFits DEF FlattenMap, Flattening
    <3> QED BY <1>1, <3>1 DEF SlotInv
  <2> QED BY <1>4, <2>1, <2>2, <2>3, <2>4 DEF ObjectStep
<1> QED BY <1>2, <1>3, <1>4 DEF Next

\* The slots of every object are as its map says in every state.
LEMMA SlotInvariance == Spec => []SlotInv
BY InitSlots, StepSlots, PTL DEF Spec

\* However objects that share maps gain, lose and redefine properties, every
\* offset of a map is inside the storage of each object that has it, the slot
\* holds a value of the kind the map says, and no deleted value is left in one:
\* given that no descriptor makes a data property of an accessor without a
\* value (README, section 6).
THEOREM SlotsStayMatched == InputsCarryValues => (Spec => []SlotsMatchMap)
<1> SUFFICES ASSUME InputsCarryValues PROVE Spec => []SlotsMatchMap
  OBVIOUS
<1>1. SlotInv => SlotsMatchMap
  <2> SUFFICES ASSUME SlotInv, NEW o \in Objects
               PROVE  /\ DOMAIN Slots(o) = 0..(Capacity(o) - 1)
                      /\ GetSlotsSize(MapAt(o)) <= Capacity(o)
                      /\ \A n \in DOMAIN MapAt(o).table :
                           Slots(o)[MapAt(o).table[n].offset] \in
                             IF MapAt(o).table[n].attributes.type = "data"
                             THEN Values ELSE Accessors
                      /\ \A i \in DOMAIN Slots(o) \ Offsets(MapAt(o)) : Slots(o)[i] = Empty
    BY DEF SlotsMatchMap, MapAt
  <2>1. Fits(MapAt(o), Slots(o))
    BY DEF SlotInv
  <2>2. PICK c \in Nat : IsStorage(Slots(o), c) /\ GetSlotsSize(MapAt(o)) <= c
    BY <2>1 DEF Fits
  <2>3. Capacity(o) = c
    BY <2>2, StorageSize DEF Capacity
  <2> QED BY <2>1, <2>2, <2>3 DEF Fits, IsStorage, Holds, DataValues
<1> QED BY <1>1, SlotInvariance, PTL

-----------------------------------------------------------------------------
(* Searches along a chain                                                  *)

\* What is closed against going back along next, except from T.
Closed(S, N, T, next, y) == y \in S /\ \A x \in N \ T : next[x] \in S => x \in S

\* The members of N whose search ends at y.
EndingAt(N, T, next, y) ==
  {x \in N : \A S \in SUBSET N : Closed(S, N, T, next, y) => x \in S}

\* The set of chains that end at y is the set of those whose next object is y, or
\* whose chain from there on ends at y.
LEMMA EndingAtIsSearch ==
  ASSUME NEW N, NEW T, T \subseteq N, NEW next, \A x \in N \ T : next[x] \in N,
         NEW y \in T
  PROVE  /\ \A x \in T : x \in EndingAt(N, T, next, y) <=> x = y
         /\ \A x \in N \ T :
              x \in EndingAt(N, T, next, y) <=> next[x] \in EndingAt(N, T, next, y)
<1> DEFINE Up == EndingAt(N, T, next, y)
<1>1. Up \subseteq N /\ \A S \in SUBSET N : Closed(S, N, T, next, y) => Up \subseteq S
  BY DEF EndingAt
<1>2. Closed(Up, N, T, next, y)
  <2>1. y \in Up
    BY DEF EndingAt, Closed
  <2>2. ASSUME NEW x \in N \ T, next[x] \in Up PROVE x \in Up
    <3>1. ASSUME NEW S \in SUBSET N, Closed(S, N, T, next, y) PROVE x \in S
      BY <1>1, <2>2, <3>1 DEF Closed
    <3> QED BY <3>1 DEF EndingAt
  <2> QED BY <2>1, <2>2 DEF Closed
<1> HIDE DEF Up
<1>3. ASSUME NEW x \in Up, x # y
      PROVE  x \notin T /\ next[x] \in Up
  <2> SUFFICES ASSUME x \in T \/ next[x] \notin Up PROVE FALSE
    OBVIOUS
  <2> DEFINE S == Up \ {x}
  <2>1. S \in SUBSET N /\ y \in S
    BY <1>1, <1>2, <1>3 DEF Closed
  <2>2. ASSUME NEW z \in N \ T, next[z] \in S PROVE z \in S
    BY <1>2, <2>2 DEF Closed
  <2>3. Closed(S, N, T, next, y)
    BY <2>1, <2>2 DEF Closed
  <2> QED BY <1>1, <2>3
<1>4. \A x \in T : x \in Up <=> x = y
  BY <1>2, <1>3 DEF Closed
<1>5. \A x \in N \ T : x \in Up <=> next[x] \in Up
  BY <1>2, <1>3 DEF Closed
<1> QED BY <1>4, <1>5 DEF Up

IsSearch(f, N, T, next) == f = [x \in N |-> IF x \in T THEN x ELSE f[next[x]]]

\* A search along next that stops in T is the function its equation describes,
\* also when there are cycles.
LEMMA SearchExists ==
  ASSUME NEW N, NEW T, T \subseteq N, NEW next, \A x \in N \ T : next[x] \in N
  PROVE  \E f : IsSearch(f, N, T, next)
<1> DEFINE Ends(x) == {y \in T : x \in EndingAt(N, T, next, y)}
           f == [x \in N |-> CHOOSE y : y \in Ends(x)]
<1>1. ASSUME NEW x \in T PROVE Ends(x) = {x}
  <2>1. \A y \in T : x \in EndingAt(N, T, next, y) <=> x = y
    BY EndingAtIsSearch
  <2> QED BY <2>1
<1>2. ASSUME NEW x \in N \ T PROVE Ends(x) = Ends(next[x])
  <2>1. \A y \in T :
          x \in EndingAt(N, T, next, y) <=> next[x] \in EndingAt(N, T, next, y)
    BY EndingAtIsSearch
  <2> QED BY <2>1
<1> HIDE DEF Ends
<1>3. ASSUME NEW x \in N PROVE f[x] = IF x \in T THEN x ELSE f[next[x]]
  <2>1. CASE x \in T
    <3>1. (CHOOSE y : y \in {x}) = x
      OBVIOUS
    <3> QED BY <1>1, <2>1, <3>1
  <2>2. CASE x \notin T
    BY <1>2, <2>2
  <2> QED BY <2>1, <2>2
<1>4. f = [x \in N |-> IF x \in T THEN x ELSE f[next[x]]]
  <2>1. f = [x \in N |-> f[x]]
    OBVIOUS
  <2> HIDE DEF f
  <2> QED BY <1>3, <2>1
<1> HIDE DEF f
<1> QED BY <1>4 DEF IsSearch

-----------------------------------------------------------------------------
(* Prototype chains                                                        *)

Chain == Objects \cup {NoObject}

\* Every chain ends: no set of objects has all their prototypes in it.
Acyclic == \A S \in SUBSET Objects : S # {} => \E x \in S : PrototypeOf(x) \notin S

\* The prototype of an object is that of its map, an object or null.
LEMMA PrototypesAreObjects ==
  ASSUME HeapInv, NEW x \in Objects
  PROVE  PrototypeOf(x) \in Chain /\ PrototypeOf(x) = MapAt(x).prototype
BY MapAtIsMap DEF IsMap, PrototypeOf, Proto, MapAt, Chain

\* GetPropertySlot goes up the chain.
LEMMA HolderSearch ==
  ASSUME HeapInv, NEW n
  PROVE  \A x \in Chain :
           /\ x = NoObject \/ HasOwn(x, n) => Holder(x, n) = x
           /\ ~(x = NoObject \/ HasOwn(x, n)) => Holder(x, n) = Holder(PrototypeOf(x), n)
<1> DEFINE T == {x \in Chain : x = NoObject \/ HasOwn(x, n)}
           next == [x \in Chain |-> PrototypeOf(x)]
           Find(f) == f = [x \in Chain |-> IF x = NoObject \/ HasOwn(x, n) THEN x
                                           ELSE f[PrototypeOf(x)]]
           find == CHOOSE f : Find(f)
<1>1. \A x \in Chain \ T : next[x] \in Chain
  BY PrototypesAreObjects DEF Chain
<1>2. \E f : IsSearch(f, Chain, T, next)
  <2>1. T \subseteq Chain
    OBVIOUS
  <2> HIDE DEF T, next
  <2> QED BY <1>1, <2>1, SearchExists
<1>3. \E f : Find(f)
  <2>1. PICK f : f = [x \in Chain |-> IF x \in T THEN x ELSE f[next[x]]]
    BY <1>2 DEF IsSearch
  <2>2. \A x \in Chain : (IF x \in T THEN x ELSE f[next[x]])
                         = IF x = NoObject \/ HasOwn(x, n) THEN x ELSE f[PrototypeOf(x)]
    OBVIOUS
  <2>3. Find(f)
    BY <2>1, <2>2
  <2> QED BY <2>3
<1>4. Find(find)
  <2> HIDE DEF Find
  <2> QED BY <1>3
<1>5. \A x : Holder(x, n) = find[x]
  BY DEF Holder, Chain
<1> HIDE DEF find
<1>6. \A x \in Chain : find[x] = IF x = NoObject \/ HasOwn(x, n) THEN x
                                 ELSE find[PrototypeOf(x)]
  BY <1>4
<1> QED BY <1>5, <1>6

\* On a chain that ends it finds an object that has the name, or nothing.
LEMMA HolderHas ==
  ASSUME HeapInv, Acyclic, NEW n, NEW o \in Chain
  PROVE  \/ Holder(o, n) = NoObject
         \/ Holder(o, n) \in Objects /\ HasOwn(Holder(o, n), n)
<1> DEFINE Found(x) == x = NoObject \/ (x \in Objects /\ HasOwn(x, n))
           S == {x \in Objects : ~Found(Holder(x, n))}
<1>1. \A x \in Chain :
        /\ x = NoObject \/ HasOwn(x, n) => Holder(x, n) = x
        /\ ~(x = NoObject \/ HasOwn(x, n)) => Holder(x, n) = Holder(PrototypeOf(x), n)
  BY HolderSearch
<1>2. Holder(NoObject, n) = NoObject
  BY <1>1 DEF Chain
<1>3. ASSUME NEW x \in S PROVE PrototypeOf(x) \in S
  <2>1. x \in Objects /\ x \in Chain /\ ~Found(Holder(x, n))
    BY DEF Chain
  <2>2. Holder(x, n) = Holder(PrototypeOf(x), n)
    BY <1>1, <2>1
  <2>3. PrototypeOf(x) # NoObject
    BY <1>2, <2>1, <2>2
  <2> QED BY <2>1, <2>2, <2>3, PrototypesAreObjects DEF Chain
<1>4. S = {}
  <2>1. S \in SUBSET Objects
    OBVIOUS
  <2> HIDE DEF S
  <2> QED BY <1>3, <2>1 DEF Acyclic
<1> QED BY <1>2, <1>4 DEF Chain

\* Reaches follows the chain as well.
LEMMA ReachesSearch ==
  ASSUME HeapInv, NEW o \in Objects
  PROVE  \A x \in Chain :
           Reaches(x, o) <=> x # NoObject /\ (x = o \/ Reaches(PrototypeOf(x), o))
<1> DEFINE T == {NoObject, o}
           next == [x \in Chain |-> PrototypeOf(x)]
           Up(f) == f = [x \in Chain |-> x # NoObject /\ (x = o \/ f[PrototypeOf(x)])]
           up == CHOOSE f : Up(f)
<1>1. \A x \in Chain \ T : next[x] \in Chain
  BY PrototypesAreObjects DEF Chain
<1>2. PICK f : IsSearch(f, Chain, T, next)
  <2>1. T \subseteq Chain
    BY DEF Chain
  <2> HIDE DEF T, next
  <2> QED BY <1>1, <2>1, SearchExists
<1>3. \E g : Up(g)
  <2> DEFINE g == [x \in Chain |-> f[x] = o]
  <2>1. \A x \in Chain : f[x] = IF x = NoObject \/ x = o THEN x ELSE f[PrototypeOf(x)]
    BY <1>2 DEF IsSearch
  <2>2. ASSUME NEW x \in Chain
        PROVE  (f[x] = o) = (x # NoObject /\ (x = o \/ g[PrototypeOf(x)]))
    <3>1. CASE x = NoObject
      BY <2>1, <3>1, HeapAssumption
    <3>2. CASE x = o
      BY <2>1, <3>2, HeapAssumption
    <3>3. CASE x # NoObject /\ x # o
      BY <2>1, <3>3, PrototypesAreObjects DEF Chain
    <3> QED BY <3>1, <3>2, <3>3
  <2>3. g = [x \in Chain |-> x # NoObject /\ (x = o \/ g[PrototypeOf(x)])]
    <3> DEFINE h == [x \in Chain |-> x # NoObject /\ (x = o \/ g[PrototypeOf(x)])]
    <3>1. \A x \in Chain : g[x] = h[x]
      BY <2>2
    <3> QED BY <3>1
  <2> QED BY <2>3
<1>4. Up(up)
  <2> HIDE DEF Up
  <2> QED BY <1>3
<1>5. \A x : Reaches(x, o) = up[x]
  BY DEF Reaches, Chain
<1> HIDE DEF up
<1>6. \A x \in Chain : up[x] = (x # NoObject /\ (x = o \/ up[PrototypeOf(x)]))
  BY <1>4
<1> QED BY <1>5, <1>6

\* Reflect.setPrototypeOf has looked for o from p on, so that a new cycle would
\* have been one of the old chain.
LEMMA NewPrototypeAcyclic ==
  ASSUME HeapInv, Acyclic, NEW o \in Objects, NEW p \in Chain, ~Reaches(p, o),
         \A x \in Objects : PrototypeOf(x)' = IF x = o THEN p ELSE PrototypeOf(x)
  PROVE  Acyclic'
<1> SUFFICES ASSUME NEW S \in SUBSET Objects, S # {},
                    \A x \in S : PrototypeOf(x)' \in S
             PROVE  FALSE
  BY DEF Acyclic
<1>1. \A x \in Chain : Reaches(x, o) <=> x # NoObject /\ (x = o \/ Reaches(PrototypeOf(x), o))
  BY ReachesSearch
<1>2. o \in S
  BY DEF Acyclic
<1>3. p \in S /\ Reaches(o, o)
  BY <1>1, <1>2, HeapAssumption DEF Chain
<1> DEFINE Away == {x \in S : ~Reaches(x, o)}
<1>4. ASSUME NEW x \in Away PROVE PrototypeOf(x) \in Away
  <2>1. x \in S /\ x \in Objects /\ x # o /\ x \in Chain /\ x # NoObject /\ ~Reaches(x, o)
    BY <1>3, HeapAssumption DEF Chain
  <2>2. PrototypeOf(x) \in S
    BY <2>1
  <2>3. ~Reaches(PrototypeOf(x), o)
    BY <1>1, <2>1
  <2> QED BY <2>2, <2>3
<1>5. p \in Away /\ Away \in SUBSET Objects
  BY <1>3
<1> HIDE DEF Away
<1> QED BY <1>4, <1>5 DEF Acyclic

\* No other step changes a prototype.
LEMMA SamePrototypes ==
  ASSUME HeapInv, HeapInv', Acyclic, NEW o \in Objects, Others(o),
         MapAt(o)'.prototype = MapAt(o).prototype
  PROVE  Acyclic' /\ \A x \in Objects : PrototypeOf(x)' = PrototypeOf(x)
<1>1. \A x \in Objects : PrototypeOf(x)' = PrototypeOf(x)
  BY DEF Others, Untouched, PrototypeOf, Proto, MapAt
<1>2. Acyclic'
  BY <1>1 DEF Acyclic
<1> QED BY <1>1, <1>2

-----------------------------------------------------------------------------
(* The dictionary that a map and slots are                                 *)

View(r, s) == [n \in DOMAIN r.table |-> [attributes |-> r.table[n].attributes,
                                         value |-> s[r.table[n].offset]]]

\* What ObjectModel's variables stand for.
Properties == [o \in Objects |-> View(MapAt(o), Slots(o))]
Links == [o \in Objects |-> PrototypeOf(o)]
Opens == [o \in Objects |-> objs[o].extensible]

\* A dictionary with s under n.
Including(v, n, s) == [x \in DOMAIN v \cup {n} |-> IF x = n THEN s ELSE v[x]]

\* The refinement mapping's properties are the views of the objects' maps on their
\* slots, before and after a step.
LEMMA MappedProperties ==
  /\ [o \in Objects |-> [n \in DOMAIN maps[MapOf(o)].table |-> OwnSlot(o, n)]] = Properties
  /\ [o \in Objects |-> [n \in DOMAIN maps[MapOf(o)].table |-> OwnSlot(o, n)]]' = Properties'
BY DEF Properties, View, OwnSlot, Entry, MapAt

\* The three views of a map and slots that a step changes.
LEMMA StoreView ==
  ASSUME NEW r, NEW ids, IsMap(r, ids), Placed(r), NEW s, Fits(r, s), NEW n \in DOMAIN r.table,
         NEW t, DOMAIN t.table = DOMAIN r.table,
         \A x \in DOMAIN r.table : t.table[x].offset = r.table[x].offset,
         \A x \in DOMAIN r.table \ {n} : t.table[x] = r.table[x],
         NEW v
  PROVE  View(t, [s EXCEPT ![r.table[n].offset] = v])
           = Including(View(r, s), n, [attributes |-> t.table[n].attributes, value |-> v])
<1> DEFINE u == [s EXCEPT ![r.table[n].offset] = v]
<1>1. \A x \in DOMAIN r.table : r.table[x].offset \in DOMAIN s
  BY OffsetInStorage
<1>2. \A x \in DOMAIN r.table \ {n} : r.table[x].offset # r.table[n].offset
  BY DEF Placed
<1>3. u[t.table[n].offset] = v
  BY <1>1
<1>4. \A x \in DOMAIN r.table \ {n} : u[t.table[x].offset] = s[r.table[x].offset]
  BY <1>1, <1>2
<1> HIDE DEF u
<1> QED BY <1>3, <1>4 DEF View, Including, u

\* A map with one property more, over storage resized for it and written at its
\* offset, views the old properties and the new one.
LEMMA AddView ==
  ASSUME NEW r, NEW ids, IsMap(r, ids), Placed(r), NEW s, Fits(r, s),
         NEW n \in Names \ DOMAIN r.table,
         NEW t, NEW jds, IsMap(t, jds), Placed(t), DOMAIN t.table = DOMAIN r.table \cup {n},
         \A x \in DOMAIN r.table : t.table[x] = r.table[x],
         NEW v
  PROVE  View(t, [Resized(s, GetSlotsSize(t)) EXCEPT ![t.table[n].offset] = v])
           = Including(View(r, s), n, [attributes |-> t.table[n].attributes, value |-> v])
<1> DEFINE at == t.table[n].offset
           w == Resized(s, GetSlotsSize(t))
           u == [w EXCEPT ![at] = v]
<1>1. GetSlotsSize(t) \in Nat
  BY SlotsSizeNat
<1>2. PICK c \in Nat : IsStorage(s, c) /\ GetSlotsSize(r) <= c
  BY DEF Fits
<1>3. PICK k \in Nat :
        /\ IsStorage(w, k) /\ k >= GetSlotsSize(t) /\ k >= c
        /\ \A i \in DOMAIN s : w[i] = s[i]
        /\ \A i \in DOMAIN w \ DOMAIN s : w[i] = Empty
  BY <1>1, <1>2, ResizedKeeps
<1> HIDE DEF w
<1>4. \A x \in DOMAIN t.table : t.table[x].offset \in DOMAIN w
  <2>1. \A x \in DOMAIN t.table : t.table[x].offset \in 0..(GetSlotsSize(t) - 1)
    BY DEF Placed, Offsets
  <2> QED BY <1>1, <1>3, <2>1 DEF IsStorage
<1>5. u[at] = v
  BY <1>4
<1>6. ASSUME NEW x \in DOMAIN r.table PROVE u[t.table[x].offset] = s[r.table[x].offset]
  <2>1. t.table[x].offset # at /\ t.table[x].offset \in DOMAIN w
    BY <1>4 DEF Placed
  <2>2. r.table[x].offset \in DOMAIN s
    BY OffsetInStorage
  <2> QED BY <1>3, <2>1, <2>2
<1> HIDE DEF u
<1> QED BY <1>5, <1>6 DEF View, Including, u, w

\* A map with one property less, over storage emptied at its offset, views the
\* properties that remain.
LEMMA DeleteView ==
  ASSUME NEW r, NEW ids, IsMap(r, ids), Placed(r), NEW s, Fits(r, s), NEW n \in DOMAIN r.table,
         NEW t, DOMAIN t.table = DOMAIN r.table \ {n},
         \A x \in DOMAIN r.table \ {n} : t.table[x] = r.table[x]
  PROVE  View(t, [s EXCEPT ![r.table[n].offset] = Empty])
           = [x \in DOMAIN View(r, s) \ {n} |-> View(r, s)[x]]
<1> DEFINE u == [s EXCEPT ![r.table[n].offset] = Empty]
<1>1. \A x \in DOMAIN r.table : r.table[x].offset \in DOMAIN s
  BY OffsetInStorage
<1>2. \A x \in DOMAIN r.table \ {n} : r.table[x].offset # r.table[n].offset
  BY DEF Placed
<1>3. \A x \in DOMAIN r.table \ {n} : u[t.table[x].offset] = s[r.table[x].offset]
  BY <1>1, <1>2
<1> HIDE DEF u
<1> QED BY <1>3 DEF View, u

-----------------------------------------------------------------------------
(* Steps                                                                   *)

\* The others show what they did.
LEMMA OtherViews ==
  ASSUME NEW o \in Objects, Others(o)
  PROVE  /\ \A x \in Objects \ {o} : View(MapAt(x)', Slots(x)') = View(MapAt(x), Slots(x))
         /\ \A x \in Objects \ {o} : PrototypeOf(x)' = PrototypeOf(x)
         /\ \A x \in Objects \ {o} : objs'[x] = objs[x]
BY DEF Others, Untouched, View, Slots, PrototypeOf, Proto, MapAt

\* A step of one object changes the properties of that object alone.
LEMMA StepProperties ==
  ASSUME NEW o \in Objects, Others(o), NEW v, View(MapAt(o)', Slots(o)') = v
  PROVE  Properties' = [Properties EXCEPT ![o] = v]
<1>1. \A x \in Objects : View(MapAt(x)', Slots(x)')
        = IF x = o THEN v ELSE View(MapAt(x), Slots(x))
  BY OtherViews
<1> QED BY <1>1 DEF Properties

\* A step that keeps the prototype of its object changes no prototype.
LEMMA SameLinks ==
  ASSUME NEW o \in Objects, Others(o), MapAt(o)'.prototype = MapAt(o).prototype
  PROVE  Links' = Links
BY OtherViews DEF Links, PrototypeOf, Proto, MapAt

\* A step that keeps the extensibility of its object changes none.
LEMMA SameOpens ==
  ASSUME NEW o \in Objects, Others(o), objs'[o].extensible = objs[o].extensible
  PROVE  Opens' = Opens
BY OtherViews DEF Opens

\* A step that stores s under n stores it in o's dictionary and in no other.
LEMMA StoreStep ==
  ASSUME NEW o \in Objects, Others(o), NEW n, NEW s,
         View(MapAt(o)', Slots(o)') = Including(View(MapAt(o), Slots(o)), n, s),
         MapAt(o)'.prototype = MapAt(o).prototype,
         objs'[o].extensible = objs[o].extensible
  PROVE  Model!Store(o, n, s)
<1>1. Properties' = [Properties EXCEPT ![o] = Including(Properties[o], n, s)]
  <2>1. Properties[o] = View(MapAt(o), Slots(o))
    BY DEF Properties
  <2> QED BY <2>1, StepProperties
<1>2. Properties' = [Properties EXCEPT ![o] = [x \in DOMAIN @ \cup {n} |->
                                                 IF x = n THEN s ELSE @[x]]]
  BY <1>1 DEF Including
<1> QED BY <1>2, MappedProperties, SameLinks, SameOpens DEF Model!Store, Links, Opens

\* What ObjectModel finds of an object is what its map and slots hold.
LEMMA OwnProperties ==
  ASSUME SlotInv, NEW o \in Objects, NEW n
  PROVE  /\ Model!Own(o, n) <=> HasOwn(o, n)
         /\ HasOwn(o, n) <=> n \in DOMAIN MapAt(o).table
         /\ HasOwn(o, n) => /\ Properties[o][n] = OwnSlot(o, n)
                            /\ OwnSlot(o, n) \in StoredSlots
<1>1. HasOwn(o, n) <=> n \in DOMAIN MapAt(o).table
  BY DEF HasOwn, Has, MapAt
<1>2. Model!Own(o, n) <=> HasOwn(o, n)
  BY DEF Model!Own, HasOwn, Has
<1>3. ASSUME n \in DOMAIN MapAt(o).table
      PROVE  Properties[o][n] = OwnSlot(o, n) /\ OwnSlot(o, n) \in StoredSlots
  <2>1. /\ OwnSlot(o, n) = [attributes |-> MapAt(o).table[n].attributes,
                            value |-> Slots(o)[MapAt(o).table[n].offset]]
        /\ OwnSlot(o, n).attributes \in StoredAttributes
        /\ OwnSlot(o, n).value \in Holds(OwnSlot(o, n).attributes)
    BY <1>3, SlotFacts
  <2>2. Properties[o][n] = OwnSlot(o, n)
    BY <1>3, <2>1 DEF Properties, View
  <2>3. OwnSlot(o, n) \in StoredSlots
    BY <2>1 DEF StoredSlots, Holds, DataValues
  <2> QED BY <2>2, <2>3
<1> QED BY <1>1, <1>2, <1>3

\* A property merged or added in o's map and slots is merged or added in its
\* dictionary.
LEMMA FoundView ==
  ASSUME SlotInv, NEW o \in Objects, NEW n \in Names, NEW d \in Descriptors,
         DefineFound(o, n, d)
  PROVE  View(MapAt(o)', Slots(o)')
           = Including(View(MapAt(o), Slots(o)), n, Merge(OwnSlot(o, n), d))
<1> DEFINE r == MapAt(o)
           t == MapAt(o)'
           new == Merge(OwnSlot(o, n), d)
<1>1. HeapInv /\ IsMap(r, LiveMaps) /\ Placed(r) /\ Fits(r, Slots(o))
  BY SlotFacts
<1>2. /\ Others(o) /\ n \in DOMAIN r.table
      /\ DOMAIN t.table = DOMAIN r.table
      /\ t.table[n].attributes = new.attributes
      /\ \A x \in DOMAIN r.table : t.table[x].offset = r.table[x].offset
      /\ \A x \in DOMAIN r.table \ {n} : t.table[x] = r.table[x]
      /\ t.prototype = r.prototype
      /\ objs'[o].slots = [Slots(o) EXCEPT ![r.table[n].offset] = new.value]
      /\ objs'[o].extensible = objs[o].extensible
  BY <1>1, DefineFoundEffect
<1>3. new = [attributes |-> new.attributes, value |-> new.value]
  <2>1. OwnSlot(o, n) \in StoredSlots
    BY <1>2, OwnProperties
  <2> QED BY <2>1, MergeTyped, StoredFields
<1> HIDE DEF new, r, t
<1>4. View(t, [Slots(o) EXCEPT ![r.table[n].offset] = new.value])
        = Including(View(r, Slots(o)), n, [attributes |-> t.table[n].attributes, value |-> new.value])
  BY <1>1, <1>2, StoreView
<1>5. View(MapAt(o)', Slots(o)') = Including(View(MapAt(o), Slots(o)), n, new)
  BY <1>2, <1>3, <1>4 DEF Slots, r, t
<1> QED BY <1>5 DEF new

\* The step that adds a property includes it in the view of its object.
LEMMA AddedView ==
  ASSUME SlotInv, HeapInv', NEW o \in Objects, NEW n \in Names, NEW d \in Descriptors,
         AddedTo(o, n, d)
  PROVE  View(MapAt(o)', Slots(o)') = Including(View(MapAt(o), Slots(o)), n, NewSlot(d))
<1> DEFINE r == MapAt(o)
           t == MapAt(o)'
           new == NewSlot(d)
<1>1. /\ HeapInv /\ IsMap(r, LiveMaps) /\ Placed(r) /\ Fits(r, Slots(o))
      /\ IsMap(t, LiveMaps') /\ Placed(t)
  BY SlotFacts, NextMapIsMap
<1>2. /\ Others(o) /\ n \in Names \ DOMAIN r.table
      /\ DOMAIN t.table = DOMAIN r.table \cup {n}
      /\ t.table[n].attributes = new.attributes
      /\ \A x \in DOMAIN r.table : t.table[x] = r.table[x]
      /\ t.prototype = r.prototype
      /\ objs'[o].slots = [Resized(Slots(o), GetSlotsSize(t)) EXCEPT
                             ![t.table[n].offset] = new.value]
      /\ objs'[o].extensible = objs[o].extensible
  BY DEF AddedTo
<1>3. new = [attributes |-> new.attributes, value |-> new.value]
  BY NewSlotTyped, StoredFields
<1> HIDE DEF new, r, t
<1>4. View(t, [Resized(Slots(o), GetSlotsSize(t)) EXCEPT ![t.table[n].offset] = new.value])
        = Including(View(r, Slots(o)), n, [attributes |-> t.table[n].attributes, value |-> new.value])
  BY <1>1, <1>2, AddView
<1>5. View(MapAt(o)', Slots(o)') = Including(View(MapAt(o), Slots(o)), n, new)
  BY <1>2, <1>3, <1>4 DEF Slots, r, t
<1> QED BY <1>5 DEF new

\* Redefining an own property stores the merged slot.
LEMMA FoundStored ==
  ASSUME SlotInv, NEW o \in Objects, NEW n \in Names, NEW d \in Descriptors,
         DefineFound(o, n, d)
  PROVE  Model!Store(o, n, Merge(OwnSlot(o, n), d))
<1>1. /\ Others(o) /\ MapAt(o)'.prototype = MapAt(o).prototype
      /\ objs'[o].extensible = objs[o].extensible
  BY DefineFoundEffect DEF SlotInv
<1> QED BY <1>1, FoundView, StoreStep

\* Adding a property stores the slot of its descriptor.
LEMMA AddedStored ==
  ASSUME SlotInv, HeapInv', NEW o \in Objects, NEW n \in Names, NEW d \in Descriptors,
         AddedTo(o, n, d)
  PROVE  Model!Store(o, n, NewSlot(d))
<1>1. /\ Others(o) /\ MapAt(o)'.prototype = MapAt(o).prototype
      /\ objs'[o].extensible = objs[o].extensible
  BY DEF AddedTo
<1> QED BY <1>1, AddedView, StoreStep

\* Both modules take the rules of 8.12.9 from PropertyDescriptor.
LEMMA SameReference ==
  ASSUME NEW s, NEW d
  PROVE  /\ Model!NewSlot(d) = NewSlot(d)
         /\ Model!SpecChanged(s, d) = SpecChanged(s, d)
         /\ Model!SpecAllows(s, d) <=> SpecAllows(s, d)
<1>1. Model!NewSlot(d) = NewSlot(d)
  BY DEF Model!NewSlot, NewSlot, Model!OrNull, OrNull, Model!Or, Or
<1>2. Model!SpecChanged(s, d) = SpecChanged(s, d)
  BY DEF Model!SpecChanged, SpecChanged, Model!Or, Or
<1>3. Model!SpecAllows(s, d) <=> SpecAllows(s, d)
  BY <1>2 DEF Model!SpecAllows, SpecAllows
<1> QED BY <1>1, <1>2, <1>3

\* [[DefineOwnProperty]]
LEMMA DefineImplements ==
  ASSUME SlotInv, HeapInv', NEW o \in Objects, NEW n \in Names, NEW d \in Descriptors,
         d.type = "data" => d.value # Absent,
         DefineOwnProperty(o, n, d)
  PROVE  Model!Define(o, n, d)
<1>1. CASE DefineFound(o, n, d)
  <2> DEFINE s == OwnSlot(o, n)
  <2>1. HasOwn(o, n) /\ IsDefineOwnPropertyAccepted(s, d)
    BY <1>1 DEF DefineFound
  <2>2. Model!Own(o, n) /\ s \in StoredSlots /\ Properties[o][n] = s
    BY <2>1, OwnProperties
  <2>3. SpecAllows(s, d) /\ Merge(s, d) = SpecChanged(s, d)
    <3>1. Returned(s, d)
      BY <2>1 DEF IsDefineOwnPropertyAccepted, Returned
    <3> QED BY <2>2, <3>1, AnswerIsSpec, MergeIsSpec
  <2>4. Model!Store(o, n, Merge(s, d))
    BY <1>1, FoundStored
  <2> HIDE DEF s
  <2> QED BY <2>2, <2>3, <2>4, MappedProperties, SameReference DEF Model!Define
<1>2. CASE DefineNotFound(o, n, d)
  <2>1. ~Model!Own(o, n) /\ objs[o].extensible
    BY <1>2, OwnProperties DEF DefineNotFound
  <2>2. Model!Store(o, n, NewSlot(d))
    BY <1>2, DefineNotFoundEffect, AddedStored DEF SlotInv
  <2> QED BY <2>1, <2>2, SameReference DEF Model!Define
<1> QED BY <1>1, <1>2 DEF DefineOwnProperty

\* The two lookups are one function: their equations are the same.
LEMMA HolderIsOwner ==
  ASSUME NEW o \in Objects, NEW n
  PROVE  Holder(o, n) = Model!OwnerOf(o, n)
<1>1. \A x \in Objects : Model!Own(x, n) <=> HasOwn(x, n)
  BY DEF Model!Own, HasOwn, Has
<1>2. \A f : [x \in Objects \cup {NoObject} |->
                IF x = NoObject \/ Model!Own(x, n) THEN x
                ELSE f[[y \in Objects |-> PrototypeOf(y)][x]]]
             = [x \in Objects \cup {NoObject} |->
                  IF x = NoObject \/ HasOwn(x, n) THEN x ELSE f[PrototypeOf(x)]]
  BY <1>1
<1> QED BY <1>2 DEF Holder, Model!OwnerOf

\* A value alone changes nothing but the value of a data property.
LEMMA ValueMerged ==
  ASSUME NEW s \in StoredSlots, s.attributes.type = "data", NEW v \in Values
  PROVE  Merge(s, ValueOnly(v)) = [s EXCEPT !.value = v]
<1>1. s = [attributes |-> s.attributes, value |-> s.value] /\ s.attributes \in StoredAttributes
  BY StoredFields
<1>2. s.attributes = [type |-> "data", writable |-> s.attributes.writable,
                      enumerable |-> s.attributes.enumerable,
                      configurable |-> s.attributes.configurable]
  BY <1>1 DEF StoredAttributes
<1>3. Or(v, s.value) = v /\ \A x : Or(Absent, x) = x
  BY DescriptorAssumption DEF Or
<1>4. Merge(s, ValueOnly(v)) = [attributes |-> s.attributes, value |-> v]
  BY ZenonT(60), <1>1, <1>2, <1>3 DEF Merge, ValueOnly
<1> QED BY <1>1, <1>4

\* [[Put]], by the runtime or by compiled code
LEMMA AssignImplements ==
  ASSUME SlotInv, HeapInv', Acyclic, NEW o \in Objects, NEW n \in Names, NEW v \in Values,
         CanPutData(o, n),
         DefineFound(o, n, ValueOnly(v)) \/ AddedTo(o, n, DefaultData(v))
  PROVE  Model!Assign(o, n, v)
<1> DEFINE h == Holder(o, n)
           s == Properties[h][n]
<1>1. /\ \/ h = NoObject
         \/ h \in Objects /\ HasOwn(h, n)
      /\ \/ h = NoObject /\ objs[o].extensible
         \/ /\ h # NoObject
            /\ OwnSlot(h, n).attributes.type = "data" /\ OwnSlot(h, n).attributes.writable
  BY HolderHas DEF SlotInv, Chain, CanPutData
<1>2. h # NoObject =>
        /\ s = OwnSlot(h, n) /\ s \in StoredSlots
        /\ s.attributes.type = "data" /\ s.attributes.writable
  BY <1>1, OwnProperties
<1>3. HasOwn(o, n) => h = o
  BY HolderSearch DEF SlotInv, Chain
<1>4. h # NoObject /\ h = o => HasOwn(o, n)
  BY <1>1
<1>5. ValueOnly(v) \in Descriptors /\ DefaultData(v) \in Descriptors
  BY DescriptorAssumption DEF ValueOnly, DefaultData, Descriptors, DataDescriptors, Flag
<1>6. o # NoObject
  BY HeapAssumption
<1>7. ASSUME DefineFound(o, n, ValueOnly(v))
      PROVE  h = o /\ Model!Store(o, n, [s EXCEPT !.value = v])
  <2>1. h = o
    BY <1>3, <1>7 DEF DefineFound
  <2>2. Merge(s, ValueOnly(v)) = [s EXCEPT !.value = v] /\ s = OwnSlot(o, n)
    BY <1>2, <1>6, <2>1, ValueMerged
  <2>3. Model!Store(o, n, Merge(OwnSlot(o, n), ValueOnly(v)))
    BY <1>5, <1>7, FoundStored
  <2> HIDE DEF h, s
  <2> QED BY <2>1, <2>2, <2>3
<1>8. ASSUME AddedTo(o, n, DefaultData(v))
      PROVE  /\ h # o /\ objs[o].extensible
             /\ Model!Store(o, n, [attributes |-> [type |-> "data", writable |-> TRUE,
                                                   enumerable |-> TRUE, configurable |-> TRUE],
                                   value |-> v])
  <2>1. ~HasOwn(o, n) /\ objs[o].extensible
    BY <1>8 DEF AddedTo, HasOwn, Has, MapAt
  <2>2. h # o
    BY <1>4, <1>6, <2>1
  <2>3. Model!Store(o, n, NewSlot(DefaultData(v)))
    BY <1>5, <1>8, AddedStored
  <2>4. NewSlot(DefaultData(v)) = [attributes |-> [type |-> "data", writable |-> TRUE,
                                                   enumerable |-> TRUE, configurable |-> TRUE],
                                   value |-> v]
    <3>1. v # Absent
      BY DescriptorAssumption
    <3> QED BY <3>1 DEF NewSlot, DefaultData, Or
  <2> QED BY <2>1, <2>2, <2>3, <2>4
<1>9. h = Model!OwnerOf(o, n)
  BY HolderIsOwner
<1> HIDE DEF h
<1> QED BY <1>2, <1>7, <1>8, <1>9, MappedProperties DEF Model!Assign

\* A [[Put]] of the hidden-class heap is a [[Put]] of ECMAScript 5.
LEMMA PutImplements ==
  ASSUME SlotInv, HeapInv', Acyclic, NEW o \in Objects, NEW n \in Names, NEW v \in Values,
         Put(o, n, v)
  PROVE  Model!Assign(o, n, v)
<1>1. DefaultData(v) \in Descriptors
  BY DescriptorAssumption DEF DefaultData, Descriptors, DataDescriptors, Flag
<1> QED BY <1>1, DefineNotFoundEffect, AssignImplements DEF SlotInv, Put

\* A deleted property is in o's dictionary no more.
LEMMA DeletedView ==
  ASSUME SlotInv, NEW o \in Objects, NEW n \in Names, Delete(o, n)
  PROVE  View(MapAt(o)', Slots(o)')
           = [x \in DOMAIN View(MapAt(o), Slots(o)) \ {n} |-> View(MapAt(o), Slots(o))[x]]
<1> DEFINE r == MapAt(o)
           t == MapAt(o)'
<1>1. HeapInv /\ IsMap(r, LiveMaps) /\ Placed(r) /\ Fits(r, Slots(o))
  BY SlotFacts
<1>2. /\ n \in DOMAIN r.table
      /\ DOMAIN t.table = DOMAIN r.table \ {n}
      /\ \A x \in DOMAIN r.table \ {n} : t.table[x] = r.table[x]
      /\ objs'[o].slots = [Slots(o) EXCEPT ![r.table[n].offset] = Empty]
  BY <1>1, DeleteEffect
<1> HIDE DEF r, t
<1>3. View(t, [Slots(o) EXCEPT ![r.table[n].offset] = Empty])
        = [x \in DOMAIN View(r, Slots(o)) \ {n} |-> View(r, Slots(o))[x]]
  BY <1>1, <1>2, DeleteView
<1> QED BY <1>2, <1>3 DEF Slots, r, t

\* [[Delete]]
LEMMA DeleteImplements ==
  ASSUME SlotInv, NEW o \in Objects, NEW n \in Names, Delete(o, n)
  PROVE  Model!Remove(o, n)
<1> DEFINE r == MapAt(o)
           v == [x \in DOMAIN Properties[o] \ {n} |-> Properties[o][x]]
<1>1. /\ Others(o) /\ n \in DOMAIN r.table /\ r.table[n].attributes.configurable
      /\ MapAt(o)'.prototype = r.prototype
      /\ objs'[o].extensible = objs[o].extensible
  BY DeleteEffect DEF SlotInv
<1>2. Model!Own(o, n) /\ Properties[o][n].attributes.configurable
  <2>1. Properties[o][n] = OwnSlot(o, n)
    BY <1>1, OwnProperties
  <2>2. OwnSlot(o, n).attributes = r.table[n].attributes
    BY <1>1, SlotFacts
  <2> QED BY <1>1, <2>1, <2>2, OwnProperties
<1>3. View(MapAt(o)', Slots(o)') = v
  BY DeletedView DEF Properties
<1>4. Properties' = [Properties EXCEPT ![o] = v]
  BY <1>1, <1>3, StepProperties
<1>5. Links' = Links /\ Opens' = Opens
  BY <1>1, SameLinks, SameOpens
<1> QED BY ZenonT(60), <1>2, <1>4, <1>5, MappedProperties DEF Model!Remove, Links, Opens

\* The steps that keep the properties.
LEMMA SameDictionaries ==
  ASSUME NEW o \in Objects, Others(o),
         SameProperties(MapAt(o), MapAt(o)'), objs'[o].slots = Slots(o)
  PROVE  Properties' = Properties
<1>1. View(MapAt(o)', Slots(o)') = View(MapAt(o), Slots(o))
  BY DEF SameProperties, View, Slots
<1> QED BY <1>1, OtherViews DEF Properties

\* Reflect.setPrototypeOf
LEMMA SetPrototypeImplements ==
  ASSUME SlotInv, NEW o \in Objects, NEW p \in Prototypes, ChangePrototype(o, p)
  PROVE  /\ Model!SetPrototype(o, p)
         /\ \A x \in Objects : PrototypeOf(x)' = IF x = o THEN p ELSE PrototypeOf(x)
<1>1. /\ Others(o) /\ SameProperties(MapAt(o), MapAt(o)')
      /\ MapAt(o)'.prototype = p
      /\ objs'[o].slots = Slots(o)
      /\ objs[o].extensible /\ objs'[o].extensible = objs[o].extensible
  BY ChangePrototypeEffect DEF SlotInv
<1>2. \A x \in Objects : PrototypeOf(x)' = IF x = o THEN p ELSE PrototypeOf(x)
  BY <1>1, OtherViews DEF PrototypeOf, Proto, MapAt
<1>3. Links' = [Links EXCEPT ![o] = p]
  BY <1>2 DEF Links
<1>4. Properties' = Properties /\ Opens' = Opens
  BY <1>1, SameDictionaries, SameOpens
<1> QED BY <1>1, <1>2, <1>3, <1>4, MappedProperties DEF Model!SetPrototype, Links, Opens

\* Object.preventExtensions
LEMMA CloseImplements ==
  ASSUME SlotInv, NEW o \in Objects, PreventExtensions(o)
  PROVE  Model!Close(o) /\ Links' = Links
<1>1. /\ Others(o) /\ SameProperties(MapAt(o), MapAt(o)')
      /\ MapAt(o)'.prototype = MapAt(o).prototype
      /\ objs'[o].slots = Slots(o)
      /\ objs'[o].extensible = FALSE
  BY PreventExtensionsEffect DEF SlotInv
<1>2. Opens' = [Opens EXCEPT ![o] = FALSE]
  BY <1>1, OtherViews DEF Opens
<1>3. Properties' = Properties /\ Links' = Links
  BY <1>1, SameDictionaries, SameLinks
<1> QED BY <1>2, <1>3, MappedProperties DEF Model!Close, Links, Opens

\* The first indexed element, and an inline cache that flattens the map, show
\* nothing.
LEMMA HiddenSteps ==
  ASSUME SlotInv, NEW o \in Objects, NEW ms, BecomeIndexed(o) \/ Flattening(ms)
  PROVE  Properties' = Properties /\ Links' = Links /\ Opens' = Opens
<1>1. CASE BecomeIndexed(o)
  <2>1. /\ Others(o) /\ SameProperties(MapAt(o), MapAt(o)')
        /\ MapAt(o)'.prototype = MapAt(o).prototype
        /\ objs'[o].slots = Slots(o)
        /\ objs'[o].extensible = objs[o].extensible
    BY <1>1, BecomeIndexedEffect DEF SlotInv
  <2> QED BY <2>1, SameDictionaries, SameLinks, SameOpens
<1>2. CASE Flattening(ms)
  <2>1. Others(o) /\ Untouched(o)
    BY <1>2, FlattenEffect DEF SlotInv, Others
  <2>2. /\ SameProperties(MapAt(o), MapAt(o)') /\ objs'[o].slots = Slots(o)
        /\ MapAt(o)'.prototype = MapAt(o).prototype
        /\ objs'[o].extensible = objs[o].extensible
    BY <2>1 DEF Untouched, SameProperties, Slots, GetSlotsSize, Offsets
  <2> QED BY <2>1, <2>2, SameDictionaries, SameLinks, SameOpens
<1> QED BY <1>1, <1>2

-----------------------------------------------------------------------------
(* The refinement                                                          *)

RefInv == SlotInv /\ Acyclic

\* The initial heap maps to initial objects of ECMAScript 5.
LEMMA InitImplements ==
  ASSUME Init
  PROVE  RefInv /\ Model!OInit
<1>1. SlotInv /\ maps = RootMaps /\ objs = [o \in Objects |->
               [map |-> RootOf[o],
                slots |-> Resized(<<>>, GetSlotsSize(RootMaps[RootOf[o]])),
                extensible |-> TRUE]]
  BY InitSlots DEF Init
<1>2. \A o \in Objects : PrototypeOf(o) = RootMaps[RootOf[o]].prototype
  BY <1>1 DEF PrototypeOf, Proto, MapOf
<1>3. Acyclic
  BY <1>2, RootContents DEF Acyclic
<1>4. \A o \in Objects : PrototypeOf(o) \in Objects \cup {NoObject}
  BY <1>1, PrototypesAreObjects DEF SlotInv, Chain
<1>5. \A o \in Objects : DOMAIN maps[MapOf(o)].table \subseteq Names
  BY <1>1, SlotFacts DEF IsMap, MapAt
<1>6. Opens = [o \in Objects |-> TRUE]
  BY <1>1 DEF Opens
<1> QED BY <1>1, <1>3, <1>4, <1>5, <1>6 DEF Model!OInit, RefInv, Opens

\* No step makes a chain that does not end.
LEMMA StepAcyclic ==
  ASSUME RefInv, [Next]_hvars
  PROVE  RefInv'
<1>1. SlotInv /\ HeapInv /\ Acyclic /\ SlotInv' /\ HeapInv'
  BY StepSlots DEF RefInv, SlotInv
<1> SUFFICES Acyclic'
  BY <1>1 DEF RefInv
<1>2. ASSUME UNCHANGED hvars PROVE Acyclic'
  BY <1>1, <1>2 DEF hvars, Acyclic, PrototypeOf, Proto, MapOf
<1>3. ASSUME NEW o \in Objects, NEW n \in Names, NEW d \in Descriptors,
             DefineOwnProperty(o, n, d)
      PROVE  Acyclic'
  <2>1. Others(o) /\ MapAt(o)'.prototype = MapAt(o).prototype
    <3>1. CASE DefineFound(o, n, d)
      BY <1>1, <3>1, DefineFoundEffect
    <3>2. CASE DefineNotFound(o, n, d)
      BY <1>1, <3>2, DefineNotFoundEffect DEF AddedTo
    <3> QED BY <1>3, <3>1, <3>2 DEF DefineOwnProperty
  <2> QED BY <1>1, <2>1, SamePrototypes
<1>4. ASSUME NEW o \in Objects, NEW n \in Names, NamedStep(o, n)
      PROVE  Acyclic'
  <2>1. CASE Get(o, n)
    BY <1>2, <2>1 DEF Get
  <2>2. ASSUME NEW d \in Inputs, DefineOwnProperty(o, n, d)
        PROVE  Acyclic'
    BY <1>3, <2>2, HeapAssumption
  <2>3. ASSUME NEW v \in PutValues, Put(o, n, v)
        PROVE  Acyclic'
    BY <1>3, <2>3, HeapAssumption, PutIsDefine
  <2>4. CASE Delete(o, n)
    BY <1>1, <2>4, DeleteEffect, SamePrototypes
  <2> QED BY <1>4, <2>1, <2>2, <2>3, <2>4 DEF NamedStep
<1>5. ASSUME NEW o \in Objects, ObjectStep(o)
      PROVE  Acyclic'
  <2>1. ASSUME NEW p \in Prototypes, ChangePrototype(o, p)
        PROVE  Acyclic'
    <3>1. p \in Chain /\ ~Reaches(p, o)
      BY <2>1, HeapAssumption DEF ChangePrototype, Chain
    <3>2. \A x \in Objects : PrototypeOf(x)' = IF x = o THEN p ELSE PrototypeOf(x)
      BY <1>1, <2>1, SetPrototypeImplements
    <3> QED BY <1>1, <3>1, <3>2, NewPrototypeAcyclic
  <2>2. CASE BecomeIndexed(o) \/ FlattenMap(o) \/ PreventExtensions(o)
    <3>1. Links' = Links
      BY <1>1, <2>2, HiddenSteps, CloseImplements DEF FlattenMap, Flattening
    <3>2. \A x \in Objects : PrototypeOf(x)' = PrototypeOf(x)
      BY <3>1 DEF Links
    <3> QED BY <1>1, <3>2 DEF Acyclic
  <2> QED BY <1>5, <2>1, <2>2 DEF ObjectStep
<1> QED BY <1>2, <1>4, <1>5 DEF Next

\* A step of the code is one of ECMAScript's or shows nothing.
Steps == Model!ONext \/ (Properties' = Properties /\ Links' = Links /\ Opens' = Opens)

\* Every step of the heap maps to a step of ECMAScript 5 objects or to none.
LEMMA StepImplements ==
  ASSUME InputsCarryValues, RefInv, [Next]_hvars
  PROVE  RefInv' /\ Steps
<1>1. RefInv' /\ SlotInv /\ HeapInv /\ Acyclic /\ HeapInv'
  BY StepAcyclic DEF RefInv, SlotInv
<1> SUFFICES Steps
  BY <1>1
<1>2. ASSUME UNCHANGED hvars PROVE Steps
  BY <1>2 DEF Steps, hvars, Properties, Links, Opens, View, MapAt, MapOf, Slots,
              PrototypeOf, Proto
<1>3. ASSUME NEW o \in Objects, NEW n \in Names, NamedStep(o, n)
      PROVE  Steps
  <2>1. CASE Get(o, n)
    BY <1>2, <2>1 DEF Get
  <2>2. ASSUME NEW d \in Inputs, DefineOwnProperty(o, n, d)
        PROVE  Steps
    <3>1. d \in Descriptors /\ (d.type = "data" => d.value # Absent)
      BY HeapAssumption DEF InputsCarryValues
    <3>2. Model!Define(o, n, d)
      BY <1>1, <2>2, <3>1, DefineImplements
    <3> QED BY <3>2 DEF Steps, Model!ONext
  <2>3. ASSUME NEW v \in PutValues, Put(o, n, v)
        PROVE  Steps
    <3>1. Model!Assign(o, n, v)
      BY <1>1, <2>3, HeapAssumption, PutImplements
    <3> QED BY <3>1 DEF Steps, Model!ONext
  <2>4. CASE Delete(o, n)
    <3>1. Model!Remove(o, n)
      BY <1>1, <2>4, DeleteImplements
    <3> QED BY <3>1 DEF Steps, Model!ONext
  <2> QED BY <1>3, <2>1, <2>2, <2>3, <2>4 DEF NamedStep
<1>4. ASSUME NEW o \in Objects, ObjectStep(o)
      PROVE  Steps
  <2>1. ASSUME NEW p \in Prototypes, ChangePrototype(o, p)
        PROVE  Steps
    <3>1. Model!SetPrototype(o, p)
      BY <1>1, <2>1, SetPrototypeImplements
    <3> QED BY <3>1 DEF Steps, Model!ONext
  <2>2. CASE BecomeIndexed(o) \/ FlattenMap(o)
    BY <1>1, <2>2, HiddenSteps DEF FlattenMap, Flattening, Steps
  <2>3. CASE PreventExtensions(o)
    <3>1. Model!Close(o)
      BY <1>1, <2>3, CloseImplements
    <3> QED BY <3>1 DEF Steps, Model!ONext
  <2> QED BY <1>4, <2>1, <2>2, <2>3 DEF ObjectStep
<1> QED BY <1>2, <1>3, <1>4 DEF Next

\* Maps, transitions and slots are invisible: whatever objects share maps, and
\* whichever inline cache flattens them, each step changes one object as
\* ECMAScript 5, 8.12 says, or shows nothing; given that no descriptor makes a
\* data property of an accessor without a value (README, section 6).
THEOREM MapsImplementObjects == InputsCarryValues => (Spec => ImplementsObjects)
<1> SUFFICES ASSUME InputsCarryValues PROVE Spec => ImplementsObjects
  OBVIOUS
<1>1. Init => RefInv /\ Model!OInit
  BY InitImplements
<1>2. RefInv /\ [Next]_hvars => RefInv' /\ [Model!ONext]_(Model!ovars)
  <2> SUFFICES ASSUME RefInv, [Next]_hvars
               PROVE  RefInv' /\ [Model!ONext]_(Model!ovars)
    OBVIOUS
  <2>1. RefInv' /\ Steps
    BY StepImplements
  <2>2. Properties' = Properties /\ Links' = Links /\ Opens' = Opens
        => UNCHANGED Model!ovars
    BY MappedProperties DEF Model!ovars, Links, Opens
  <2> QED BY <2>1, <2>2 DEF Steps
<1> QED BY <1>1, <1>2, PTL DEF Spec, ImplementsObjects, Model!OSpec
=============================================================================
