----------------------------- MODULE LazyTables -----------------------------
(***************************************************************************)
(* The target tables of hidden classes (lv5/map.h).  HiddenClass gives     *)
(* every map its entries from the start; the code builds the TargetTable   *)
(* of a map when it is first asked for a property, from the maps before    *)
(* it, and lets successive unique maps have one table, which is changed    *)
(* for all of them.                                                        *)
(*                                                                         *)
(* The module runs the tables beside the steps of HiddenClass and          *)
(* InlineCache.  Nothing of the fields "table" of their maps goes into     *)
(* them.                                                                   *)
(***************************************************************************)
EXTENDS InlineCache

VARIABLES
  lazy,   \* per map: table_ as an index of tables or 0, previous_ or 0,
          \* added_ as a function of one name or none, calculated_size_
  tables  \* every TargetTable ever allocated

lvars == <<ivars, lazy, tables>>

\* The lazily built side of the heap; the operators below take it from one
\* state to the next.
LazyHeap == [lazy |-> lazy, tables |-> tables]

HasTable(h, m) == h.lazy[m].table # 0
TableOf(h, m) == h.tables[h.lazy[m].table]

\* Map::GetSlotsSize, where deleted_ is that of the map in any heap.
SlotsSize(h, m, deleted) ==
  IF HasTable(h, m) THEN Cardinality(DOMAIN TableOf(h, m)) + Len(deleted)
  ELSE h.lazy[m].calculated

Inserted(table, added) ==
  [n \in DOMAIN table \cup DOMAIN added |->
     IF n \in DOMAIN table THEN table[n] ELSE added[n]]

\* Mutant: the entry that a map adds itself is forgotten.
AllocateTableOfPrevious(h, m) ==
  LET from[k \in 0..m] ==
        IF k = 0 THEN <<>>
        ELSE IF HasTable(h, k) THEN TableOf(h, k)
        ELSE IF k = m THEN from[h.lazy[k].previous]
        ELSE Inserted(from[h.lazy[k].previous], h.lazy[k].added)
  IN [lazy   |-> [h.lazy EXCEPT ![m].table = Len(h.tables) + 1, ![m].previous = 0],
      tables |-> Append(h.tables, from[m])]

\* Map::AllocateTable: a copy of the first table on the way back through
\* previous_, with what the maps on the way add.
AllocateTable(h, m) ==
  LET from[k \in 0..m] ==
        IF k = 0 THEN <<>>
        ELSE IF HasTable(h, k) THEN TableOf(h, k)
        ELSE Inserted(from[h.lazy[k].previous], h.lazy[k].added)
  IN [lazy   |-> [h.lazy EXCEPT ![m].table = Len(h.tables) + 1, ![m].previous = 0],
      tables |-> Append(h.tables, from[m])]

WithTable(h, m) == IF HasTable(h, m) THEN h ELSE AllocateTable(h, m)

\* Map::Get: neither the root of a chain nor a map that adds the name itself
\* needs its table.
Needs(h, m, n) ==
  ~HasTable(h, m) /\ h.lazy[m].previous # 0 /\ n \notin DOMAIN h.lazy[m].added
Looked(h, m, n) == IF Needs(h, m, n) THEN AllocateTable(h, m) ELSE h

\* What it answers, an entry or none.
Answers(h, m, n) ==
  LET after == Looked(h, m, n)
      known == IF HasTable(after, m) THEN TableOf(after, m) ELSE after.lazy[m].added
  IN {known[x] : x \in {n} \cap DOMAIN known}

\* Map::GetOwnPropertyNames
Listed(h, m) ==
  IF ~HasTable(h, m) /\ h.lazy[m].previous # 0 THEN AllocateTable(h, m) ELSE h

\* GetPropertySlot: one Get after another, up to the object that has the name.
LookedUp(h, o, n) ==
  LET path == IF Holder(o, n) = NoObject THEN Path(o, NoObject)
              ELSE Append(Path(o, Holder(o, n)), Holder(o, n))
      after[i \in 0..Len(path)] ==
        IF i = 0 THEN h ELSE Looked(after[i - 1], MapOf(path[i]), n)
  IN after[Len(path)]

-----------------------------------------------------------------------------
(* Transitions                                                             *)

\* Mutant: a shared map has the table of the map before it as well.
FreshSharing(h, m, unique) ==
  [h EXCEPT !.lazy = Append(@,
     [table |-> h.lazy[m].table, previous |-> m, added |-> <<>>,
      calculated |-> SlotsSize(h, m, maps[m].deleted)])]

\* Map::Map(Map* previous, bool unique)
Fresh(h, m, unique) ==
  [h EXCEPT !.lazy = Append(@,
     [table |-> IF unique /\ maps[m].unique THEN h.lazy[m].table ELSE 0,
      previous |-> m, added |-> <<>>,
      calculated |-> SlotsSize(h, m, maps[m].deleted)])]

Newest(h) == Len(h.lazy)
ToTable(h, m, n, entry) ==
  [h EXCEPT !.tables[h.lazy[m].table] = With(@, n, entry)]

\* The unique map that m goes on as.
Ours(h, m) ==
  IF maps[m].unique /\ ~maps[m].flattened THEN [h |-> h, map |-> m]
  ELSE [h |-> Fresh(h, m, TRUE), map |-> Newest(h) + 1]

Offset(h, m, deleted) == IF deleted # <<>> THEN Head(deleted) ELSE SlotsSize(h, m, deleted)

\* AddPropertyTransition
AddToUnique(h, m, n, a) ==
  LET ours == Ours(IF maps[m].unique THEN WithTable(h, m) ELSE h, m)
      next == WithTable(ours.h, ours.map)
  IN ToTable(next, ours.map, n,
             [offset |-> Offset(next, ours.map, maps[m].deleted), attributes |-> a])

AddToShared(h, m, n, a) ==
  LET next  == Fresh(h, m, FALSE)
      entry == [offset |-> Offset(h, m, maps[m].deleted), attributes |-> a]
  IN [next EXCEPT
        !.lazy[Newest(next)].added = [x \in {n} |-> entry],
        !.lazy[Newest(next)].calculated =
           SlotsSize(h, m, maps[m].deleted) + (IF maps[m].deleted = <<>> THEN 1 ELSE 0)]

AddTo(h, m, n, a) ==
  IF maps[m].unique \/ (<<n, a>> \notin DOMAIN maps[m].transitions
                        /\ maps[m].transitCount > MaxTransition)
  THEN AddToUnique(h, m, n, a)
  ELSE IF <<n, a>> \in DOMAIN maps[m].transitions THEN h
  ELSE AddToShared(h, m, n, a)

\* DeletePropertyTransition and ChangeAttributesTransition
DeleteFrom(h, m, n) ==
  LET next == WithTable(Fresh(h, m, TRUE), Newest(h) + 1)
  IN [next EXCEPT !.tables[next.lazy[Newest(next)].table] =
                     [x \in DOMAIN @ \ {n} |-> @[x]]]

ChangeAttributesIn(h, m, n, a) ==
  LET next == WithTable(Fresh(h, m, TRUE), Newest(h) + 1)
  IN [next EXCEPT !.tables[next.lazy[Newest(next)].table][n].attributes = a]

-----------------------------------------------------------------------------
(* Steps of objects with what they do to the tables                        *)

Becomes(h) == lazy' = h.lazy /\ tables' = h.tables

\* A definition of what the object has, or has not, after the lookup left h.
DefineIn(h, o, n, d) ==
  \/ /\ DefineFound(o, n, d)
     /\ LET old == OwnSlot(o, n).attributes
            new == Merge(OwnSlot(o, n), d).attributes
        IN Becomes(IF new = old THEN h ELSE ChangeAttributesIn(h, MapOf(o), n, new))
  \/ /\ DefineNotFound(o, n, d)
     /\ Becomes(AddTo(h, MapOf(o), n, NewSlot(d).attributes))

LazyPut(o, n, v) ==
  /\ CanPutData(o, n)
  /\ DefineIn(LookedUp(LazyHeap, o, n), o, n, IF HasOwn(o, n) THEN ValueOnly(v) ELSE DefaultData(v))

LazyNamed(o, n) ==
  \/ Get(o, n) /\ Becomes(LookedUp(LazyHeap, o, n))
  \/ \E d \in Inputs : DefineIn(Looked(LazyHeap, MapOf(o), n), o, n, d)
  \/ \E v \in PutValues : LazyPut(o, n, v)
  \/ /\ Delete(o, n)
     /\ Becomes(DeleteFrom(Looked(LazyHeap, MapOf(o), n), MapOf(o), n))

\* A new prototype, and a first indexed element, change the map that m goes on
\* as; preventExtensions makes a new one.  Object.keys lists a table.
LazyObject(o) ==
  \/ /\ \/ \E p \in Prototypes : ChangePrototype(o, p)
        \/ BecomeIndexed(o)
     /\ Becomes(Ours(LazyHeap, MapOf(o)).h)
  \/ PreventExtensions(o) /\ Becomes(Fresh(LazyHeap, MapOf(o), TRUE))
  \/ FlattenMap(o) /\ UNCHANGED <<lazy, tables>>
  \/ UNCHANGED hvars /\ Becomes(Listed(LazyHeap, MapOf(o)))

\* Sites of compiled code.  A store that hits follows a transition without a
\* lookup; one that misses is a put.
LazySite(o, n) ==
  \E v \in PutValues :
    \/ StoreHit(n, o, v) /\ UNCHANGED <<lazy, tables>>
    \/ StoreReplace(n, o, v) /\ Becomes(LookedUp(LazyHeap, o, n))
    \/ /\ StoreNew(n, o, v)
       /\ Becomes(AddTo(LookedUp(LazyHeap, o, n), MapOf(o), n, NewSlot(DefaultData(v)).attributes))

LazyInit ==
  /\ ICInit
  /\ lazy = [m \in 1..Len(RootMaps) |->
               [table |-> IF DOMAIN RootMaps[m].table = {} THEN 0 ELSE m,
                previous |-> 0, added |-> <<>>,
                calculated |-> GetSlotsSize(RootMaps[m])]]
  /\ tables = [m \in 1..Len(RootMaps) |-> RootMaps[m].table]

LazyNext ==
  \E o \in Objects :
    \/ LazyObject(o) /\ UNCHANGED <<loadIC, storeIC>>
    \/ \E n \in Names : LazyNamed(o, n) /\ UNCHANGED <<loadIC, storeIC>>
    \/ \E n \in StoreSites : LazySite(o, n)

LazySpec == LazyInit /\ [][LazyNext]_lvars

-----------------------------------------------------------------------------
(* Properties                                                              *)

\* Whenever the table of a map is built, from however long a chain, and
\* whichever maps have it together, a map that is in use answers what the
\* sequence of additions, deletions and changes that led to it says, and counts
\* as many slots (Map::Get, Map::AllocateTable, Map::Map).
TablesAnswer ==
  \A m \in LiveMaps : InUse(m) =>
    /\ \A n \in Names :
         Answers(LazyHeap, m, n) = {Entry(m, x) : x \in {n} \cap DOMAIN maps[m].table}
    /\ SlotsSize(LazyHeap, m, maps[m].deleted) = GetSlotsSize(maps[m])
=============================================================================
