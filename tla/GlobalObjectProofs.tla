------------------------- MODULE GlobalObjectProofs -------------------------
(***************************************************************************)
(* The global object, whatever code declares, defines, assigns, deletes    *)
(* and caches: a name has one home (OneHome), a patched site that hits     *)
(* reads and writes what the lookup finds (GlobalICSound), and a constant  *)
(* stays (GlobalConstantsStay).  First what each step of GlobalObject does *)
(* to the properties in the map and to the variables, then the sites.      *)
(***************************************************************************)
EXTENDS GlobalObject, HiddenClassProofs

-----------------------------------------------------------------------------
(* Steps on properties in a map                                            *)

\* Neither its value nor its attributes may change any more.
Locked(s) == ~s.attributes.configurable /\ ~s.attributes.writable

\* What dictionary v has under x, w has.
Agree(v, w, x) == (x \in DOMAIN w <=> x \in DOMAIN v) /\ (x \in DOMAIN v => w[x] = v[x])

KeepsLocked(v, w, x) == x \in DOMAIN v /\ Locked(v[x]) => x \in DOMAIN w /\ w[x] = v[x]

\* The dictionary of an object is what its map and slots hold.
LEMMA DictionaryIsOwn ==
  ASSUME NEW o \in Objects, NEW n
  PROVE  /\ n \in DOMAIN Properties[o] <=> HasOwn(o, n)
         /\ HasOwn(o, n) => Properties[o][n] = OwnSlot(o, n)
         /\ n \in DOMAIN Properties'[o] <=> HasOwn(o, n)'
         /\ HasOwn(o, n)' => Properties'[o][n] = OwnSlot(o, n)'
BY DEF Properties, View, HasOwn, Has, OwnSlot, Entry, MapAt

\* A step about the property n of o changes no other property of any object,
\* and not n if it is locked.
LEMMA DefineKeepsLocked ==
  ASSUME SlotInv, HeapInv', NEW o \in Objects, NEW n \in Names, NEW d \in Descriptors,
         DefineOwnProperty(o, n, d)
  PROVE  /\ \A q \in Objects, x \in Names : q # o \/ x # n =>
              Agree(Properties[q], Properties'[q], x)
         /\ KeepsLocked(Properties[o], Properties'[o], n)
<1>1. CASE DefineFound(o, n, d)
  <2> DEFINE new == Merge(OwnSlot(o, n), d)
  <2>1. HasOwn(o, n) /\ IsDefineOwnPropertyAccepted(OwnSlot(o, n), d)
    BY <1>1 DEF DefineFound
  <2>2. Properties[o][n] = OwnSlot(o, n) /\ OwnSlot(o, n) \in StoredSlots
        /\ n \in DOMAIN Properties[o]
    BY <2>1, OwnProperties, DictionaryIsOwn
  <2>3. Locked(OwnSlot(o, n)) => new = OwnSlot(o, n)
    BY <2>1, <2>2, LockedMerge DEF Locked
  <2>4. Others(o)
    BY <1>1, DefineFoundEffect DEF SlotInv
  <2>5. View(MapAt(o)', Slots(o)') = Including(Properties[o], n, new)
    BY <1>1, FoundView DEF Properties
  <2> HIDE DEF new
  <2>6. Properties' = [Properties EXCEPT ![o] = Including(Properties[o], n, new)]
    BY <2>4, <2>5, StepProperties
  <2>7. DOMAIN Properties = Objects
    BY DEF Properties
  <2> QED BY <2>2, <2>3, <2>6, <2>7 DEF Including, Agree, KeepsLocked
<1>2. CASE DefineNotFound(o, n, d)
  <2>1. n \notin DOMAIN Properties[o]
    BY <1>2, DictionaryIsOwn DEF DefineNotFound
  <2>2. Others(o)
    BY <1>2, DefineNotFoundEffect DEF SlotInv, AddedTo
  <2>3. View(MapAt(o)', Slots(o)') = Including(Properties[o], n, NewSlot(d))
    BY <1>2, DefineNotFoundEffect, AddedView DEF SlotInv, Properties
  <2>4. Properties' = [Properties EXCEPT ![o] = Including(Properties[o], n, NewSlot(d))]
    BY <2>2, <2>3, StepProperties
  <2>5. DOMAIN Properties = Objects
    BY DEF Properties
  <2> QED BY <2>1, <2>4, <2>5 DEF Including, Agree, KeepsLocked
<1> QED BY <1>1, <1>2 DEF DefineOwnProperty

\* The same for a deletion, which also says what becomes of n.
LEMMA DeleteKeepsLocked ==
  ASSUME SlotInv, NEW o \in Objects, NEW n \in Names, Delete(o, n)
  PROVE  /\ \A q \in Objects, x \in Names : q # o \/ x # n =>
              Agree(Properties[q], Properties'[q], x)
         /\ KeepsLocked(Properties[o], Properties'[o], n)
         /\ n \notin DOMAIN Properties'[o]
<1> DEFINE v == [x \in DOMAIN Properties[o] \ {n} |-> Properties[o][x]]
<1>1. Others(o)
  BY DeleteEffect DEF SlotInv
<1>2. View(MapAt(o)', Slots(o)') = v
  BY DeletedView DEF Properties
<1>3. Properties' = [Properties EXCEPT ![o] = v]
  BY <1>1, <1>2, StepProperties
<1>4. DOMAIN Properties = Objects
  BY DEF Properties
<1>5. ~Locked(Properties[o][n])
  <2>1. HasOwn(o, n) /\ OwnSlot(o, n).attributes.configurable
    BY DEF Delete, OwnSlot
  <2> QED BY <2>1, DictionaryIsOwn DEF Locked
<1> QED BY <1>3, <1>4, <1>5 DEF Agree, KeepsLocked

\* A step about one name of one object touches no other property, and keeps that
\* one locked if it is.
LEMMA NamedKeepsLocked ==
  ASSUME SlotInv, HeapInv', NEW o \in Objects, NEW n \in Names, NamedStep(o, n)
  PROVE  /\ \A q \in Objects, x \in Names : q # o \/ x # n =>
              Agree(Properties[q], Properties'[q], x)
         /\ KeepsLocked(Properties[o], Properties'[o], n)
<1>1. ASSUME NEW d \in Inputs, DefineOwnProperty(o, n, d)
      PROVE  /\ \A q \in Objects, x \in Names : q # o \/ x # n =>
                  Agree(Properties[q], Properties'[q], x)
             /\ KeepsLocked(Properties[o], Properties'[o], n)
  BY <1>1, HeapAssumption, DefineKeepsLocked
<1>2. ASSUME NEW v \in PutValues, Put(o, n, v)
      PROVE  /\ \A q \in Objects, x \in Names : q # o \/ x # n =>
                  Agree(Properties[q], Properties'[q], x)
             /\ KeepsLocked(Properties[o], Properties'[o], n)
  <2>1. v \in Values
    BY HeapAssumption
  <2>2. PICK d \in {ValueOnly(v), DefaultData(v)} :
          d \in Descriptors /\ DefineOwnProperty(o, n, d)
    BY <1>2, <2>1, PutIsDefine
  <2> QED BY <2>2, DefineKeepsLocked
<1>3. CASE Delete(o, n)
  BY <1>3, DeleteKeepsLocked
<1>4. CASE Get(o, n)
  <2>1. Properties' = Properties
    BY <1>4 DEF Get, hvars, Properties, View, MapAt, MapOf, Slots
  <2> QED BY <2>1 DEF Agree, KeepsLocked
<1> QED BY <1>1, <1>2, <1>3, <1>4 DEF NamedStep

\* The other steps change no property.
LEMMA ObjectStepProperties ==
  ASSUME SlotInv, NEW o \in Objects, ObjectStep(o)
  PROVE  Properties' = Properties
<1>1. ASSUME NEW p \in Prototypes, ChangePrototype(o, p)
      PROVE  Properties' = Properties
  BY <1>1, ChangePrototypeEffect, SameDictionaries DEF SlotInv
<1>2. CASE BecomeIndexed(o) \/ FlattenMap(o)
  BY <1>2, HiddenSteps DEF FlattenMap, Flattening
<1>3. CASE PreventExtensions(o)
  BY <1>3, PreventExtensionsEffect, SameDictionaries DEF SlotInv
<1> QED BY <1>1, <1>2, <1>3 DEF ObjectStep

-----------------------------------------------------------------------------
(* The invariant                                                           *)

VariablesOK ==
  /\ DOMAIN variables \subseteq Names
  /\ \A n \in DOMAIN variables : variables[n] \in StoredSlots

\* A site that was patched for n says what the map it names says of n, whether
\* or not an object has that map now.
Describes(site, n) ==
  site.map # 0 =>
    /\ site.map \in LiveMaps
    /\ n \in DOMAIN maps[site.map].table
    /\ maps[site.map].table[n].attributes.type = "data"
    /\ maps[site.map].table[n].offset = site.offset

SitesOK ==
  /\ DOMAIN loadSite = Names /\ DOMAIN storeSite = Names
  /\ \A n \in Names :
       /\ Describes(loadSite[n], n) /\ Describes(storeSite[n], n)
       /\ storeSite[n].map # 0 => maps[storeSite[n].map].table[n].attributes.writable

GInv == SlotInv /\ VariablesOK /\ SitesOK /\ OneHome

\* What a step must not do to a global constant, wherever it is.
ConstantsKept ==
  \A x \in Names : /\ KeepsLocked(variables, variables', x)
                   /\ KeepsLocked(Properties[Global], Properties'[Global], x)

\* OneHome in terms of the global object's dictionary.
LEMMA HomesApart ==
  /\ OneHome <=> \A x \in DOMAIN variables : x \notin DOMAIN Properties[Global]
  /\ OneHome' <=> \A x \in DOMAIN variables' : x \notin DOMAIN Properties'[Global]
<1>1. /\ DOMAIN Properties[Global] = DOMAIN maps[MapOf(Global)].table
      /\ DOMAIN Properties'[Global] = DOMAIN maps'[MapOf(Global)'].table
  BY GlobalAssumption DEF Properties, View, MapAt
<1> QED BY <1>1 DEF OneHome

\* No map loses or moves a property, so that no step spoils a site.
LEMMA SitesStay ==
  ASSUME SitesOK, AllStable, UNCHANGED sites
  PROVE  SitesOK'
<1>1. loadSite' = loadSite /\ storeSite' = storeSite
  BY DEF sites
<1>2. ASSUME NEW site, NEW n, Describes(site, n), site.map # 0
      PROVE  /\ site.map \in LiveMaps' /\ n \in DOMAIN maps'[site.map].table
             /\ maps'[site.map].table[n] = maps[site.map].table[n]
  BY <1>2 DEF Describes, AllStable, Lasting, Stable
<1>3. \A n \in Names : Describes(loadSite[n], n) /\ Describes(storeSite[n], n)
  BY DEF SitesOK
<1>4. ASSUME NEW site, NEW n, Describes(site, n)
      PROVE  /\ site.map # 0 => site.map \in LiveMaps'
             /\ site.map # 0 => n \in DOMAIN maps'[site.map].table
             /\ site.map # 0 => maps'[site.map].table[n].attributes.type = "data"
             /\ site.map # 0 => maps'[site.map].table[n].offset = site.offset
  BY <1>2, <1>4 DEF Describes
<1>5. \A n \in Names : /\ Describes(loadSite[n], n)'
                       /\ Describes(storeSite[n], n)'
  BY ZenonT(60), <1>1, <1>3, <1>4 DEF Describes
<1> QED BY <1>1, <1>2, <1>3, <1>5 DEF SitesOK

\* Steps on variables alone.
LEMMA SameHeap ==
  ASSUME SlotInv, SitesOK, UNCHANGED hvars, UNCHANGED sites
  PROVE  SlotInv' /\ SitesOK' /\ Properties' = Properties
<1>1. SlotInv' /\ AllStable
  BY StepSlots, StepKeeps DEF SlotInv, HeapInv
<1>2. Properties' = Properties
  BY DEF hvars, Properties, View, MapAt, MapOf, Slots
<1> QED BY <1>1, <1>2, SitesStay

\* A step that gives a variable that is there another slot.
LEMMA VariableStored ==
  ASSUME GInv, NEW n \in DOMAIN variables, NEW s \in StoredSlots,
         variables' = [variables EXCEPT ![n] = s],
         Locked(variables[n]) => s = variables[n],
         UNCHANGED hvars, UNCHANGED sites
  PROVE  GInv' /\ ConstantsKept
<1>1. SlotInv' /\ SitesOK' /\ Properties' = Properties
  BY SameHeap DEF GInv
<1>2. DOMAIN variables' = DOMAIN variables
  OBVIOUS
<1>3. VariablesOK' /\ OneHome'
  BY <1>1, <1>2, HomesApart DEF GInv, VariablesOK
<1>4. ConstantsKept
  BY <1>1 DEF ConstantsKept, KeepsLocked
<1> QED BY <1>1, <1>3, <1>4 DEF GInv

\* A step that declares n where the map does not have it.
LEMMA VariablePushed ==
  ASSUME GInv, SlotInv', SitesOK', NEW n \in Names, ~IsVariable(n), NEW v \in Values,
         variables' = Pushed(n, v),
         \A x \in Names : x # n => Agree(Properties[Global], Properties'[Global], x),
         n \notin DOMAIN Properties'[Global],
         n \in DOMAIN Properties[Global] => ~Locked(Properties[Global][n])
  PROVE  GInv' /\ ConstantsKept
<1> DEFINE s == [attributes |-> [type |-> "data", writable |-> TRUE,
                                 enumerable |-> TRUE, configurable |-> FALSE],
                 value |-> v]
<1>1. s \in StoredSlots
  BY DEF StoredSlots, StoredAttributes
<1>2. variables' = With(variables, n, s)
  BY DEF Pushed
<1> HIDE DEF s
<1>3. /\ DOMAIN variables' = DOMAIN variables \cup {n} /\ variables'[n] = s
      /\ \A x \in DOMAIN variables : variables'[x] = variables[x]
  BY <1>2 DEF With, IsVariable
<1>4. VariablesOK'
  BY <1>1, <1>3 DEF GInv, VariablesOK
<1>5. OneHome'
  BY <1>3, HomesApart DEF GInv, VariablesOK, Agree, IsVariable
<1>6. ConstantsKept
  BY <1>3 DEF ConstantsKept, KeepsLocked, Agree
<1> QED BY <1>4, <1>5, <1>6 DEF GInv

\* What the other steps do to the global object's map and slots.
LEMMA OrdinaryKeeps ==
  ASSUME GInv, Ordinary
  PROVE  GInv' /\ ConstantsKept
<1>1. variables' = variables /\ UNCHANGED sites /\ SlotInv
  BY DEF Ordinary, GInv
<1>2. [Next]_hvars
  BY DEF Ordinary, Next
<1>3. SlotInv' /\ HeapInv' /\ AllStable
  BY <1>1, <1>2, StepSlots, StepKeeps DEF SlotInv, HeapInv
<1>4. SitesOK'
  BY <1>1, <1>3, SitesStay DEF GInv
<1> DEFINE Good(x) == /\ IsVariable(x) => Agree(Properties[Global], Properties'[Global], x)
                      /\ KeepsLocked(Properties[Global], Properties'[Global], x)
<1>5. \A x \in Names : Good(x)
  <2>1. ASSUME NEW o \in Objects, ObjectStep(o)
        PROVE  \A x \in Names : Good(x)
    <3>1. Properties' = Properties
      BY <1>1, <2>1, ObjectStepProperties
    <3> QED BY <3>1 DEF Agree, KeepsLocked
  <2>2. ASSUME NEW o \in Objects, NEW n \in Names, o = Global => ~IsVariable(n), NamedStep(o, n)
        PROVE  \A x \in Names : Good(x)
    <3>1. /\ \A q \in Objects, x \in Names : q # o \/ x # n =>
               Agree(Properties[q], Properties'[q], x)
          /\ KeepsLocked(Properties[o], Properties'[o], n)
      BY <1>1, <1>3, <2>2, NamedKeepsLocked
    <3> QED BY <2>2, <3>1, GlobalAssumption DEF Agree, KeepsLocked
  <2> QED BY <2>1, <2>2 DEF Ordinary
<1>6. VariablesOK' /\ OneHome'
  BY <1>1, <1>5, HomesApart DEF GInv, VariablesOK, Agree, IsVariable
<1>7. ConstantsKept
  BY <1>1, <1>5 DEF ConstantsKept, KeepsLocked
<1> QED BY <1>3, <1>4, <1>6, <1>7 DEF GInv

-----------------------------------------------------------------------------
(* Stores at an offset                                                     *)

\* global->Direct(offset) = v, at the offset of the writable data property n:
\* the slots stay what the map says and no property but n changes.
LEMMA DirectStores ==
  ASSUME GInv, NEW n \in DOMAIN MapAt(Global).table, NEW v \in Values,
         MapAt(Global).table[n].attributes.type = "data",
         MapAt(Global).table[n].attributes.writable,
         Direct(MapAt(Global).table[n].offset, v)
  PROVE  /\ SlotInv' /\ OneHome' /\ VariablesOK' /\ ConstantsKept
         /\ maps' = maps /\ variables' = variables
<1> DEFINE r == MapAt(Global)
           at == r.table[n].offset
           s == [Slots(Global) EXCEPT ![at] = v]
<1>1. /\ maps' = maps /\ variables' = variables
      /\ objs' = [objs EXCEPT ![Global].slots[at] = v]
  BY DEF Direct
<1>2. /\ HeapInv /\ DOMAIN objs = Objects /\ Global \in Objects
      /\ DOMAIN objs[Global] = {"map", "slots", "extensible"}
      /\ IsMap(r, LiveMaps) /\ Placed(r) /\ Fits(r, Slots(Global))
  BY GlobalAssumption, SlotFacts DEF GInv, HeapInv, IInv, TypeOK
<1>3. /\ DOMAIN objs' = Objects
      /\ \A x \in Objects \ {Global} : objs'[x] = objs[x]
      /\ objs'[Global] = [objs[Global] EXCEPT !.slots[at] = v]
  BY <1>1, <1>2
<1>4. /\ DOMAIN objs'[Global] = DOMAIN objs[Global] /\ objs'[Global].slots = s
      /\ objs'[Global].map = objs[Global].map
      /\ objs'[Global].extensible = objs[Global].extensible
  BY <1>2, <1>3 DEF Slots
<1>5. \A x \in Objects : /\ DOMAIN objs'[x] = DOMAIN objs[x] /\ objs'[x].map = objs[x].map
                         /\ objs'[x].extensible = objs[x].extensible
  BY <1>2, <1>3, <1>4
<1>6. HeapInv'
  <2>1. TypeOK'
    BY <1>1, <1>2, <1>3, <1>5 DEF HeapInv, IInv, TypeOK, LiveMaps
  <2>2. UniqueMapsNotShared'
    BY <1>1, <1>2, <1>5 DEF HeapInv, IInv, UniqueMapsNotShared, LiveMaps, MapOf
  <2>3. Exact(maps)'
    BY <1>1, <1>2 DEF HeapInv
  <2> QED BY <2>1, <2>2, <2>3 DEF HeapInv, IInv
<1>7. \A x \in Objects : MapAt(x)' = MapAt(x)
  BY <1>1, <1>5 DEF MapAt, MapOf
<1>8. Others(Global)
  BY <1>3, <1>7 DEF Others, Untouched
<1>9. v \in Holds(r.table[n].attributes)
  BY DEF Holds, DataValues
<1> HIDE DEF r
<1>10. Fits(r, s)
  BY <1>2, <1>9, StoreFits DEF r
<1>11. MapAt(Global)' = r /\ Slots(Global)' = s
  BY <1>2, <1>4, <1>7 DEF Slots, r
<1>12. SlotInv'
  BY <1>2, <1>6, <1>8, <1>10, <1>11, OthersFit DEF GInv
<1>13. View(r, s) = Including(Properties[Global], n,
                              [attributes |-> r.table[n].attributes, value |-> v])
  <2>1. View(r, s) = Including(View(r, Slots(Global)), n,
                               [attributes |-> r.table[n].attributes, value |-> v])
    BY <1>2, StoreView DEF r
  <2> QED BY <1>2, <2>1 DEF Properties, r
<1>14. /\ DOMAIN Properties'[Global] = DOMAIN Properties[Global]
       /\ \A x \in DOMAIN Properties[Global] \ {n} :
            Properties'[Global][x] = Properties[Global][x]
  <2>1. Properties'[Global] = View(r, s)
    BY <1>2, <1>11 DEF Properties
  <2>2. n \in DOMAIN Properties[Global]
    BY <1>2 DEF Properties, View
  <2> QED BY <1>13, <2>1, <2>2 DEF Including
<1>15. Properties[Global][n].attributes.writable
  BY <1>2 DEF Properties, View, r
<1>16. VariablesOK' /\ OneHome'
  BY <1>1, <1>14, HomesApart DEF GInv, VariablesOK
<1>17. ConstantsKept
  BY <1>1, <1>14, <1>15 DEF ConstantsKept, KeepsLocked, Locked
<1> QED BY <1>1, <1>12, <1>16, <1>17

\* A site that hits names the global object's map, which is never map 0.
LEMMA HitDescribes ==
  ASSUME GInv, NEW n \in Names
  PROVE  /\ Hit(loadSite[n]) =>
              /\ n \in DOMAIN MapAt(Global).table
              /\ MapAt(Global).table[n].attributes.type = "data"
              /\ MapAt(Global).table[n].offset = loadSite[n].offset
         /\ Hit(storeSite[n]) =>
              /\ n \in DOMAIN MapAt(Global).table
              /\ MapAt(Global).table[n].attributes.type = "data"
              /\ MapAt(Global).table[n].offset = storeSite[n].offset
              /\ MapAt(Global).table[n].attributes.writable
<1>1. MapOf(Global) # 0
  <2>1. MapOf(Global) \in LiveMaps
    BY GlobalAssumption, MapAtIsMap DEF GInv, SlotInv
  <2>2. \A m \in LiveMaps : m # 0
    <3>1. Len(maps) \in Nat
      BY LenProperties DEF GInv, SlotInv, HeapInv, IInv, TypeOK
    <3> QED BY <3>1 DEF LiveMaps
  <2> QED BY <2>1, <2>2
<1>2. Describes(loadSite[n], n) /\ Describes(storeSite[n], n)
      /\ (storeSite[n].map # 0 => maps[storeSite[n].map].table[n].attributes.writable)
  BY DEF GInv, SitesOK
<1> QED BY <1>1, <1>2 DEF Hit, Describes, MapAt

\* What Patch records is so.
LEMMA PatchDescribes ==
  ASSUME GInv, NEW n \in Names, ~IsVariable(n), HasOwn(Global, n),
         Own(n).attributes.type = "data"
  PROVE  /\ Describes(Patch(n), n)
         /\ n \in DOMAIN MapAt(Global).table
         /\ MapAt(Global).table[n].attributes = Own(n).attributes
         /\ Patch(n).map = MapOf(Global)
         /\ Patch(n).offset = MapAt(Global).table[n].offset
<1>1. n \in DOMAIN MapAt(Global).table /\ MapAt(Global).table[n].attributes = Own(n).attributes
  BY DEF HasOwn, Has, Own, OwnSlot, Entry, MapAt
<1>2. Patch(n).map = MapOf(Global) /\ Patch(n).offset = MapAt(Global).table[n].offset
  BY DEF Patch, Entry, MapAt
<1>3. MapOf(Global) \in LiveMaps
  BY GlobalAssumption, MapAtIsMap DEF GInv, SlotInv
<1> QED BY <1>1, <1>2, <1>3 DEF Describes, MapAt

-----------------------------------------------------------------------------
(* Steps                                                                   *)

\* DefineOwnProperty and a put of a variable.
LEMMA DefineVariableKeeps ==
  ASSUME GInv, NEW n \in Names, NEW d \in Descriptors, DefineVariable(n, d)
  PROVE  GInv' /\ ConstantsKept
<1>1. n \in DOMAIN variables /\ variables[n] \in StoredSlots
  BY DEF DefineVariable, IsVariable, GInv, VariablesOK
<1>2. Merge(variables[n], d) \in StoredSlots
  BY <1>1, MergeTyped
<1>3. Locked(variables[n]) => Merge(variables[n], d) = variables[n]
  BY <1>1, LockedMerge DEF DefineVariable, Locked
<1>4. variables' = [variables EXCEPT ![n] = Merge(variables[n], d)]
      /\ UNCHANGED hvars /\ UNCHANGED sites
  BY DEF DefineVariable, hvars, sites
<1> QED BY <1>1, <1>2, <1>3, <1>4, VariableStored

\* A store to a writable variable, direct or by another declaration.
LEMMA WriteVariableKeeps ==
  ASSUME GInv, NEW n \in Names, NEW v \in Values, IsVariable(n),
         variables[n].attributes.writable,
         variables' = [variables EXCEPT ![n].value = v], UNCHANGED hvars, UNCHANGED sites
  PROVE  GInv' /\ ConstantsKept
<1> DEFINE s == [variables[n] EXCEPT !.value = v]
<1>1. n \in DOMAIN variables /\ variables[n] \in StoredSlots
  BY DEF IsVariable, GInv, VariablesOK
<1>2. /\ variables[n] = [attributes |-> variables[n].attributes, value |-> variables[n].value]
      /\ variables[n].attributes \in StoredAttributes
  BY <1>1, StoredFields
<1>3. s = [attributes |-> variables[n].attributes, value |-> v]
  BY <1>2
<1>4. variables[n].attributes.type # "accessor"
  BY <1>2 DEF StoredAttributes
<1>5. s \in StoredSlots
  BY <1>2, <1>3, <1>4 DEF StoredSlots
<1>6. variables' = [variables EXCEPT ![n] = s] /\ ~Locked(variables[n])
  BY DEF Locked
<1> HIDE DEF s
<1> QED BY <1>1, <1>5, <1>6, VariableStored

\* var: the name is found nowhere on the chain, so the map does not have it.
LEMMA DeclareVariableKeeps ==
  ASSUME GInv, NEW n \in Names, DeclareVariable(n)
  PROVE  GInv' /\ ConstantsKept
<1>1. /\ ~IsVariable(n) /\ Holder(Global, n) = NoObject
      /\ variables' = Pushed(n, Undefined)
      /\ UNCHANGED hvars /\ UNCHANGED sites
  BY DEF DeclareVariable, hvars, sites
<1>2. SlotInv' /\ SitesOK' /\ Properties' = Properties
  BY <1>1, SameHeap DEF GInv
<1>3. ~HasOwn(Global, n)
  BY <1>1, GlobalAssumption, HeapAssumption, HolderSearch DEF GInv, SlotInv, Chain
<1>4. n \notin DOMAIN Properties[Global]
  BY <1>3, GlobalAssumption, DictionaryIsOwn
<1> QED BY <1>1, <1>2, <1>4, VariablePushed, DescriptorAssumption DEF Agree

\* function: what the map has under the name is deleted before it is declared.
LEMMA DeclareFunctionKeeps ==
  ASSUME GInv, NEW n \in Names, NEW f \in Functions, DeclareFunction(n, f)
  PROVE  GInv' /\ ConstantsKept
<1> DEFINE h == Holder(Global, n)
<1>1. /\ ~IsVariable(n) /\ variables' = Pushed(n, f) /\ UNCHANGED sites
      /\ IF h = Global THEN Delete(Global, n) ELSE UNCHANGED hvars
      /\ f \in Values /\ Global \in Objects /\ SlotInv
  BY GlobalAssumption DEF DeclareFunction, GInv
<1> HIDE DEF h
<1>2. CASE h = Global
  <2>1. Delete(Global, n)
    BY <1>1, <1>2
  <2>2. [Next]_hvars
    BY <1>1, <2>1 DEF Next, NamedStep
  <2>3. SlotInv' /\ AllStable
    BY <1>1, <2>2, StepSlots, StepKeeps DEF SlotInv, HeapInv
  <2>4. SitesOK'
    BY <1>1, <2>3, SitesStay DEF GInv
  <2>5. /\ \A q \in Objects, x \in Names : q # Global \/ x # n =>
             Agree(Properties[q], Properties'[q], x)
        /\ n \notin DOMAIN Properties'[Global]
    BY <1>1, <2>1, DeleteKeepsLocked
  <2>6. n \in DOMAIN Properties[Global] => ~Locked(Properties[Global][n])
    <3>1. OwnSlot(Global, n).attributes.configurable
      BY <2>1 DEF Delete, OwnSlot
    <3> QED BY <1>1, <3>1, DictionaryIsOwn DEF Locked
  <2> QED BY <1>1, <2>3, <2>4, <2>5, <2>6, VariablePushed
<1>3. CASE h # Global
  <2>1. SlotInv' /\ SitesOK' /\ Properties' = Properties
    BY <1>1, <1>3, SameHeap DEF GInv
  <2>2. ~HasOwn(Global, n)
    BY <1>1, <1>3, HolderSearch DEF GInv, SlotInv, Chain, h
  <2>3. n \notin DOMAIN Properties[Global]
    BY <1>1, <2>2, DictionaryIsOwn
  <2> QED BY <1>1, <2>1, <2>3, VariablePushed DEF Agree
<1> QED BY <1>2, <1>3

\* A load site is patched.
LEMMA LoadGlobalKeeps ==
  ASSUME GInv, NEW n \in Names, LoadGlobal(n)
  PROVE  GInv' /\ ConstantsKept
<1>1. /\ loadSite' = [loadSite EXCEPT ![n] = Patch(n)]
      /\ storeSite' = storeSite /\ variables' = variables /\ UNCHANGED hvars
      /\ ~IsVariable(n) /\ HasOwn(Global, n) /\ Own(n).attributes.type = "data"
  BY DEF LoadGlobal, hvars
<1>2. SlotInv' /\ AllStable /\ Properties' = Properties
  <2>1. SlotInv' /\ AllStable
    BY <1>1, StepSlots, StepKeeps DEF GInv, SlotInv, HeapInv
  <2> QED BY <1>1, <2>1 DEF hvars, Properties, View, MapAt, MapOf, Slots
<1>3. Describes(Patch(n), n)
  BY <1>1, PatchDescribes
<1>4. SitesOK'
  <2>1. \A x \in Names : Describes(loadSite'[x], x)
    BY <1>1, <1>3 DEF GInv, SitesOK
  <2>2. maps' = maps
    BY <1>1 DEF hvars
  <2> QED BY <1>1, <2>1, <2>2 DEF GInv, SitesOK, Describes, LiveMaps
<1>5. VariablesOK' /\ OneHome'
  BY <1>1, <1>2, HomesApart DEF GInv, VariablesOK
<1>6. ConstantsKept
  BY <1>1, <1>2 DEF ConstantsKept, KeepsLocked
<1> QED BY <1>2, <1>4, <1>5, <1>6 DEF GInv

\* A store site that hits.
LEMMA StoreGlobalHitKeeps ==
  ASSUME GInv, NEW n \in Names, NEW v \in Values, StoreGlobalHit(n, v)
  PROVE  GInv' /\ ConstantsKept
<1>1. /\ n \in DOMAIN MapAt(Global).table
      /\ MapAt(Global).table[n].attributes.type = "data"
      /\ MapAt(Global).table[n].attributes.writable
      /\ Direct(MapAt(Global).table[n].offset, v)
      /\ storeSite' = storeSite /\ loadSite' = loadSite
  BY HitDescribes DEF StoreGlobalHit, Direct
<1>2. /\ SlotInv' /\ OneHome' /\ VariablesOK' /\ ConstantsKept
      /\ maps' = maps /\ variables' = variables
  BY <1>1, DirectStores
<1>3. SitesOK'
  BY <1>1, <1>2 DEF GInv, SitesOK, Describes, LiveMaps
<1> QED BY <1>2, <1>3 DEF GInv

\* A store site that is patched stores as well.
LEMMA StoreGlobalKeeps ==
  ASSUME GInv, NEW n \in Names, NEW v \in Values, StoreGlobal(n, v)
  PROVE  GInv' /\ ConstantsKept
<1>1. /\ ~IsVariable(n) /\ HasOwn(Global, n)
      /\ Own(n).attributes.type = "data" /\ Own(n).attributes.writable
      /\ storeSite' = [storeSite EXCEPT ![n] = Patch(n)] /\ loadSite' = loadSite
      /\ Direct(Patch(n).offset, v)
  BY DEF StoreGlobal, Direct
<1>2. /\ Describes(Patch(n), n)
      /\ n \in DOMAIN MapAt(Global).table
      /\ MapAt(Global).table[n].attributes = Own(n).attributes
      /\ Patch(n).map = MapOf(Global)
      /\ Patch(n).offset = MapAt(Global).table[n].offset
  BY <1>1, PatchDescribes
<1>3. /\ SlotInv' /\ OneHome' /\ VariablesOK' /\ ConstantsKept
      /\ maps' = maps /\ variables' = variables
  BY <1>1, <1>2, DirectStores
<1>4. maps[Patch(n).map].table[n].attributes.writable
  BY <1>1, <1>2 DEF MapAt
<1>5. \A x \in Names :
        /\ Describes(storeSite'[x], x)
        /\ storeSite'[x].map # 0 => maps[storeSite'[x].map].table[x].attributes.writable
  BY <1>1, <1>2, <1>4 DEF GInv, SitesOK
<1>6. SitesOK'
  BY <1>1, <1>3, <1>5 DEF GInv, SitesOK, Describes, LiveMaps
<1> QED BY <1>3, <1>6 DEF GInv

\* Every step of the global object's code keeps the invariant and the constants.
LEMMA GlobalStepKeeps ==
  ASSUME GInv, [GNext]_gvars
  PROVE  GInv' /\ ConstantsKept
<1>1. CASE UNCHANGED gvars
  <2>1. UNCHANGED hvars /\ UNCHANGED sites /\ variables' = variables
    BY <1>1 DEF gvars, hvars, sites
  <2>2. SlotInv' /\ SitesOK' /\ Properties' = Properties
    BY <2>1, SameHeap DEF GInv
  <2>3. VariablesOK' /\ OneHome'
    BY <2>1, <2>2, HomesApart DEF GInv, VariablesOK
  <2> QED BY <2>1, <2>2, <2>3 DEF GInv, ConstantsKept, KeepsLocked
<1>2. CASE Ordinary
  BY <1>2, OrdinaryKeeps
<1>3. ASSUME NEW n \in Names, DeclareVariable(n)
      PROVE  GInv' /\ ConstantsKept
  BY <1>3, DeclareVariableKeeps
<1>4. ASSUME NEW n \in Names, NEW f \in Functions, DeclareFunction(n, f)
      PROVE  GInv' /\ ConstantsKept
  BY <1>4, DeclareFunctionKeeps
<1>5. ASSUME NEW n \in Names, NEW f \in Functions, RedeclareFunction(n, f)
      PROVE  GInv' /\ ConstantsKept
  BY <1>5, GlobalAssumption, WriteVariableKeeps DEF RedeclareFunction, hvars, sites
<1>6. ASSUME NEW n \in Names, NEW d \in Inputs, DefineVariable(n, d)
      PROVE  GInv' /\ ConstantsKept
  BY <1>6, HeapAssumption, DefineVariableKeeps
<1>7. ASSUME NEW n \in Names, NEW v \in PutValues,
             PutVariable(n, v) \/ StoreDirect(n, v) \/ StoreGlobalHit(n, v) \/ StoreGlobal(n, v)
      PROVE  GInv' /\ ConstantsKept
  <2>1. v \in Values
    BY HeapAssumption
  <2>2. CASE PutVariable(n, v)
    <3>1. ValueOnly(v) \in Descriptors
      BY <2>1, DescriptorAssumption DEF ValueOnly, Descriptors, DataDescriptors, Flag
    <3> QED BY <2>2, <3>1, DefineVariableKeeps DEF PutVariable
  <2>3. CASE StoreDirect(n, v)
    BY <2>1, <2>3, WriteVariableKeeps DEF StoreDirect, hvars, sites
  <2> QED BY <1>7, <2>1, <2>2, <2>3, StoreGlobalHitKeeps, StoreGlobalKeeps
<1>8. ASSUME NEW n \in Names, LoadGlobal(n)
      PROVE  GInv' /\ ConstantsKept
  BY <1>8, LoadGlobalKeeps
<1> QED BY <1>1, <1>2, <1>3, <1>4, <1>5, <1>6, <1>7, <1>8 DEF GNext

\* The invariant of the global object holds of every reachable state.
LEMMA GlobalInvariance == GSpec => []GInv
<1>1. GInit => GInv
  <2> SUFFICES ASSUME GInit PROVE GInv
    OBVIOUS
  <2>1. SlotInv
    BY InitSlots DEF GInit
  <2>2. DOMAIN variables = {}
    BY DEF GInit
  <2>3. \A n \in Names : loadSite[n].map = 0 /\ storeSite[n].map = 0
    BY DEF GInit, NotPatched
  <2>4. SitesOK
    BY <2>3 DEF GInit, SitesOK, Describes
  <2> QED BY <2>1, <2>2, <2>4 DEF GInv, VariablesOK, OneHome
<1>2. GInv /\ [GNext]_gvars => GInv'
  BY GlobalStepKeeps
<1> QED BY <1>1, <1>2, PTL DEF GSpec

-----------------------------------------------------------------------------
(* Theorems                                                                *)

\* However declarations, definitions and deletions follow each other, a global
\* name is a variable or a property of the map, never both.
THEOREM GlobalsHaveOneHome == GSpec => []OneHome
<1>1. GInv => OneHome
  BY DEF GInv
<1> QED BY <1>1, GlobalInvariance, PTL

\* However many sites there are and whatever happened since they were patched,
\* a GlobalIC whose map is the global object's answers as the full lookup, and
\* one that stores does so at a writable data property.
THEOREM GlobalSitesAnswer == GSpec => []GlobalICSound
<1>1. GInv => GlobalICSound
  <2> SUFFICES ASSUME GInv, NEW n \in Names
               PROVE  /\ Hit(loadSite[n]) =>
                           /\ ~IsVariable(n) /\ HasOwn(Global, n)
                           /\ Entry(MapOf(Global), n).attributes.type = "data"
                           /\ Entry(MapOf(Global), n).offset = loadSite[n].offset
                      /\ Hit(storeSite[n]) =>
                           /\ ~IsVariable(n) /\ HasOwn(Global, n)
                           /\ Entry(MapOf(Global), n).attributes.type = "data"
                           /\ Entry(MapOf(Global), n).offset = storeSite[n].offset
                           /\ Entry(MapOf(Global), n).attributes.writable
    BY DEF GlobalICSound
  <2>1. n \in DOMAIN MapAt(Global).table => ~IsVariable(n) /\ HasOwn(Global, n)
    BY DEF GInv, OneHome, IsVariable, HasOwn, Has, MapAt
  <2> QED BY <2>1, HitDescribes DEF Entry, MapAt
<1> QED BY <1>1, GlobalInvariance, PTL

\* No definition, assignment, declaration, direct or cached store changes a
\* global that is neither configurable nor writable, whichever home it has.
THEOREM GlobalConstantsStayPut == GSpec => GlobalConstantsStay
<1> DEFINE Stays == \A n \in Names :
                      LET s == Own(n)
                      IN (IsVariable(n) \/ HasOwn(Global, n)) =>
                         (~s.attributes.configurable /\ ~s.attributes.writable =>
                            /\ IsVariable(n)' \/ HasOwn(Global, n)'
                            /\ Own(n)' = s)
<1>1. GInv /\ [GNext]_gvars => [Stays]_gvars
  <2> SUFFICES ASSUME GInv, [GNext]_gvars, NEW n \in Names,
                      IsVariable(n) \/ HasOwn(Global, n), Locked(Own(n))
               PROVE  (IsVariable(n)' \/ HasOwn(Global, n)') /\ Own(n)' = Own(n)
    BY DEF Locked
  <2>1. ConstantsKept /\ OneHome'
    BY GlobalStepKeeps DEF GInv
  <2>2. CASE IsVariable(n)
    <3>1. n \in DOMAIN variables' /\ variables'[n] = variables[n]
      BY <2>1, <2>2 DEF ConstantsKept, KeepsLocked, IsVariable, Own
    <3> QED BY <2>2, <3>1 DEF IsVariable, Own
  <2>3. CASE ~IsVariable(n)
    <3>1. HasOwn(Global, n) /\ Own(n) = OwnSlot(Global, n) /\ Global \in Objects
      BY <2>3, GlobalAssumption DEF Own
    <3>2. n \in DOMAIN Properties[Global] /\ Properties[Global][n] = Own(n)
      BY <3>1, DictionaryIsOwn
    <3>3. n \in DOMAIN Properties'[Global] /\ Properties'[Global][n] = Own(n)
      BY <2>1, <3>2 DEF ConstantsKept, KeepsLocked
    <3>4. HasOwn(Global, n)' /\ OwnSlot(Global, n)' = Own(n)
      BY <3>1, <3>3, DictionaryIsOwn
    <3>5. ~IsVariable(n)'
      BY <2>1, <3>3, HomesApart DEF IsVariable
    <3> QED BY <3>4, <3>5 DEF Own
  <2> QED BY <2>2, <2>3
<1> QED BY <1>1, GlobalInvariance, PTL DEF GSpec, GlobalConstantsStay
=============================================================================
