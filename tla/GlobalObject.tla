---------------------------- MODULE GlobalObject ----------------------------
(***************************************************************************)
(* The global object (lv5/jsglobal.h).  Besides the named properties every *)
(* object has it keeps the variables and functions that global code        *)
(* declares in variables_, so that compiled code can point at the slot of  *)
(* a variable, and code that names a global which is not a variable has a  *)
(* monomorphic cache (GlobalIC of breaker/mono_ic.h, LOAD_GLOBAL and       *)
(* STORE_GLOBAL of breaker/stub.cc).  A cache guards only the object's map *)
(* and a declaration does not change it.                                   *)
(***************************************************************************)
EXTENDS HiddenClass

CONSTANTS
  Global,     \* the global object, one of Objects
  Functions   \* values of function declarations

ASSUME GlobalAssumption == Global \in Objects /\ Functions \subseteq Values

VARIABLES
  variables,  \* JSGlobal::variables_, by name
  loadSite,   \* per name, what the GlobalIC of a load site is patched with
  storeSite   \* the same for a store site

gvars == <<maps, objs, variables, loadSite, storeSite>>

sites == <<loadSite, storeSite>>

IsVariable(n) == n \in DOMAIN variables
Own(n) == IF IsVariable(n) THEN variables[n] ELSE OwnSlot(Global, n)

-----------------------------------------------------------------------------
(* Variables.  JSGlobal overrides the methods for own properties.          *)

\* PushVariable, with the attributes of a declaration: not configurable.
Pushed(n, v) ==
  With(variables, n, [attributes |-> [type |-> "data", writable |-> TRUE,
                                      enumerable |-> TRUE, configurable |-> FALSE],
                      value |-> v])

\* DefineOwnNonIndexedPropertySlotMethod of a name in variables_
DefineVariable(n, d) ==
  /\ IsVariable(n)
  /\ IsDefineOwnPropertyAccepted(variables[n], d)
  /\ variables' = [variables EXCEPT ![n] = Merge(@, d)]
  /\ UNCHANGED <<maps, objs, sites>>

PutVariable(n, v) ==
  /\ IsVariable(n)
  /\ variables[n].attributes.writable
  /\ DefineVariable(n, ValueOnly(v))

\* Mutant: a read-only variable is written.
StoreDirectUnchecked(n, v) ==
  /\ IsVariable(n)
  /\ variables' = [variables EXCEPT ![n].value = v]
  /\ UNCHANGED <<maps, objs, sites>>

\* STORE_GLOBAL_DIRECT, code that was compiled when the variable existed.
StoreDirect(n, v) ==
  /\ IsVariable(n)
  /\ variables[n].attributes.writable
  /\ variables' = [variables EXCEPT ![n].value = v]
  /\ UNCHANGED <<maps, objs, sites>>

-----------------------------------------------------------------------------
(* GlobalInstantiation of railgun/compiler.h, one declaration at a time    *)

DeclareVariable(n) ==
  /\ ~IsVariable(n)
  /\ Holder(Global, n) = NoObject
  /\ variables' = Pushed(n, Undefined)
  /\ UNCHANGED <<maps, objs, sites>>

\* Mutant: the property is not deleted.
DeclareFunctionBeside(n, f) ==
  LET h == Holder(Global, n)
  IN /\ ~IsVariable(n)
     /\ h # NoObject => OwnSlot(h, n).attributes.configurable
     /\ variables' = Pushed(n, f)
     /\ UNCHANGED <<maps, objs, sites>>

\* A function replaces a configurable property: Delete takes it from the map.
\* One that is not configurable stops the declaration (an error, or nothing).
DeclareFunction(n, f) ==
  LET h == Holder(Global, n)
  IN /\ ~IsVariable(n)
     /\ h # NoObject => OwnSlot(h, n).attributes.configurable
     /\ IF h = Global THEN Delete(Global, n) ELSE UNCHANGED hvars
     /\ variables' = Pushed(n, f)
     /\ UNCHANGED sites

RedeclareFunction(n, f) ==
  /\ IsVariable(n)
  /\ variables[n].attributes.writable /\ variables[n].attributes.enumerable
  /\ variables' = [variables EXCEPT ![n].value = f]
  /\ UNCHANGED <<maps, objs, sites>>

-----------------------------------------------------------------------------
(* GlobalIC                                                                *)

NotPatched == [map |-> 0, offset |-> 0]
Hit(site) == site.map = MapOf(Global)
Patch(n) == [map |-> MapOf(Global), offset |-> Entry(MapOf(Global), n).offset]

\* The slot is cacheable when it is a data property of the map.
LoadGlobal(n) ==
  /\ ~Hit(loadSite[n])
  /\ ~IsVariable(n) /\ HasOwn(Global, n)
  /\ Own(n).attributes.type = "data"
  /\ loadSite' = [loadSite EXCEPT ![n] = Patch(n)]
  /\ UNCHANGED <<maps, objs, variables, storeSite>>

\* global->Direct(offset) = src, in machine code or in the stub.
Direct(offset, v) ==
  /\ objs' = [objs EXCEPT ![Global].slots[offset] = v]
  /\ UNCHANGED <<maps, variables, loadSite>>

StoreGlobalHit(n, v) ==
  /\ Hit(storeSite[n])
  /\ Direct(storeSite[n].offset, v)
  /\ UNCHANGED storeSite

\* Mutant: whether a load may be cached decides for the store.
StoreGlobalReadOnly(n, v) ==
  /\ ~Hit(storeSite[n])
  /\ ~IsVariable(n) /\ HasOwn(Global, n)
  /\ Own(n).attributes.type = "data"
  /\ storeSite' = [storeSite EXCEPT ![n] = Patch(n)]
  /\ Direct(Patch(n).offset, v)

StoreGlobal(n, v) ==
  /\ ~Hit(storeSite[n])
  /\ ~IsVariable(n) /\ HasOwn(Global, n)
  /\ Own(n).attributes.type = "data" /\ Own(n).attributes.writable
  /\ storeSite' = [storeSite EXCEPT ![n] = Patch(n)]
  /\ Direct(Patch(n).offset, v)

-----------------------------------------------------------------------------
GInit ==
  /\ Init
  /\ variables = <<>>
  /\ loadSite = [n \in Names |-> NotPatched]
  /\ storeSite = [n \in Names |-> NotPatched]

Ordinary ==
  /\ \E o \in Objects :
       \/ ObjectStep(o)
       \/ \E n \in Names : (o = Global => ~IsVariable(n)) /\ NamedStep(o, n)
  /\ UNCHANGED <<variables, sites>>

GNext ==
  \/ Ordinary
  \/ \E n \in Names :
       \/ DeclareVariable(n)
       \/ \E f \in Functions : DeclareFunction(n, f) \/ RedeclareFunction(n, f)
       \/ \E d \in Inputs : DefineVariable(n, d)
       \/ \E v \in PutValues :
            PutVariable(n, v) \/ StoreDirect(n, v) \/ StoreGlobalHit(n, v) \/ StoreGlobal(n, v)
       \/ LoadGlobal(n)

GSpec == GInit /\ [][GNext]_gvars

-----------------------------------------------------------------------------
(* Properties                                                              *)

\* A variable never hides a property that is still in the map: a name has one
\* home, although the two are created by different code on different paths.
OneHome == DOMAIN variables \cap DOMAIN maps[MapOf(Global)].table = {}

\* A patched site whose map is the global object's reads, or writes, what the
\* full lookup of its name finds: a property of the map, at that offset, a data
\* property and for a store a writable one, not a variable declared since.
GlobalICSound ==
  \A n \in Names :
    LET found(site) == /\ ~IsVariable(n)
                       /\ HasOwn(Global, n)
                       /\ Entry(MapOf(Global), n).attributes.type = "data"
                       /\ Entry(MapOf(Global), n).offset = site.offset
    IN /\ Hit(loadSite[n]) => found(loadSite[n])
       /\ Hit(storeSite[n]) =>
            found(storeSite[n]) /\ Entry(MapOf(Global), n).attributes.writable

\* Whichever way it is written (defineProperty, a put, a cached or a direct
\* store, another declaration), a global that is neither configurable nor
\* writable keeps its value and its attributes.
GlobalConstantsStay ==
  [][\A n \in Names :
       LET s == Own(n)
       IN (IsVariable(n) \/ HasOwn(Global, n)) =>
          (~s.attributes.configurable /\ ~s.attributes.writable =>
             /\ IsVariable(n)' \/ HasOwn(Global, n)'
             /\ Own(n)' = s)]_gvars
=============================================================================
