---------------------------- MODULE ObjectModel ----------------------------
(***************************************************************************)
(* What ECMAScript 5 (8.6 and 8.12) promises of objects with named         *)
(* properties: each object is a dictionary of its own.  No map, no slot    *)
(* and no cache; this is what HiddenClass and InlineCache implement.       *)
(***************************************************************************)
EXTENDS PropertyDescriptor

CONSTANTS Objects, NoObject, Names, Inputs, PutValues, Prototypes

VARIABLES
  properties,  \* per object, its own properties by name
  prototype,   \* [[Prototype]]
  extensible   \* [[Extensible]]

ovars == <<properties, prototype, extensible>>

Own(o, n) == n \in DOMAIN properties[o]

\* [[GetProperty]]
OwnerOf(o, n) ==
  LET find[x \in Objects \cup {NoObject}] ==
        IF x = NoObject \/ Own(x, n) THEN x ELSE find[prototype[x]]
  IN find[o]

Store(o, n, s) ==
  /\ properties' = [properties EXCEPT ![o] =
                      [x \in DOMAIN @ \cup {n} |-> IF x = n THEN s ELSE @[x]]]
  /\ UNCHANGED <<prototype, extensible>>

\* [[DefineOwnProperty]], when it is not refused
Define(o, n, d) ==
  \/ /\ Own(o, n)
     /\ SpecAllows(properties[o][n], d)
     /\ Store(o, n, SpecChanged(properties[o][n], d))
  \/ /\ ~Own(o, n)
     /\ extensible[o]
     /\ Store(o, n, NewSlot(d))

\* [[Put]] of a value that ends in a data property of the object itself
Assign(o, n, v) ==
  LET h == OwnerOf(o, n)
      s == properties[h][n]
  IN /\ \/ h = NoObject
        \/ h # NoObject /\ s.attributes.type = "data" /\ s.attributes.writable
     /\ \/ /\ h = o
           /\ Store(o, n, [s EXCEPT !.value = v])
        \/ /\ h # o
           /\ extensible[o]
           /\ Store(o, n, [attributes |-> [type |-> "data", writable |-> TRUE,
                                           enumerable |-> TRUE, configurable |-> TRUE],
                           value |-> v])

\* [[Delete]]
Remove(o, n) ==
  /\ Own(o, n)
  /\ properties[o][n].attributes.configurable
  /\ properties' = [properties EXCEPT ![o] = [x \in DOMAIN @ \ {n} |-> @[x]]]
  /\ UNCHANGED <<prototype, extensible>>

SetPrototype(o, p) ==
  /\ extensible[o]
  /\ prototype' = [prototype EXCEPT ![o] = p]
  /\ UNCHANGED <<properties, extensible>>

Close(o) ==
  /\ extensible' = [extensible EXCEPT ![o] = FALSE]
  /\ UNCHANGED <<properties, prototype>>

OInit ==
  /\ \A o \in Objects : DOMAIN properties[o] \subseteq Names
  /\ prototype \in [Objects -> Objects \cup {NoObject}]
  /\ extensible = [o \in Objects |-> TRUE]

ONext ==
  \E o \in Objects :
    \/ \E n \in Names :
         \/ \E d \in Inputs : Define(o, n, d)
         \/ \E v \in PutValues : Assign(o, n, v)
         \/ Remove(o, n)
    \/ \E p \in Prototypes : SetPrototype(o, p)
    \/ Close(o)

OSpec == OInit /\ [][ONext]_ovars
=============================================================================
