-------------------------- MODULE DescriptorMachine --------------------------
(***************************************************************************)
(* One property of one object under any sequence of Object.defineProperty, *)
(* delete and Object.preventExtensions calls: the part of                  *)
(* JSObject::DefineOwnNonIndexedPropertySlotMethod and                     *)
(* DeleteNonIndexedMethod that does not depend on where the slot lives.    *)
(***************************************************************************)
EXTENDS PropertyDescriptor

CONSTANT
  NotFound,    \* the object has no such property
  Passed       \* the descriptors scripts pass, a subset of Descriptors

ASSUME PassedAssumption == Passed \subseteq Descriptors /\ NotFound \notin StoredSlots

VARIABLES
  slot,        \* the stored property, or NotFound
  open,        \* kFlagExtensible
  returned     \* what the last DefineOwnProperty or Delete returned

dvars == <<slot, open, returned>>

DInit ==
  /\ slot = NotFound
  /\ open = TRUE
  /\ returned = TRUE

\* Not found: a new slot, refused when the object is not extensible.
DefineNew(d) ==
  /\ slot = NotFound
  /\ returned' = open
  /\ slot' = IF open THEN NewSlot(d) ELSE slot
  /\ UNCHANGED open

\* Found: merged when accepted.
DefineExisting(d) ==
  /\ slot # NotFound
  /\ returned' = Returned(slot, d)
  /\ slot' = IF IsDefineOwnPropertyAccepted(slot, d) THEN Merge(slot, d) ELSE slot
  /\ UNCHANGED open

\* Mutant: [[Configurable]] is not looked at.
DeleteSlotUnchecked ==
  /\ slot # NotFound
  /\ returned' = TRUE
  /\ slot' = NotFound
  /\ UNCHANGED open

DeleteSlot ==
  /\ slot # NotFound
  /\ returned' = slot.attributes.configurable
  /\ slot' = IF slot.attributes.configurable THEN NotFound ELSE slot
  /\ UNCHANGED open

CloseObject ==
  /\ open' = FALSE
  /\ UNCHANGED <<slot, returned>>

DNext ==
  \/ \E d \in Passed : DefineNew(d) \/ DefineExisting(d)
  \/ DeleteSlot
  \/ CloseObject

DSpec == DInit /\ [][DNext]_dvars

-----------------------------------------------------------------------------
(* Properties                                                              *)

\* Type correctness of the property and of the object's flag.
TypeOK ==
  /\ slot \in StoredSlots \cup {NotFound}
  /\ open \in BOOLEAN
  /\ returned \in BOOLEAN

\* Whatever was defined before, IsDefineOwnPropertyAccepted answers exactly
\* the descriptors ECMAScript 5, 8.12.9 allows: the chain of early returns and
\* of REJECTs is neither too strict nor too lax.
AcceptanceMatchesES5 ==
  slot # NotFound =>
    \A d \in Passed : Returned(slot, d) <=> SpecAllows(slot, d)

\* Merge turns the property into what 8.12.9 says, whatever the two kinds are,
\* for an accessor given a value or staying an accessor.
MergeMatchesES5WithValue ==
  slot # NotFound =>
    \A d \in Passed :
      /\ IsDefineOwnPropertyAccepted(slot, d)
      /\ ~(slot.attributes.type = "accessor" /\ d.type = "data" /\ d.value = Absent)
      /\ slot.attributes.type = "data" => slot.value \in Values
      => Merge(slot, d) = SpecChanged(slot, d)

\* The same without the exception: what the comment on
\* DefineOwnNonIndexedPropertySlotMethod names, [[DefineOwnProperty]].
MergeMatchesES5 ==
  slot # NotFound =>
    \A d \in Passed :
      IsDefineOwnPropertyAccepted(slot, d) => Merge(slot, d) = SpecChanged(slot, d)

\* Over any sequence of calls, a property that is not configurable is never
\* removed, becomes neither configurable nor of the other kind, and once it is
\* read-only (or an accessor) it never changes again.
LockedForever ==
  [][(slot # NotFound /\ ~slot.attributes.configurable) =>
       /\ slot' # NotFound
       /\ [slot'.attributes EXCEPT !.writable = slot.attributes.writable]
            = slot.attributes
       /\ ~slot.attributes.writable => slot' = slot]_dvars
=============================================================================
