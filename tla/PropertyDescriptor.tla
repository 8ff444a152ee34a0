------------------------- MODULE PropertyDescriptor -------------------------
(***************************************************************************)
(* One named property and the descriptors applied to it: the attribute     *)
(* bits of lv5/attributes.h, PropertyDescriptor and StoredSlot of          *)
(* lv5/property_fwd.h and lv5/property.h.                                  *)
(*                                                                         *)
(* A bit pair such as CONFIGURABLE / UNDEF_CONFIGURABLE is one field whose *)
(* value is TRUE, FALSE or Absent.  The type bits DATA and ACCESSOR are    *)
(* the field "type".                                                       *)
(***************************************************************************)
CONSTANTS
  Values,      \* ECMAScript values a data property may hold
  Callables,   \* functions usable as getter or setter
  Undefined,   \* JSUndefined, a member of Values
  Null,        \* nullptr in the place of a getter or a setter
  Absent       \* an UNDEF_xxx bit is set

ASSUME DescriptorAssumption ==
  /\ Undefined \in Values
  /\ Null \notin Callables
  /\ Absent \notin Values \cup Callables \cup BOOLEAN \cup {Null}

Flag == BOOLEAN \cup {Absent}
Callee == Callables \cup {Null}

-----------------------------------------------------------------------------
(* Descriptors, as ToPropertyDescriptor builds them from an object.        *)

DataDescriptors ==
  {d \in [type : {"data"}, configurable : Flag, enumerable : Flag,
          writable : Flag, value : Values \cup {Absent}] :
     d.writable # Absent \/ d.value # Absent}

AccessorDescriptors ==
  {d \in [type : {"accessor"}, configurable : Flag, enumerable : Flag,
          get : Callee \cup {Absent}, set : Callee \cup {Absent}] :
     d.get # Absent \/ d.set # Absent}

GenericDescriptors ==
  [type : {"generic"}, configurable : Flag, enumerable : Flag]

Descriptors == DataDescriptors \cup AccessorDescriptors \cup GenericDescriptors

IsAbsent(d) ==
  d.type = "generic" /\ d.configurable = Absent /\ d.enumerable = Absent

\* A stored property: no absent field is left (Attributes::IsStored), an
\* accessor is never writable and its value is the Accessor cell.
Accessors == [get : Callee, set : Callee]

StoredAttributes ==
  {a \in [type : {"data", "accessor"}, writable : BOOLEAN,
          enumerable : BOOLEAN, configurable : BOOLEAN] :
     a.type = "accessor" => ~a.writable}

StoredSlots ==
  {s \in [attributes : StoredAttributes, value : Values \cup Accessors] :
     s.attributes.type = "accessor" => s.value \in Accessors}

-----------------------------------------------------------------------------
(* StoredSlot                                                              *)

\* An absent field says nothing; any other must equal what is stored.
Agrees(field, stored) == field \in {Absent, stored}

OrNull(callee) == IF callee = Absent THEN Null ELSE callee

MergeWithNoEffect(s, d) ==
  /\ Agrees(d.configurable, s.attributes.configurable)
  /\ Agrees(d.enumerable, s.attributes.enumerable)
  /\ d.type = s.attributes.type
  /\ \/ /\ d.type = "data"
        /\ Agrees(d.writable, s.attributes.writable)
        /\ Agrees(d.value, s.value)
     \/ /\ d.type = "accessor"
        /\ OrNull(d.get) = s.value.get
        /\ OrNull(d.set) = s.value.set

\* Mutant: [[Enumerable]] of a property that is not configurable is not checked.
RejectedButEnumerable(s, d) ==
  /\ ~s.attributes.configurable
  /\ \/ d.configurable = TRUE
     \/ d.type # "generic" /\ d.type # s.attributes.type
     \/ /\ d.type = "data" /\ s.attributes.type = "data" /\ ~s.attributes.writable
        /\ d.writable = TRUE \/ d.value # s.value
     \/ /\ d.type = "accessor" /\ s.attributes.type = "accessor"
        /\ ~Agrees(d.set, s.value.set) \/ ~Agrees(d.get, s.value.get)

\* The REJECTs of step 7 to 11.
Rejected(s, d) ==
  /\ ~s.attributes.configurable
  /\ \/ d.configurable = TRUE
     \/ ~Agrees(d.enumerable, s.attributes.enumerable)
     \/ d.type # "generic" /\ d.type # s.attributes.type
     \/ /\ d.type = "data" /\ s.attributes.type = "data"
        /\ ~s.attributes.writable
        /\ d.writable = TRUE \/ d.value # s.value
     \/ /\ d.type = "accessor" /\ s.attributes.type = "accessor"
        /\ ~Agrees(d.set, s.value.set) \/ ~Agrees(d.get, s.value.get)

\* IsDefineOwnPropertyAccepted returns whether to go on and merge, and
\* through "returned" what [[DefineOwnProperty]] answers.
Unchanged(s, d) == IsAbsent(d) \/ MergeWithNoEffect(s, d)
IsDefineOwnPropertyAccepted(s, d) == ~Unchanged(s, d) /\ ~Rejected(s, d)
Returned(s, d) == Unchanged(s, d) \/ ~Rejected(s, d)

Or(field, stored) == IF field = Absent THEN stored ELSE field

\* Mutant: an accessor is replaced as a whole, not half by half.
MergeNewAccessor(s, d) ==
  LET kept == [s.attributes EXCEPT !.configurable = Or(d.configurable, @),
                                   !.enumerable = Or(d.enumerable, @)]
  IN CASE d.type = "generic" -> [s EXCEPT !.attributes = kept]
       [] d.type = "data" ->
            [attributes |-> [kept EXCEPT !.type = "data", !.writable = Or(d.writable, @)],
             value |-> Or(d.value, s.value)]
       [] d.type = "accessor" ->
            [attributes |-> [kept EXCEPT !.type = "accessor", !.writable = FALSE],
             value |-> [get |-> OrNull(d.get), set |-> OrNull(d.set)]]

Merge(s, d) ==
  LET base == [s EXCEPT !.attributes.configurable = Or(d.configurable, @),
                        !.attributes.enumerable = Or(d.enumerable, @)]
  IN CASE d.type = "generic" -> base
       [] d.type = "data" ->
            [base EXCEPT !.attributes.type = "data",
                         !.attributes.writable = Or(d.writable, @),
                         !.value = Or(d.value, @)]
       [] d.type = "accessor" ->
            LET cell == IF s.attributes.type = "accessor"
                        THEN s.value
                        ELSE [get |-> Null, set |-> Null]
            IN [base EXCEPT !.attributes.type = "accessor",
                            !.attributes.writable = FALSE,
                            !.value = [get |-> Or(d.get, cell.get),
                                       set |-> Or(d.set, cell.set)]]

\* Mutant: an absent getter or setter is stored as it is.
NewSlotUnfilled(d) ==
  [attributes |-> [type |-> IF d.type = "accessor" THEN "accessor" ELSE "data",
                   writable |-> d.type = "data" /\ d.writable = TRUE,
                   enumerable |-> d.enumerable = TRUE,
                   configurable |-> d.configurable = TRUE],
   value |-> CASE d.type = "accessor" -> [get |-> d.get, set |-> d.set]
               [] d.type = "data"     -> Or(d.value, Undefined)
               [] d.type = "generic"  -> Undefined]

\* The constructor StoredSlot(ctx, desc): a new property.
NewSlot(d) ==
  [attributes |->
     [type |-> IF d.type = "accessor" THEN "accessor" ELSE "data",
      writable |-> d.type = "data" /\ d.writable = TRUE,
      enumerable |-> d.enumerable = TRUE,
      configurable |-> d.configurable = TRUE],
   value |->
     CASE d.type = "accessor" -> [get |-> OrNull(d.get), set |-> OrNull(d.set)]
       [] d.type = "data"     -> Or(d.value, Undefined)
       [] d.type = "generic"  -> Undefined]

-----------------------------------------------------------------------------
(* Reference: ECMAScript 5, 8.12.9 [[DefineOwnProperty]] from step 5 on,   *)
(* written from the properties' point of view rather than the code's.      *)

\* What the fields of a descriptor would make of a property: absent fields
\* keep the old value within a kind and take the default across kinds.
SpecChanged(s, d) ==
  LET kind == IF d.type = "generic" THEN s.attributes.type ELSE d.type
      same == kind = s.attributes.type
  IN [attributes |->
        [type |-> kind,
         writable |-> IF kind = "accessor" THEN FALSE
                      ELSE IF d.type = "data" /\ d.writable # Absent
                           THEN d.writable
                           ELSE same /\ s.attributes.writable,
         enumerable |-> Or(d.enumerable, s.attributes.enumerable),
         configurable |-> Or(d.configurable, s.attributes.configurable)],
      value |->
        IF kind = "accessor"
        THEN LET old == IF same THEN s.value ELSE [get |-> Null, set |-> Null]
             IN IF d.type = "generic" THEN old
                ELSE [get |-> Or(d.get, old.get), set |-> Or(d.set, old.set)]
        ELSE LET old == IF same THEN s.value ELSE Undefined
             IN IF d.type = "generic" THEN old ELSE Or(d.value, old)]

\* A property that is not configurable may only stay as it is, except that a
\* writable data property may still change its value or become read-only.
SpecAllows(s, d) ==
  LET t == SpecChanged(s, d)
  IN \/ s.attributes.configurable
     \/ t = s
     \/ /\ s.attributes.type = "data" /\ s.attributes.writable
        /\ t.attributes \in {s.attributes, [s.attributes EXCEPT !.writable = FALSE]}
=============================================================================
