----------------------------- MODULE SharedLemmas -----------------------------
(***************************************************************************)
(* Lemmas that the proofs of several components need: about numbers, for   *)
(* the capacities of storage, and what the constructor of StoredSlot,      *)
(* StoredSlot::Merge and IsDefineOwnPropertyAccepted make of a property,   *)
(* whatever the descriptor.                                                *)
(***************************************************************************)
EXTENDS PropertyDescriptor, Integers, FiniteSetTheorems, WellFoundedInduction, TLAPS

-----------------------------------------------------------------------------
(* Numbers                                                                 *)

\* A set of natural numbers that has one has a smallest one.
LEMMA LeastNatural ==
  ASSUME NEW T, T \subseteq Nat, T # {}
  PROVE  \E p \in T : \A q \in T : p <= q
<1> DEFINE R == OpToRel(<, Nat)
           Less == {s \in Nat \X Nat : s[1] < s[2]}
<1>1. R = Less
  BY DEF OpToRel
<1>2. IsWellFoundedOn(R, Nat)
  BY NatLessThanWellFounded
<1> HIDE DEF R
<1>3. PICK p \in T : \A q \in T : ~(<<q, p>> \in R)
  BY <1>2, WFMin
<1>4. ASSUME NEW q \in T PROVE p <= q
  <2>1. <<q, p>> \notin Less
    BY <1>1, <1>3
  <2>2. ~(q < p)
    BY <2>1
  <2> QED BY <2>2
<1> QED BY <1>4

\* A power of two that is at least n: a set has as many members as subsets of
\* one member.
LEMMA PowerIsEnough ==
  ASSUME NEW n \in Nat
  PROVE  2^n \in Nat /\ 2^n >= n
<1> DEFINE S == 1..n
           single == [i \in S |-> {i}]
<1>1. IsFiniteSet(S) /\ Cardinality(S) = n
  <2>1. IsFiniteSet(S) /\ Cardinality(S) = IF 1 > n THEN 0 ELSE n - 1 + 1
    BY FS_Interval
  <2> QED BY <2>1
<1>2. single \in Injection(S, SUBSET S)
  BY DEF Injection, IsInjective
<1> HIDE DEF S, single
<1>3. IsFiniteSet(SUBSET S) /\ Cardinality(SUBSET S) = 2^n
  BY <1>1, FS_SUBSET
<1>4. Cardinality(S) <= Cardinality(SUBSET S) /\ Cardinality(SUBSET S) \in Nat
  BY <1>2, <1>3, FS_Injection, FS_CardinalityType
<1> QED BY <1>1, <1>3, <1>4

\* Powers of two grow: a subset of 1..j is one of 1..k.
LEMMA PowersGrow ==
  ASSUME NEW j \in Nat, NEW k \in Nat, j <= k
  PROVE  2^j <= 2^k
<1>1. /\ IsFiniteSet(1..j) /\ Cardinality(1..j) = j
      /\ IsFiniteSet(1..k) /\ Cardinality(1..k) = k
  <2>1. /\ IsFiniteSet(1..j) /\ Cardinality(1..j) = IF 1 > j THEN 0 ELSE j - 1 + 1
        /\ IsFiniteSet(1..k) /\ Cardinality(1..k) = IF 1 > k THEN 0 ELSE k - 1 + 1
    BY FS_Interval
  <2> QED BY <2>1
<1>2. SUBSET (1..j) \subseteq SUBSET (1..k)
  OBVIOUS
<1>3. /\ Cardinality(SUBSET (1..j)) = 2^j
      /\ IsFiniteSet(SUBSET (1..k)) /\ Cardinality(SUBSET (1..k)) = 2^k
  BY <1>1, FS_SUBSET
<1>4. Cardinality(SUBSET (1..j)) <= Cardinality(SUBSET (1..k))
  BY <1>2, <1>3, FS_Subset
<1> QED BY <1>3, <1>4

-----------------------------------------------------------------------------
(* Properties and descriptors                                              *)

\* Every descriptor has one of three kinds.
LEMMA DescriptorKinds ==
  ASSUME NEW d \in Descriptors
  PROVE  d.type \in {"data", "accessor", "generic"}
BY DEF Descriptors, DataDescriptors, AccessorDescriptors, GenericDescriptors

\* A new slot has no absent attribute (Attributes::IsStored).
LEMMA NewSlotStored ==
  ASSUME NEW d \in Descriptors
  PROVE  NewSlot(d).attributes \in StoredAttributes
BY DEF NewSlot, StoredAttributes, Descriptors, DataDescriptors,
       AccessorDescriptors, GenericDescriptors

\* Merging keeps it so, and an accessor is never writable.
LEMMA MergeStored ==
  ASSUME NEW a \in StoredAttributes, NEW v, NEW d \in Descriptors
  PROVE  Merge([attributes |-> a, value |-> v], d).attributes \in StoredAttributes
<1> DEFINE s == [attributes |-> a, value |-> v]
           b == [a EXCEPT !.configurable = Or(d.configurable, @),
                          !.enumerable = Or(d.enumerable, @)]
<1>1. b \in StoredAttributes
  BY DescriptorAssumption
  DEF Or, StoredAttributes, Descriptors, DataDescriptors, AccessorDescriptors,
      GenericDescriptors, Flag
<1>2. CASE d.type = "generic"
  <2>1. Merge(s, d).attributes = b
    BY <1>2 DEF Merge
  <2> QED BY <1>1, <2>1
<1>3. CASE d.type = "data"
  <2>1. Merge(s, d).attributes =
          [b EXCEPT !.type = "data", !.writable = Or(d.writable, @)]
    BY <1>3 DEF Merge
  <2>2. d.writable \in Flag
    BY <1>3 DEF Descriptors, DataDescriptors, AccessorDescriptors, GenericDescriptors
  <2>3. Or(d.writable, b.writable) \in BOOLEAN
    BY <1>1, <2>2 DEF Or, Flag, StoredAttributes
  <2> QED BY <1>1, <2>1, <2>3 DEF StoredAttributes
<1>4. CASE d.type = "accessor"
  <2>1. Merge(s, d).attributes = [b EXCEPT !.type = "accessor", !.writable = FALSE]
    BY <1>4 DEF Merge
  <2> QED BY <1>1, <2>1 DEF StoredAttributes
<1> QED BY <1>2, <1>3, <1>4, DescriptorKinds

\* The fields of a stored property, one by one.
LEMMA StoredFields ==
  ASSUME NEW s \in StoredSlots
  PROVE  /\ DOMAIN s = {"attributes", "value"}
         /\ s.attributes \in StoredAttributes
         /\ s = [attributes |-> s.attributes, value |-> s.value]
         /\ s.value \in Values \cup Accessors
         /\ s.attributes.type = "accessor" => s.value \in Accessors
BY DEF StoredSlots

\* Merging leaves a property well formed; after an accessor is made a data
\* property without a value, that includes one whose value is still the cell.
LEMMA MergeTyped ==
  ASSUME NEW s \in StoredSlots, NEW d \in Descriptors
  PROVE  Merge(s, d) \in StoredSlots
<1> DEFINE a == s.attributes
<1>1. /\ a \in StoredAttributes /\ s.value \in Values \cup Accessors
      /\ s = [attributes |-> a, value |-> s.value]
      /\ a.type = "accessor" => s.value \in Accessors
  BY StoredFields
<1>2. Merge(s, d).attributes \in StoredAttributes
  BY <1>1, MergeStored
<1>3. CASE d.type = "generic"
  <2>1. Merge(s, d) = [attributes |-> Merge(s, d).attributes, value |-> s.value]
        /\ Merge(s, d).attributes.type = a.type
    BY <1>1, <1>3 DEF Merge, StoredAttributes
  <2> QED BY <1>1, <1>2, <2>1 DEF StoredSlots
<1>4. CASE d.type = "data"
  <2>1. d.value \in Values \cup {Absent}
    BY <1>4 DEF Descriptors, DataDescriptors, AccessorDescriptors, GenericDescriptors
  <2>2. Merge(s, d) = [attributes |-> Merge(s, d).attributes, value |-> Or(d.value, s.value)]
        /\ Merge(s, d).attributes.type = "data"
    BY <1>1, <1>4 DEF Merge, StoredAttributes
  <2>3. Or(d.value, s.value) \in Values \cup Accessors
    BY <1>1, <2>1 DEF Or
  <2> QED BY <1>2, <2>2, <2>3 DEF StoredSlots
<1>5. CASE d.type = "accessor"
  <2> DEFINE cell == IF a.type = "accessor" THEN s.value ELSE [get |-> Null, set |-> Null]
             v == [get |-> Or(d.get, cell.get), set |-> Or(d.set, cell.set)]
  <2>1. d.get \in Callee \cup {Absent} /\ d.set \in Callee \cup {Absent}
    BY <1>5 DEF Descriptors, DataDescriptors, AccessorDescriptors, GenericDescriptors
  <2>2. cell \in Accessors
    BY <1>1 DEF Accessors, Callee
  <2>3. v \in Accessors
    BY <2>1, <2>2 DEF Accessors, Or
  <2>4. Merge(s, d) = [attributes |-> Merge(s, d).attributes, value |-> v]
    BY <1>1, <1>5 DEF Merge, StoredAttributes
  <2> QED BY <1>2, <2>3, <2>4 DEF StoredSlots
<1> QED BY <1>3, <1>4, <1>5, DescriptorKinds

\* A new slot is well formed.
LEMMA NewSlotTyped ==
  ASSUME NEW d \in Descriptors
  PROVE  NewSlot(d) \in StoredSlots
<1>1. NewSlot(d).attributes \in StoredAttributes
  BY NewSlotStored
<1>2. CASE d.type = "accessor"
  <2>1. d.get \in Callee \cup {Absent} /\ d.set \in Callee \cup {Absent}
    BY <1>2 DEF Descriptors, DataDescriptors, AccessorDescriptors, GenericDescriptors
  <2>2. NewSlot(d).value \in Accessors
    BY <1>2, <2>1 DEF NewSlot, OrNull, Accessors, Callee
  <2> QED BY <1>1, <2>2 DEF NewSlot, StoredSlots
<1>3. CASE d.type = "data"
  <2>1. d.value \in Values \cup {Absent}
    BY <1>3 DEF Descriptors, DataDescriptors, AccessorDescriptors, GenericDescriptors
  <2>2. NewSlot(d).value \in Values
    BY <1>3, <2>1, DescriptorAssumption DEF NewSlot, Or
  <2>3. NewSlot(d).attributes.type = "data"
    BY <1>3 DEF NewSlot
  <2> QED BY <1>1, <2>2, <2>3 DEF NewSlot, StoredSlots
<1>4. CASE d.type = "generic"
  <2>1. NewSlot(d).value \in Values /\ NewSlot(d).attributes.type = "data"
    BY <1>4, DescriptorAssumption DEF NewSlot
  <2> QED BY <1>1, <2>1 DEF NewSlot, StoredSlots
<1> QED BY <1>2, <1>3, <1>4, DescriptorKinds

\* What a descriptor that is accepted can do to a property that is not
\* configurable: nothing but give a writable data property another value or
\* make it read-only.
LEMMA LockedMerge ==
  ASSUME NEW s \in StoredSlots, NEW d \in Descriptors,
         ~s.attributes.configurable, IsDefineOwnPropertyAccepted(s, d)
  PROVE  /\ [Merge(s, d).attributes EXCEPT !.writable = s.attributes.writable] = s.attributes
         /\ ~s.attributes.writable => Merge(s, d) = s
<1> DEFINE a == s.attributes
           b == [a EXCEPT !.configurable = Or(d.configurable, @),
                          !.enumerable = Or(d.enumerable, @)]
<1>1. /\ a \in StoredAttributes
      /\ s = [attributes |-> a, value |-> s.value]
      /\ a.type = "accessor" => s.value \in Accessors
  BY StoredFields
<1>2. d.configurable \in Flag /\ d.enumerable \in Flag
  BY DEF Descriptors, DataDescriptors, AccessorDescriptors, GenericDescriptors
<1>3. /\ ~(d.configurable = TRUE) /\ Agrees(d.enumerable, a.enumerable)
      /\ d.type = "generic" \/ d.type = a.type
  BY DEF IsDefineOwnPropertyAccepted, Rejected
<1>4. b = a
  <2>1. Or(d.configurable, a.configurable) = a.configurable
    BY <1>1, <1>2, <1>3 DEF Or, Flag, StoredAttributes
  <2>2. Or(d.enumerable, a.enumerable) = a.enumerable
    BY <1>3 DEF Or, Agrees
  <2> QED BY <1>1, <2>1, <2>2 DEF StoredAttributes
<1>5. CASE d.type = "generic"
  <2>1. Merge(s, d) = s
    BY <1>1, <1>4, <1>5 DEF Merge
  <2> QED BY <1>1, <2>1 DEF StoredAttributes
<1>6. CASE d.type = "data"
  <2>1. a.type = "data"
    BY <1>3, <1>6
  <2>2. /\ Merge(s, d).attributes = [a EXCEPT !.type = "data", !.writable = Or(d.writable, @)]
        /\ Merge(s, d).value = Or(d.value, s.value)
        /\ Merge(s, d) = [attributes |-> Merge(s, d).attributes, value |-> Merge(s, d).value]
    BY <1>1, <1>4, <1>6 DEF Merge
  <2>3. ASSUME ~a.writable
        PROVE  Or(d.writable, a.writable) = a.writable /\ Or(d.value, s.value) = s.value
    <3>1. d.writable # TRUE /\ d.value = s.value
      BY <1>6, <2>1, <2>3 DEF IsDefineOwnPropertyAccepted, Rejected
    <3>2. d.writable \in Flag
      BY <1>6 DEF Descriptors, DataDescriptors, AccessorDescriptors, GenericDescriptors
    <3> QED BY <1>1, <2>3, <3>1, <3>2 DEF Or, Flag, StoredAttributes
  <2>4. [Merge(s, d).attributes EXCEPT !.writable = a.writable] = a
    BY <1>1, <2>1, <2>2 DEF StoredAttributes
  <2>5. ASSUME ~a.writable PROVE Merge(s, d) = s
    <3>1. Merge(s, d).attributes = a
      BY ZenonT(60), <1>1, <2>1, <2>2, <2>3, <2>5 DEF StoredAttributes
    <3> QED BY <1>1, <2>2, <2>3, <2>5, <3>1
  <2> QED BY <2>4, <2>5
<1>7. CASE d.type = "accessor"
  <2>1. a.type = "accessor" /\ ~a.writable
    BY <1>1, <1>3, <1>7 DEF StoredAttributes
  <2>2. Agrees(d.set, s.value.set) /\ Agrees(d.get, s.value.get)
    BY <1>7, <2>1 DEF IsDefineOwnPropertyAccepted, Rejected
  <2>3. [get |-> Or(d.get, s.value.get), set |-> Or(d.set, s.value.set)] = s.value
    BY <1>1, <2>1, <2>2 DEF Or, Agrees, Accessors
  <2>4. Merge(s, d).attributes = [a EXCEPT !.type = "accessor", !.writable = FALSE]
    BY <1>1, <1>4, <1>7 DEF Merge
  <2>5. Merge(s, d) = [attributes |-> Merge(s, d).attributes,
                       value |-> [get |-> Or(d.get, s.value.get),
                                  set |-> Or(d.set, s.value.set)]]
    BY <1>1, <1>4, <1>7, <2>1 DEF Merge
  <2>6. Merge(s, d).attributes = a
    <3>1. a.type = "accessor" /\ a.writable = FALSE
      BY <1>1, <2>1 DEF StoredAttributes
    <3>2. a = [type |-> a.type, writable |-> a.writable, enumerable |-> a.enumerable,
               configurable |-> a.configurable]
      BY <1>1 DEF StoredAttributes
    <3>3. [a EXCEPT !.type = "accessor", !.writable = FALSE] = a
      BY <3>1, <3>2
    <3> QED BY <2>4, <3>3
  <2>7. Merge(s, d) = s
    BY <1>1, <2>3, <2>5, <2>6
  <2> QED BY <1>1, <2>7 DEF StoredAttributes
<1> QED BY <1>5, <1>6, <1>7, DescriptorKinds

\* The early returns and REJECTs of IsDefineOwnPropertyAccepted, and the
\* shortcut MergeWithNoEffect, return what 8.12.9 allows.
LEMMA AnswerIsSpec ==
  ASSUME NEW s \in StoredSlots, NEW d \in Descriptors
  PROVE  Returned(s, d) <=> SpecAllows(s, d)
<1> DEFINE a == s.attributes
           t == SpecChanged(s, d)
<1>1. /\ a \in StoredAttributes
      /\ s = [attributes |-> a, value |-> s.value]
      /\ a.type = "accessor" => s.value \in Accessors
  BY StoredFields
<1>2. d.configurable \in Flag /\ d.enumerable \in Flag
  BY DEF Descriptors, DataDescriptors, AccessorDescriptors, GenericDescriptors
<1>3. CASE a.configurable
  BY <1>3 DEF Returned, Rejected, SpecAllows
<1>4. CASE ~a.configurable
  <2> DEFINE kept == d.configurable # TRUE /\ Agrees(d.enumerable, a.enumerable)
  <2>1. /\ t = [attributes |-> t.attributes, value |-> t.value]
        /\ t.attributes.configurable = Or(d.configurable, a.configurable)
        /\ t.attributes.enumerable = Or(d.enumerable, a.enumerable)
        /\ t.attributes.type = IF d.type = "generic" THEN a.type ELSE d.type
        /\ t.attributes = [type |-> t.attributes.type, writable |-> t.attributes.writable,
                           enumerable |-> t.attributes.enumerable,
                           configurable |-> t.attributes.configurable]
    BY DEF SpecChanged
  <2>2. /\ Or(d.configurable, a.configurable) = a.configurable <=> d.configurable # TRUE
        /\ Or(d.enumerable, a.enumerable) = a.enumerable <=> Agrees(d.enumerable, a.enumerable)
        /\ Agrees(d.configurable, a.configurable) <=> d.configurable # TRUE
    BY <1>1, <1>2, <1>4, DescriptorAssumption DEF Or, Agrees, Flag, StoredAttributes
  <2>3. CASE ~kept
    <3>1. Rejected(s, d) /\ ~MergeWithNoEffect(s, d) /\ ~IsAbsent(d)
      BY <1>4, <2>2, <2>3, DescriptorAssumption DEF Rejected, MergeWithNoEffect, IsAbsent, Agrees
    <3>2. /\ t.attributes.configurable # a.configurable
             \/ t.attributes.enumerable # a.enumerable
      BY <2>1, <2>2, <2>3
    <3>3. ~SpecAllows(s, d)
      BY <1>1, <1>4, <3>2 DEF SpecAllows, StoredAttributes
    <3> QED BY <3>1, <3>3 DEF Returned, Unchanged
  <2>4. CASE kept /\ d.type = "generic"
    <3>1. t = s
      BY <1>1, <2>1, <2>2, <2>4 DEF SpecChanged, StoredAttributes
    <3>2. ~Rejected(s, d)
      BY <2>4 DEF Rejected
    <3> QED BY <3>1, <3>2 DEF Returned, SpecAllows
  <2>5. CASE kept /\ d.type # "generic" /\ d.type # a.type
    <3>1. t.attributes.type # a.type
      BY <2>1, <2>5
    <3>2. ~SpecAllows(s, d)
      BY <1>1, <1>4, <3>1 DEF SpecAllows, StoredAttributes
    <3>3. Rejected(s, d) /\ ~Unchanged(s, d)
      BY <1>4, <2>5 DEF Rejected, Unchanged, IsAbsent, MergeWithNoEffect
    <3> QED BY <3>2, <3>3 DEF Returned
  <2>6. CASE kept /\ d.type = "data" /\ a.type = "data"
    <3>1. /\ d.writable \in Flag /\ d.value \in Values \cup {Absent}
      BY <2>6 DEF Descriptors, DataDescriptors, AccessorDescriptors, GenericDescriptors
    <3>2. /\ t.attributes = [a EXCEPT !.writable = Or(d.writable, @)]
          /\ t.value = Or(d.value, s.value)
      <4>1. t.value = Or(d.value, s.value)
        BY <2>6 DEF SpecChanged
      <4>2. t.attributes.writable = Or(d.writable, a.writable)
        <5>1. t.attributes.writable = IF d.writable # Absent THEN d.writable ELSE TRUE /\ a.writable
          BY <2>6 DEF SpecChanged
        <5>2. (TRUE /\ a.writable) = a.writable
          BY <1>1 DEF StoredAttributes
        <5> QED BY <5>1, <5>2 DEF Or
      <4>3. /\ t.attributes.type = a.type
            /\ t.attributes.configurable = a.configurable
            /\ t.attributes.enumerable = a.enumerable
        BY <2>1, <2>2, <2>6
      <4> QED BY <1>1, <2>1, <4>1, <4>2, <4>3 DEF StoredAttributes
    <3>3. CASE a.writable
      <4>1. ~Rejected(s, d)
        BY <2>6, <3>3 DEF Rejected
      <4>2. Or(d.writable, a.writable) \in {a.writable, FALSE}
        <5>1. a.writable = TRUE
          BY <1>1, <3>3 DEF StoredAttributes
        <5>2. d.writable \in {TRUE, FALSE, Absent}
          BY <3>1 DEF Flag
        <5> QED BY <5>1, <5>2 DEF Or
      <4>3. t.attributes \in {a, [a EXCEPT !.writable = FALSE]}
        <5>1. a = [type |-> a.type, writable |-> a.writable, enumerable |-> a.enumerable,
                   configurable |-> a.configurable]
          BY <1>1 DEF StoredAttributes
        <5>2. [a EXCEPT !.writable = a.writable] = a
          BY <5>1
        <5> QED BY <3>2, <4>2, <5>2
      <4> QED BY <2>6, <3>3, <4>1, <4>3 DEF Returned, SpecAllows
    <3>4. CASE ~a.writable
      <4>1. SpecAllows(s, d) <=> t = s
        BY <1>4, <3>4 DEF SpecAllows
      <4>2. t = s <=> Or(d.writable, a.writable) = a.writable /\ Or(d.value, s.value) = s.value
        BY <1>1, <2>1, <3>2 DEF StoredAttributes
      <4>3. Or(d.writable, a.writable) = a.writable <=> Agrees(d.writable, a.writable)
        BY DEF Or, Agrees
      <4>4. Or(d.value, s.value) = s.value <=> Agrees(d.value, s.value)
        BY DEF Or, Agrees
      <4>5. MergeWithNoEffect(s, d) <=> Agrees(d.writable, a.writable) /\ Agrees(d.value, s.value)
        BY <2>2, <2>6 DEF MergeWithNoEffect
      <4>6. Rejected(s, d) <=> d.writable = TRUE \/ d.value # s.value
        BY <1>4, <2>6, <3>4 DEF Rejected
      <4>7. ~Rejected(s, d) => MergeWithNoEffect(s, d)
        BY <1>1, <3>1, <3>4, <4>5, <4>6 DEF Agrees, Flag, StoredAttributes
      <4>8. ~IsAbsent(d)
        BY <2>6 DEF IsAbsent
      <4> QED BY <4>1, <4>2, <4>3, <4>4, <4>5, <4>7, <4>8 DEF Returned, Unchanged
    <3> QED BY <3>3, <3>4
  <2>7. CASE kept /\ d.type = "accessor" /\ a.type = "accessor"
    <3>1. /\ t.attributes = a
          /\ t.value = [get |-> Or(d.get, s.value.get), set |-> Or(d.set, s.value.set)]
      BY <1>1, <2>1, <2>2, <2>7 DEF SpecChanged, StoredAttributes
    <3>2. s.value = [get |-> s.value.get, set |-> s.value.set]
      BY <1>1, <2>7 DEF Accessors
    <3>3. t = s <=> Agrees(d.get, s.value.get) /\ Agrees(d.set, s.value.set)
      BY <1>1, <2>1, <3>1, <3>2 DEF Or, Agrees
    <3>4. SpecAllows(s, d) <=> t = s
      BY <1>4, <2>7 DEF SpecAllows
    <3>5. Rejected(s, d) <=> ~(Agrees(d.get, s.value.get) /\ Agrees(d.set, s.value.set))
      BY <1>4, <2>7 DEF Rejected
    <3>6. MergeWithNoEffect(s, d) => Agrees(d.get, s.value.get) /\ Agrees(d.set, s.value.set)
      BY <2>7 DEF MergeWithNoEffect, OrNull, Agrees
    <3>7. ~IsAbsent(d)
      BY <2>7 DEF IsAbsent
    <3> QED BY <3>3, <3>4, <3>5, <3>6, <3>7 DEF Returned, Unchanged
  <2> QED BY <2>3, <2>4, <2>5, <2>6, <2>7, DescriptorKinds
<1> QED BY <1>1, <1>3, <1>4 DEF StoredAttributes

\* Merge makes of a property what 8.12.9 says, unless it leaves the Accessor
\* cell where an accessor becomes a data property without a value.
LEMMA MergeIsSpec ==
  ASSUME NEW s \in StoredSlots, NEW d \in Descriptors,
         ~(s.attributes.type = "accessor" /\ d.type = "data" /\ d.value = Absent)
  PROVE  Merge(s, d) = SpecChanged(s, d)
<1> DEFINE a == s.attributes
           changed(kind, w) == [type |-> kind, writable |-> w,
                                enumerable |-> Or(d.enumerable, a.enumerable),
                                configurable |-> Or(d.configurable, a.configurable)]
<1>1. /\ a \in StoredAttributes /\ a.type \in {"data", "accessor"}
      /\ s = [attributes |-> a, value |-> s.value]
      /\ a = [type |-> a.type, writable |-> a.writable, enumerable |-> a.enumerable,
              configurable |-> a.configurable]
      /\ a.writable \in BOOLEAN /\ (a.type = "accessor" => a.writable = FALSE)
  BY StoredFields DEF StoredAttributes
<1>2. CASE d.type = "generic"
  <2>1. Merge(s, d) = [attributes |-> changed(a.type, a.writable), value |-> s.value]
    BY <1>1, <1>2 DEF Merge
  <2>2. SpecChanged(s, d).attributes = changed(a.type, a.writable)
    <3>1. (IF a.type = "accessor" THEN FALSE
           ELSE IF d.type = "data" /\ d.writable # Absent THEN d.writable
           ELSE TRUE /\ a.writable) = a.writable
      BY <1>1, <1>2
    <3> QED BY <1>2, <3>1 DEF SpecChanged
  <2>3. SpecChanged(s, d) = [attributes |-> SpecChanged(s, d).attributes, value |-> s.value]
    BY <1>2 DEF SpecChanged
  <2> QED BY <2>1, <2>2, <2>3
<1>3. CASE d.type = "data"
  <2>1. Merge(s, d) = [attributes |-> changed("data", Or(d.writable, a.writable)),
                       value |-> Or(d.value, s.value)]
    BY <1>1, <1>3 DEF Merge
  <2>2. SpecChanged(s, d).attributes = changed("data", Or(d.writable, a.writable))
    <3>1. (IF d.type = "data" /\ d.writable # Absent THEN d.writable
           ELSE (d.type = a.type) /\ a.writable) = Or(d.writable, a.writable)
      BY <1>1, <1>3 DEF Or
    <3> QED BY <1>3, <3>1 DEF SpecChanged
  <2>3. SpecChanged(s, d) = [attributes |-> SpecChanged(s, d).attributes,
                             value |-> Or(d.value, s.value)]
    BY <1>1, <1>3 DEF SpecChanged, Or
  <2> QED BY <2>1, <2>2, <2>3
<1>4. CASE d.type = "accessor"
  <2> DEFINE cell == IF a.type = "accessor" THEN s.value ELSE [get |-> Null, set |-> Null]
             pair == [get |-> Or(d.get, cell.get), set |-> Or(d.set, cell.set)]
  <2>1. Merge(s, d) = [attributes |-> changed("accessor", FALSE), value |-> pair]
    BY <1>1, <1>4 DEF Merge
  <2>2. SpecChanged(s, d) = [attributes |-> changed("accessor", FALSE), value |-> pair]
    BY <1>4 DEF SpecChanged
  <2> QED BY <2>1, <2>2
<1> QED BY <1>2, <1>3, <1>4, DescriptorKinds
=============================================================================
