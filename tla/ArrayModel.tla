----------------------------- MODULE ArrayModel -----------------------------
(***************************************************************************)
(* What ECMAScript 5 promises of an array with elements (15.4.5.1 over     *)
(* 8.12): one dictionary of elements and a length above them.  No vector,  *)
(* no sparse map.                                                          *)
(***************************************************************************)
EXTENDS PropertyDescriptor, Integers, FiniteSets

CONSTANTS Indices, Lengths, Inputs, PutValues

VARIABLES
  elements,    \* the elements that exist, by index
  length,      \* the value of "length"
  writable,    \* [[Writable]] of "length"
  extensible,  \* [[Extensible]]
  inherited,   \* the elements that prototypes have
  answer       \* whether the last call was not refused

avars == <<elements, length, writable, extensible, inherited, answer>>

Has(i) == i \in DOMAIN elements

Refused == answer' = FALSE /\ UNCHANGED <<elements, length, writable, extensible, inherited>>

Plain(v) == [attributes |-> [type |-> "data", writable |-> TRUE,
                             enumerable |-> TRUE, configurable |-> TRUE],
             value |-> v]

StoreElement(i, s) ==
  /\ elements' = [x \in DOMAIN elements \cup {i} |-> IF x = i THEN s ELSE elements[x]]
  /\ length' = IF i < length THEN length ELSE i + 1
  /\ answer' = TRUE
  /\ UNCHANGED <<writable, extensible, inherited>>

MayAdd(i) == extensible /\ (i < length \/ writable)

\* [[DefineOwnProperty]] of an array index
DefineElement(i, d) ==
  \/ Has(i) /\ SpecAllows(elements[i], d) /\ StoreElement(i, SpecChanged(elements[i], d))
  \/ Has(i) /\ ~SpecAllows(elements[i], d) /\ Refused
  \/ ~Has(i) /\ MayAdd(i) /\ StoreElement(i, NewSlot(d))
  \/ ~Has(i) /\ ~MayAdd(i) /\ Refused

IsWritable(s) == s.attributes.type = "data" /\ s.attributes.writable

\* [[Put]] that does not end in a setter
PutElement(i, v) ==
  \/ Has(i) /\ IsWritable(elements[i]) /\ StoreElement(i, [elements[i] EXCEPT !.value = v])
  \/ Has(i) /\ ~IsWritable(elements[i]) /\ Refused
  \/ /\ ~Has(i)
     /\ i \in DOMAIN inherited => IsWritable(inherited[i])
     /\ MayAdd(i)
     /\ StoreElement(i, Plain(v))
  \/ /\ ~Has(i)
     /\ (i \in DOMAIN inherited /\ ~IsWritable(inherited[i])) \/ ~MayAdd(i)
     /\ Refused

DeleteElement(i) ==
  \/ /\ Has(i) => elements[i].attributes.configurable
     /\ elements' = [x \in DOMAIN elements \ {i} |-> elements[x]]
     /\ answer' = TRUE
     /\ UNCHANGED <<length, writable, extensible, inherited>>
  \/ Has(i) /\ ~elements[i].attributes.configurable /\ Refused

\* "length" redefined with a value l and a writable w.  Elements go from the
\* end, up to one that is not configurable.
SetLength(l, w) ==
  LET locked == {i \in DOMAIN elements : i >= l /\ ~elements[i].attributes.configurable}
      end == IF locked = {} THEN l ELSE 1 + CHOOSE k \in locked : \A j \in locked : j <= k
  IN IF ~writable /\ (l # length \/ w = TRUE)
     THEN Refused
     ELSE /\ elements' = [x \in {i \in DOMAIN elements : i < end} |-> elements[x]]
          /\ length' = end
          /\ writable' = (writable /\ w # FALSE)
          /\ answer' = (locked = {})
          /\ UNCHANGED <<extensible, inherited>>

Close ==
  /\ extensible' = FALSE
  /\ UNCHANGED <<elements, length, writable, inherited, answer>>

AInit ==
  /\ extensible = TRUE /\ writable = TRUE /\ answer = TRUE
  /\ \A i \in DOMAIN elements : i < length

ANext ==
  \/ \E i \in Indices :
       \/ \E d \in Inputs : DefineElement(i, d)
       \/ \E v \in PutValues : PutElement(i, v)
       \/ DeleteElement(i)
  \/ \E l \in Lengths, w \in Flag : SetLength(l, w)
  \/ Close

ASpec == AInit /\ [][ANext]_avars
=============================================================================
