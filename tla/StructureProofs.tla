--------------------------- MODULE StructureProofs ---------------------------
(***************************************************************************)
(* Three structures of the runtime: one property with its descriptors, for *)
(* every set of values, functions and descriptors; the stack of values,    *)
(* for every kStackCapacity, every function and any nesting of calls; and  *)
(* the table of a WeakMap, for any objects with any hashes.                *)
(***************************************************************************)
EXTENDS DescriptorMachine, FrameStack, WeakMap, SharedLemmas, SequenceTheorems

-----------------------------------------------------------------------------
(* Theorems                                                                *)

\* The property, the flag and the returned are always of their types.
THEOREM DescriptorTypeCorrect == DSpec => []TypeOK
<1>1. DInit => TypeOK
  BY DEF DInit, TypeOK
<1>2. TypeOK /\ [DNext]_dvars => TypeOK'
  <2> SUFFICES ASSUME TypeOK, [DNext]_dvars PROVE TypeOK'
    OBVIOUS
  <2>1. CASE UNCHANGED dvars
    BY <2>1 DEF TypeOK, dvars
  <2>2. ASSUME NEW d \in Passed, DefineNew(d)
        PROVE  TypeOK'
    BY <2>2, PassedAssumption, NewSlotTyped DEF DefineNew, TypeOK
  <2>3. ASSUME NEW d \in Passed, DefineExisting(d)
        PROVE  TypeOK'
    <3>1. slot \in StoredSlots /\ Merge(slot, d) \in StoredSlots
      BY <2>3, PassedAssumption, MergeTyped DEF DefineExisting, TypeOK
    <3>2. returned' \in BOOLEAN
      BY <2>3 DEF DefineExisting, Returned
    <3> QED BY <2>3, <3>1, <3>2 DEF DefineExisting, TypeOK
  <2>4. CASE DeleteSlot
    <3>1. slot.attributes.configurable \in BOOLEAN
      BY <2>4 DEF DeleteSlot, TypeOK, StoredSlots, StoredAttributes
    <3> QED BY <2>4, <3>1 DEF DeleteSlot, TypeOK
  <2>5. CASE CloseObject
    BY <2>5 DEF CloseObject, TypeOK
  <2> QED BY <2>1, <2>2, <2>3, <2>4, <2>5 DEF DNext
<1> QED BY <1>1, <1>2, PTL DEF DSpec

\* Whatever was defined before, [[DefineOwnProperty]] answers as 8.12.9 says,
\* for every descriptor a script can write.
THEOREM AcceptanceIsES5 == DSpec => []AcceptanceMatchesES5
<1>1. TypeOK => AcceptanceMatchesES5
  BY AnswerIsSpec, PassedAssumption DEF TypeOK, AcceptanceMatchesES5
<1> QED BY <1>1, DescriptorTypeCorrect, PTL

\* Whatever values, functions and descriptors there are, no sequence of
\* defineProperty, delete and preventExtensions calls removes or reconfigures a
\* property that is not configurable, or changes one that is read-only too.
THEOREM LockedPropertiesStay == DSpec => LockedForever
<1> DEFINE Locked == slot # NotFound /\ ~slot.attributes.configurable
           Stays == /\ slot' # NotFound
                    /\ [slot'.attributes EXCEPT !.writable = slot.attributes.writable]
                         = slot.attributes
                    /\ ~slot.attributes.writable => slot' = slot
<1>1. TypeOK /\ [DNext]_dvars => [Locked => Stays]_dvars
  <2> SUFFICES ASSUME TypeOK, DNext, Locked PROVE Stays
    OBVIOUS
  <2>1. slot \in StoredSlots
    BY DEF TypeOK
  <2>2. slot' = slot => Stays
    BY <2>1 DEF StoredSlots, StoredAttributes
  <2>3. ASSUME NEW d \in Passed, DefineExisting(d)
        PROVE  Stays
    <3>1. CASE IsDefineOwnPropertyAccepted(slot, d)
      <4>1. slot' = Merge(slot, d) /\ d \in Descriptors
        BY <2>3, <3>1, PassedAssumption DEF DefineExisting
      <4>2. slot' # NotFound
        BY <2>1, <4>1, MergeTyped, PassedAssumption
      <4> QED BY <2>1, <3>1, <4>1, <4>2, LockedMerge
    <3>2. CASE ~IsDefineOwnPropertyAccepted(slot, d)
      BY <2>2, <2>3, <3>2 DEF DefineExisting
    <3> QED BY <3>1, <3>2
  <2>4. CASE DeleteSlot
    BY <2>2, <2>4 DEF DeleteSlot
  <2>5. CASE CloseObject
    BY <2>2, <2>5 DEF CloseObject
  <2> QED BY <2>3, <2>4, <2>5 DEF DNext, DefineNew
<1> QED BY <1>1, DescriptorTypeCorrect, PTL DEF DSpec, LockedForever

\* Whatever was defined before, merging leaves the property that 8.12.9 says,
\* for every pair of kinds but an accessor made a data property without a value.
THEOREM MergeIsES5 == DSpec => []MergeMatchesES5WithValue
<1>1. TypeOK => MergeMatchesES5WithValue
  BY MergeIsSpec, PassedAssumption DEF TypeOK, MergeMatchesES5WithValue
<1> QED BY <1>1, DescriptorTypeCorrect, PTL

-----------------------------------------------------------------------------
(* The stack of values                                                     *)

Frames == [is : {"frame"}, from : Nat, base : Nat, code : FrameCodes, inline : BOOLEAN, needs : Nat]
Lists == [is : {"list"}, from : Nat, n : Nat]
Natives == [is : {"native"}]
Activations == Frames \cup Lists \cup Natives

\* From where on a lies on the stack.
Begin(a) == a.from

\* Below this lies all that activation i of s may still be asked for, now or
\* when what it called returns: a frame that called native code goes on with all
\* its registers, one that called in place has given its window away, and a list
\* that a frame was entered with belongs to the frame.
Floor(s, i) ==
  CASE s[i].is = "frame" /\ ~(i < Len(s) /\ s[i + 1].is = "frame") -> GetFrameEnd(s[i])
    [] s[i].is = "frame" /\ i < Len(s) /\ s[i + 1].is = "frame" -> RegisterFile(s[i]) + s[i].needs
    [] s[i].is = "list" /\ ~(i < Len(s) /\ s[i + 1].is = "frame") -> s[i].from + s[i].n + 1
    [] OTHER -> s[i].from

\* One activation in its place.
Sound(s, i) ==
  /\ s[i].is = "frame" =>
       /\ s[i].from < s[i].base
       /\ s[i].needs <= s[i].code.size
       /\ GetFrameEnd(s[i]) < StackCapacity
       /\ (i = Len(s) => s[i].needs = s[i].code.size)
       /\ (i < Len(s) => s[i + 1].is \in {"frame", "native"})
  /\ s[i].is = "list" =>
       /\ s[i].from < StackCapacity
       /\ (i < Len(s) /\ s[i + 1].is = "frame" =>
              s[i + 1].from = s[i].from /\ s[i].from + s[i].n < s[i + 1].base)
  /\ s[i].is = "native" /\ i < Len(s) => s[i + 1].is = "list"

\* Above the first frame: in order, and all below the stack pointer.
Above(s, i) == \E j \in 1..i : s[j].is = "frame"
Ordered(s) ==
  \A i \in 1..Len(s) : \A j \in 1..Len(s) :
    i < j /\ Above(s, i) /\ s[i].is # "native" /\ s[j].is # "native" => Floor(s, i) <= Begin(s[j])
Covered(s, p) == \A i \in 1..Len(s) : Above(s, i) /\ s[i].is # "native" => Floor(s, i) <= p

Stacked(s, p) ==
  /\ s \in Seq(Activations)
  /\ \A i \in 1..Len(s) : Sound(s, i)
  /\ Ordered(s)
  /\ Covered(s, p)

StackInv == Stacked(calls, sp) /\ sp \in 0..(StackCapacity - 1)

\* The three kinds of activations.
LEMMA ActivationKinds ==
  ASSUME NEW a \in Activations
  PROVE  /\ a.is \in {"frame", "list", "native"}
         /\ a.is = "frame" =>
              /\ a.from \in Nat /\ a.base \in Nat /\ a.needs \in Nat
              /\ a.code \in FrameCodes /\ a.code.size \in Nat /\ a.code.params \in Nat
              /\ RegisterFile(a) \in Nat /\ RegisterFile(a) = a.base + Header
              /\ GetFrameEnd(a) \in Nat /\ GetFrameEnd(a) = a.base + Header + a.code.size
         /\ a.is = "list" => a.from \in Nat /\ a.n \in Nat
<1>1. CASE a \in Frames
  <2>1. a.is = "frame" /\ a.from \in Nat /\ a.base \in Nat /\ a.needs \in Nat /\ a.code \in FrameCodes
    BY <1>1 DEF Frames
  <2>2. a.code.size \in Nat /\ a.code.params \in Nat /\ Header \in Nat
    BY <2>1, FrameStackAssumption
  <2> QED BY <2>1, <2>2 DEF RegisterFile, GetFrameEnd
<1>2. CASE a \in Lists
  BY <1>2 DEF Lists
<1>3. CASE a \in Natives
  BY <1>3 DEF Natives
<1> QED BY <1>1, <1>2, <1>3 DEF Activations

\* What lies between the beginning of an activation and its floor.
LEMMA FloorAbove ==
  ASSUME NEW s \in Seq(Activations), NEW i \in 1..Len(s), Sound(s, i), s[i].is # "native"
  PROVE  Floor(s, i) \in Nat /\ Begin(s[i]) \in Nat /\ Begin(s[i]) <= Floor(s, i)
<1>1. s[i] \in Activations /\ Len(s) \in Nat
  OBVIOUS
<1>2. CASE s[i].is = "frame"
  <2>1. s[i].from < s[i].base
    BY <1>2 DEF Sound
  <2>2. /\ s[i].from \in Nat /\ s[i].base \in Nat /\ s[i].needs \in Nat /\ Header \in Nat
        /\ s[i].code.size \in Nat /\ RegisterFile(s[i]) = s[i].base + Header
        /\ GetFrameEnd(s[i]) = s[i].base + Header + s[i].code.size
    BY <1>1, <1>2, ActivationKinds, FrameStackAssumption
  <2>3. \/ Floor(s, i) = GetFrameEnd(s[i])
        \/ Floor(s, i) = RegisterFile(s[i]) + s[i].needs
    BY <1>2 DEF Floor
  <2> QED BY SMTT(30), <2>1, <2>2, <2>3 DEF Begin
<1>3. CASE s[i].is = "list"
  BY <1>1, <1>3, ActivationKinds DEF Floor, Begin
<1> QED BY <1>1, <1>2, <1>3, ActivationKinds

\* An activation on top leaves those below the last one as they are.
LEMMA AppendedParts ==
  ASSUME NEW s \in Seq(Activations), NEW a \in Activations, NEW t, t = Append(s, a),
         NEW n, n = Len(s)
  PROVE  /\ t \in Seq(Activations)
         /\ n \in Nat /\ Len(t) = n + 1 /\ t[n + 1] = a
         /\ \A i \in 1..n : t[i] = s[i] /\ (Above(t, i) <=> Above(s, i))
         /\ \A i \in 1..(n - 1) : (Sound(t, i) <=> Sound(s, i)) /\ Floor(t, i) = Floor(s, i)
         /\ Above(t, n + 1) <=> Above(s, n) \/ a.is = "frame"
<1>1. /\ t \in Seq(Activations) /\ n \in Nat /\ Len(t) = n + 1 /\ t[n + 1] = a
      /\ \A i \in 1..n : t[i] = s[i]
  BY AppendProperties, LenProperties
<1>2. \A i \in 1..n : Above(t, i) <=> Above(s, i)
  BY <1>1 DEF Above
<1>3. Above(t, n + 1) <=> Above(s, n) \/ a.is = "frame"
  BY <1>1 DEF Above
<1>4. ASSUME NEW i \in 1..(n - 1)
      PROVE  (Sound(t, i) <=> Sound(s, i)) /\ Floor(t, i) = Floor(s, i)
  <2>1. /\ i \in Nat /\ i # Len(t) /\ i < Len(t) /\ i # Len(s) /\ i < Len(s)
        /\ t[i] = s[i] /\ t[i + 1] = s[i + 1]
    BY <1>1
  <2> QED BY <2>1 DEF Sound, Floor
<1> QED BY <1>1, <1>2, <1>3, <1>4

\* Pushing an activation that begins above the floors of those below it.
LEMMA PushStacked ==
  ASSUME NEW s \in Seq(Activations), NEW a \in Activations, NEW t, t = Append(s, a),
         NEW n, n = Len(s), NEW q,
         \A i \in 1..(n - 1) : Sound(s, i), n > 0 => Sound(t, n), Sound(t, n + 1),
         Ordered(s),
         a.is # "native" =>
           \A i \in 1..n : Above(s, i) /\ s[i].is # "native" => Floor(t, i) <= a.from,
         \A i \in 1..n : Above(s, i) /\ s[i].is # "native" => Floor(t, i) <= q,
         a.is # "native" => Floor(t, n + 1) <= q
  PROVE  Stacked(t, q)
<1>1. /\ t \in Seq(Activations) /\ n \in Nat /\ Len(t) = n + 1 /\ t[n + 1] = a
      /\ \A i \in 1..n : t[i] = s[i] /\ (Above(t, i) <=> Above(s, i))
      /\ \A i \in 1..(n - 1) : (Sound(t, i) <=> Sound(s, i)) /\ Floor(t, i) = Floor(s, i)
  <2>1. s \in Seq(Activations) /\ a \in Activations /\ t = Append(s, a) /\ n = Len(s)
    OBVIOUS
  <2>2. t \in Seq(Activations) /\ n \in Nat /\ Len(t) = n + 1 /\ t[n + 1] = a
    BY ONLY <2>1, AppendedParts
  <2>3. \A i \in 1..n : t[i] = s[i] /\ (Above(t, i) <=> Above(s, i))
    BY ONLY <2>1, AppendedParts
  <2>4. \A i \in 1..(n - 1) : (Sound(t, i) <=> Sound(s, i)) /\ Floor(t, i) = Floor(s, i)
    BY ONLY ZenonT(60), <2>1, AppendedParts
  <2> QED BY <2>2, <2>3, <2>4
<1>2. \A i \in 1..Len(t) : Sound(t, i)
  BY <1>1
<1>3. Ordered(t)
  <2> SUFFICES ASSUME NEW i \in 1..Len(t), NEW j \in 1..Len(t), i < j, Above(t, i),
                      t[i].is # "native", t[j].is # "native"
               PROVE  Floor(t, i) <= Begin(t[j])
    BY DEF Ordered
  <2>1. i \in 1..n /\ Above(s, i) /\ s[i].is # "native"
    BY <1>1
  <2>2. CASE j = n + 1
    BY <1>1, <2>1, <2>2 DEF Begin
  <2>3. CASE j # n + 1
    <3>1. j \in 1..n /\ i \in 1..(n - 1)
      BY <1>1, <2>3
    <3>2. Floor(s, i) <= Begin(s[j])
      BY <1>1, <2>1, <3>1 DEF Ordered
    <3> QED BY <1>1, <3>1, <3>2
  <2> QED BY <2>2, <2>3
<1>4. Covered(t, q)
  BY <1>1 DEF Covered
<1> QED BY <1>1, <1>2, <1>3, <1>4 DEF Stacked

\* The frame at n needs w registers.
Retuned(s, n, w) == [s EXCEPT ![n].needs = w]

\* What a frame still needs of its registers moves nothing but its own floor.
LEMMA NeedsAlone ==
  ASSUME NEW s \in Seq(Activations), NEW n, n = Len(s), n > 0, s[n].is = "frame",
         NEW w \in Nat, NEW u, u = Retuned(s, n, w)
  PROVE  /\ u \in Seq(Activations) /\ Len(u) = n /\ n \in Nat
         /\ /\ u[n].is = "frame" /\ u[n].from = s[n].from /\ u[n].base = s[n].base
            /\ u[n].code = s[n].code /\ u[n].needs = w
            /\ RegisterFile(u[n]) = RegisterFile(s[n]) /\ GetFrameEnd(u[n]) = GetFrameEnd(s[n])
         /\ \A i \in 1..(n - 1) : u[i] = s[i]
         /\ \A i \in 1..n : u[i].is = s[i].is /\ u[i].from = s[i].from /\ (Above(u, i) <=> Above(s, i))
         /\ \A i \in 1..(n - 1) : Sound(u, i) <=> Sound(s, i)
         /\ \A i \in 1..(n - 1) : Floor(u, i) = Floor(s, i)
<1>1. n \in Nat /\ n \in 1..n /\ s[n] \in Frames
  <2>1. n \in Nat /\ s[n] \in Activations
    BY LenProperties
  <2> QED BY <2>1 DEF Activations, Lists, Natives
<1>2. PICK f : f = [s[n] EXCEPT !.needs = w]
  OBVIOUS
<1>3. f \in Frames /\ f \in Activations
  BY <1>1, <1>2 DEF Frames, Activations
<1>4. /\ f.is = "frame" /\ f.from = s[n].from /\ f.base = s[n].base
      /\ f.code = s[n].code /\ f.needs = w
  BY <1>1, <1>2 DEF Frames
<1>5. u = [s EXCEPT ![n] = f]
  BY <1>2 DEF Retuned
<1>6. /\ u \in Seq(Activations) /\ Len(u) = n
      /\ \A j \in 1..n : u[j] = IF j = n THEN f ELSE s[j]
  BY <1>1, <1>3, <1>5, ExceptSeq
<1>7. /\ u[n] = f
      /\ \A i \in 1..(n - 1) : u[i] = s[i]
      /\ \A i \in 1..n : u[i].is = s[i].is /\ u[i].from = s[i].from
  BY <1>1, <1>4, <1>6
<1>8. RegisterFile(u[n]) = RegisterFile(s[n]) /\ GetFrameEnd(u[n]) = GetFrameEnd(s[n])
  BY <1>4, <1>7 DEF RegisterFile, GetFrameEnd
<1>9. \A i \in 1..n : Above(u, i) <=> Above(s, i)
  BY SMTT(30), <1>1, <1>7 DEF Above
<1>10. ASSUME NEW i \in 1..(n - 1)
       PROVE  (Sound(u, i) <=> Sound(s, i)) /\ Floor(u, i) = Floor(s, i)
  <2>1. /\ i \in Nat /\ i < n /\ i # n /\ u[i] = s[i] /\ i + 1 \in 1..n
        /\ u[i + 1].is = s[i + 1].is /\ u[i + 1].from = s[i + 1].from
    BY <1>1, <1>7
  <2>2. u[i + 1].base = s[i + 1].base
    BY <1>1, <1>4, <1>6, <2>1
  <2> QED BY <1>6, <2>1, <2>2 DEF Sound, Floor
<1> QED BY <1>1, <1>4, <1>6, <1>7, <1>8, <1>9, <1>10

\* The activations below the innermost one.
LEMMA FrontParts ==
  ASSUME NEW s \in Seq(Activations), NEW n, n = Len(s), n > 0, NEW f, f = Front(s)
  PROVE  /\ f \in Seq(Activations) /\ Len(f) = n - 1 /\ n \in Nat
         /\ \A i \in 1..(n - 1) : f[i] = s[i] /\ (Above(f, i) <=> Above(s, i))
         /\ \A i \in 1..(n - 2) : (Sound(f, i) <=> Sound(s, i)) /\ Floor(f, i) = Floor(s, i)
<1>1. n \in Nat /\ \A i \in 1..(n - 1) : s[i] \in Activations
  BY LenProperties
<1>2. /\ f \in Seq(Activations) /\ Len(f) = n - 1
      /\ \A i \in 1..(n - 1) : f[i] = s[i]
  <2>1. /\ SubSeq(s, 1, n - 1) \in Seq(Activations)
        /\ Len(SubSeq(s, 1, n - 1)) = IF 1 <= n - 1 THEN (n - 1) - 1 + 1 ELSE 0
        /\ \A i \in 1..((n - 1) - 1 + 1) : SubSeq(s, 1, n - 1)[i] = s[1 + i - 1]
    BY <1>1, SubSeqProperties
  <2>2. f = SubSeq(s, 1, n - 1)
    BY DEF Front
  <2>3. n - 1 \in Nat /\ (1 <= n - 1 \/ n - 1 = 0)
    BY <1>1
  <2>4. ASSUME NEW i \in 1..(n - 1) PROVE f[i] = s[i]
    <3>1. i \in 1..((n - 1) - 1 + 1) /\ 1 + i - 1 = i
      BY <1>1
    <3> QED BY <2>1, <2>2, <3>1
  <2>5. Len(f) = n - 1
    BY <1>1, <2>1, <2>2, <2>3
  <2>6. f \in Seq(Activations)
    BY <2>1, <2>2
  <2> QED BY <2>4, <2>5, <2>6
<1>3. ASSUME NEW i \in 1..(n - 1) PROVE Above(f, i) <=> Above(s, i)
  <2>1. \A j \in 1..i : f[j] = s[j]
    BY <1>1, <1>2
  <2> QED BY <2>1 DEF Above
<1>4. ASSUME NEW i \in 1..(n - 2)
      PROVE  (Sound(f, i) <=> Sound(s, i)) /\ Floor(f, i) = Floor(s, i)
  <2>1. /\ i \in Nat /\ i # Len(f) /\ i < Len(f) /\ i # Len(s) /\ i < Len(s)
        /\ f[i] = s[i] /\ f[i + 1] = s[i + 1]
    BY <1>1, <1>2
  <2> QED BY <2>1 DEF Sound, Floor
<1> QED BY <1>1, <1>2, <1>3, <1>4

\* Where an activation is done with when nothing is above it.
EndOf(a) == IF a.is = "frame" THEN GetFrameEnd(a) ELSE a.from + a.n + 1

\* The one below goes on, a frame with all its registers.
LEMMA PopStacked ==
  ASSUME NEW s, NEW p, Stacked(s, p), NEW n, n = Len(s), n > 0, NEW t, t = Resumed(Front(s)),
         NEW q,
         \A i \in 1..(n - 2) : Above(s, i) /\ s[i].is # "native" => Floor(s, i) <= q,
         n > 1 /\ Above(s, n - 1) /\ s[n - 1].is # "native" => EndOf(s[n - 1]) <= q
  PROVE  Stacked(t, q)
<1> DEFINE f == Front(s)
<1>1. s \in Seq(Activations) /\ (\A i \in 1..n : Sound(s, i)) /\ Ordered(s)
  BY DEF Stacked
<1>2. /\ f \in Seq(Activations) /\ Len(f) = n - 1 /\ n \in Nat
      /\ \A i \in 1..(n - 1) : f[i] = s[i] /\ (Above(f, i) <=> Above(s, i))
      /\ \A i \in 1..(n - 2) : (Sound(f, i) <=> Sound(s, i)) /\ Floor(f, i) = Floor(s, i)
  BY <1>1, FrontParts
<1> HIDE DEF f
<1>3. /\ t \in Seq(Activations) /\ Len(t) = n - 1
      /\ \A i \in 1..(n - 1) : t[i].is = s[i].is /\ t[i].from = s[i].from
                               /\ (Above(t, i) <=> Above(s, i))
      /\ \A i \in 1..(n - 2) : Sound(t, i) /\ Floor(t, i) = Floor(s, i)
      /\ n > 1 => Sound(t, n - 1) /\ (t[n - 1].is # "native" => Floor(t, n - 1) = EndOf(s[n - 1]))
  <2>1. CASE n = 1
    <3>1. f = <<>>
      BY <1>2, <2>1, EmptySeq
    <3>2. t = f
      BY <3>1 DEF Resumed, f
    <3> QED BY <1>2, <2>1, <3>2
  <2>2. CASE n > 1 /\ s[n - 1].is = "frame"
    <3> DEFINE m == n - 1
               w == f[m].code.size
    <3>1. /\ m \in Nat /\ m > 0 /\ m = Len(f) /\ f[m] = s[m] /\ f[m].is = "frame" /\ f # <<>>
          /\ f[m] \in Activations
      BY <1>2, <2>2
    <3>2. w \in Nat
      BY <3>1, ActivationKinds
    <3>3. t = Retuned(f, m, w)
      BY <3>1 DEF Resumed, Retuned, f
    <3> HIDE DEF m, w
    <3>0. /\ f \in Seq(Activations) /\ m = Len(f) /\ m > 0 /\ f[m].is = "frame" /\ w \in Nat
          /\ t = Retuned(f, m, w)
      BY <1>2, <3>1, <3>2, <3>3
    <3>4. /\ t \in Seq(Activations) /\ Len(t) = m
          /\ /\ t[m].is = "frame" /\ t[m].from = f[m].from /\ t[m].base = f[m].base
             /\ t[m].code = f[m].code /\ t[m].needs = w
             /\ GetFrameEnd(t[m]) = GetFrameEnd(f[m])
      BY ONLY <3>0, NeedsAlone
    <3>5. /\ \A i \in 1..m : t[i].is = f[i].is /\ t[i].from = f[i].from /\ (Above(t, i) <=> Above(f, i))
          /\ \A i \in 1..(m - 1) : (Sound(t, i) <=> Sound(f, i)) /\ Floor(t, i) = Floor(f, i)
      <4>1. \A i \in 1..m : t[i].is = f[i].is /\ t[i].from = f[i].from /\ (Above(t, i) <=> Above(f, i))
        BY ONLY <3>0, NeedsAlone
      <4>2. \A i \in 1..(m - 1) : Sound(t, i) <=> Sound(f, i)
        BY ONLY <3>0, NeedsAlone
      <4>3. \A i \in 1..(m - 1) : Floor(t, i) = Floor(f, i)
        BY ONLY <3>0, NeedsAlone
      <4> QED BY <4>1, <4>2, <4>3
    <3>6. Sound(s, m)
      BY <1>1, <1>2, <3>1, <2>2 DEF m
    <3>7. Sound(t, m) /\ Floor(t, m) = GetFrameEnd(t[m])
      <4>1. ~(m < Len(t)) /\ m = Len(t)
        BY <3>1, <3>4
      <4>2. s[m].from < s[m].base /\ GetFrameEnd(s[m]) < StackCapacity
        BY <3>1, <3>6 DEF Sound
      <4>3. w <= w /\ t[m].needs = t[m].code.size /\ w = t[m].code.size
        BY <3>2, <3>4 DEF w
      <4>4. t[m].from < t[m].base /\ GetFrameEnd(t[m]) < StackCapacity
        BY <3>1, <3>4, <4>2
      <4> QED BY <3>2, <3>4, <4>1, <4>3, <4>4 DEF Sound, Floor
    <3> QED BY <1>1, <1>2, <3>1, <3>4, <3>5, <3>7 DEF m, EndOf
  <2>3. CASE n > 1 /\ s[n - 1].is # "frame"
    <3> DEFINE m == n - 1
    <3>1. /\ m \in Nat /\ m > 0 /\ m = Len(f) /\ f[m] = s[m] /\ f[m].is # "frame"
          /\ f[m] \in Activations /\ s[m] \in Activations
      BY <1>2, <2>3
    <3>2. t = f
      BY <3>1 DEF Resumed, f
    <3>3. Sound(s, m) /\ m < Len(s) /\ m \in 1..n
      BY <1>1, <1>2, <2>3
    <3>4. Sound(f, m) /\ (f[m].is # "native" => Floor(f, m) = EndOf(s[m]))
      <4>1. ~(m < Len(f))
        BY <3>1
      <4>2. f[m].is \in {"list", "native"}
        BY <3>1, ActivationKinds
      <4> QED BY <3>1, <3>3, <4>1, <4>2 DEF Sound, Floor, EndOf
    <3> HIDE DEF m
    <3>5. \A i \in 1..(n - 2) : Sound(s, i)
      BY <1>1, <1>2
    <3> QED BY <1>2, <3>2, <3>4, <3>5 DEF m
  <2> QED BY <1>2, <2>1, <2>2, <2>3
<1>4. \A i \in 1..Len(t) : Sound(t, i)
  <2> SUFFICES ASSUME NEW i \in 1..Len(t) PROVE Sound(t, i)
    OBVIOUS
  <2>1. i \in 1..(n - 2) \/ (i = n - 1 /\ n > 1)
    BY <1>2, <1>3
  <2> QED BY <1>3, <2>1
<1>5. Ordered(t)
  <2> SUFFICES ASSUME NEW i \in 1..Len(t), NEW j \in 1..Len(t), i < j, Above(t, i),
                      t[i].is # "native", t[j].is # "native"
               PROVE  Floor(t, i) <= Begin(t[j])
    BY DEF Ordered
  <2>1. i \in 1..(n - 2) /\ i \in 1..(n - 1) /\ j \in 1..(n - 1) /\ i \in 1..n /\ j \in 1..n
    BY <1>2, <1>3
  <2>2. Floor(s, i) <= Begin(s[j])
    BY <1>1, <1>3, <2>1 DEF Ordered
  <2> QED BY <1>3, <2>1, <2>2 DEF Begin
<1>6. Covered(t, q)
  <2> SUFFICES ASSUME NEW i \in 1..Len(t), Above(t, i), t[i].is # "native"
               PROVE  Floor(t, i) <= q
    BY DEF Covered
  <2>1. i \in 1..(n - 1) /\ (i \in 1..(n - 2) \/ (i = n - 1 /\ n > 1))
    BY <1>2, <1>3
  <2> QED BY <1>3, <2>1
<1> QED BY <1>3, <1>4, <1>5, <1>6 DEF Stacked

\* What GainFrame leaves, for a frame that begins above the floors of the
\* activations below it.
LEMMA EnterStacked ==
  ASSUME StackInv, NEW s \in Seq(Activations), NEW n, n = Len(s),
         \A i \in 1..(n - 1) : Sound(s, i), Ordered(s),
         NEW from \in Nat, NEW argc \in Nat, NEW code \in FrameCodes, NEW inline \in BOOLEAN,
         Enter(s, from, argc, code, inline),
         NEW a, a = FrameOf(from, from + argc + 1 + Missing(code, argc), code, inline),
         NEW t, t = Append(s, a), n > 0 => Sound(t, n),
         \A i \in 1..n : Above(s, i) /\ s[i].is # "native" => Floor(t, i) <= from
  PROVE  StackInv'
<1> DEFINE diff == Missing(code, argc)
           top == from + argc + 1
<1>1. /\ diff \in Nat /\ code.size \in Nat /\ code.params \in Nat /\ top \in Nat
      /\ Header \in Nat \ {0} /\ StackCapacity \in Nat /\ top = from + argc + 1
  BY FrameStackAssumption DEF Missing
<1>2. CASE Fits(top, Header + code.size + diff)
  <2>1. calls' = t /\ sp' = top + diff + Header + code.size /\ a = FrameOf(from, top + diff, code, inline)
    BY <1>2 DEF Enter
  <2>2. top + (Header + code.size + diff) < StackCapacity
    BY <1>2 DEF Fits
  <2> HIDE DEF diff, top
  <2>3. /\ a.is = "frame" /\ a.from = from /\ a.base = top + diff /\ a.code = code
        /\ a.needs = code.size
    BY <2>1 DEF FrameOf
  <2>4. a \in Activations
    <3>1. top + diff \in Nat
      BY <1>1
    <3> QED BY <1>1, <2>1, <3>1 DEF Frames, FrameOf, Activations
  <2>5. GetFrameEnd(a) = top + diff + Header + code.size
    BY <1>1, <2>3 DEF GetFrameEnd, RegisterFile
  <2>6. /\ sp' \in 0..(StackCapacity - 1) /\ from <= sp' /\ sp' = GetFrameEnd(a)
        /\ a.from < a.base /\ GetFrameEnd(a) < StackCapacity
    <3> DEFINE e == top + diff + Header + code.size
    <3>1. /\ e \in Nat /\ from <= e /\ e < StackCapacity /\ from < top + diff
      BY SMTT(30), <1>1, <2>2
    <3>2. sp' = e /\ GetFrameEnd(a) = e
      BY <2>1, <2>5
    <3> HIDE DEF e
    <3>3. e \in 0..(StackCapacity - 1)
      BY <1>1, <3>1
    <3> QED BY <2>3, <3>1, <3>2, <3>3
  <2>7. /\ n \in Nat /\ Len(t) = n + 1 /\ t[n + 1] = a
        /\ \A i \in 1..n : t[i] = s[i]
        /\ \A i \in 1..(n - 1) : Sound(t, i) <=> Sound(s, i)
        /\ t \in Seq(Activations)
    <3>1. s \in Seq(Activations) /\ a \in Activations /\ t = Append(s, a) /\ n = Len(s)
      BY <2>4
    <3>2. n \in Nat /\ Len(t) = n + 1 /\ t[n + 1] = a /\ t \in Seq(Activations)
      BY ONLY <3>1, AppendedParts
    <3>3. \A i \in 1..n : t[i] = s[i]
      BY ONLY <3>1, AppendedParts
    <3>4. \A i \in 1..(n - 1) : Sound(t, i) <=> Sound(s, i)
      BY ONLY <3>1, AppendedParts
    <3> QED BY <3>2, <3>3, <3>4
  <2>8. Sound(t, n + 1) /\ Floor(t, n + 1) = GetFrameEnd(a)
    <3>1. ~(n + 1 < Len(t)) /\ code.size <= code.size
      BY <1>1, <2>7
    <3> QED BY <2>3, <2>6, <2>7, <3>1 DEF Sound, Floor
  <2>9. PICK q : q = sp'
    OBVIOUS
  <2>10. ASSUME NEW i \in 1..n, Above(s, i), s[i].is # "native" PROVE Floor(t, i) <= q
    <3>1. i \in 1..Len(t) /\ Sound(t, i) /\ t[i].is # "native"
      BY <2>7, <2>10
    <3>2. Floor(t, i) \in Nat
      BY <2>7, <3>1, FloorAbove
    <3> QED BY <2>6, <2>9, <2>10, <3>2
  <2>11. Stacked(t, q)
    <3>1. /\ s \in Seq(Activations) /\ a \in Activations /\ t = Append(s, a) /\ n = Len(s)
          /\ \A i \in 1..(n - 1) : Sound(s, i)
          /\ n > 0 => Sound(t, n)
          /\ Sound(t, n + 1)
          /\ Ordered(s)
          /\ a.is # "native" =>
               \A i \in 1..n : Above(s, i) /\ s[i].is # "native" => Floor(t, i) <= a.from
          /\ \A i \in 1..n : Above(s, i) /\ s[i].is # "native" => Floor(t, i) <= q
          /\ a.is # "native" => Floor(t, n + 1) <= q
      BY <2>3, <2>4, <2>6, <2>8, <2>9, <2>10
    <3> QED BY ONLY <3>1, PushStacked
  <2> QED BY <2>1, <2>6, <2>9, <2>11 DEF StackInv
<1>3. CASE ~Fits(top, Header + code.size + diff)
  <2>1. calls' = calls /\ sp' = sp
    BY <1>3 DEF Enter
  <2> QED BY <2>1 DEF StackInv
<1> QED BY <1>2, <1>3

\* What the calls of a frame that runs begin with.
LEMMA CallerKnown ==
  ASSUME StackInv, InFrame, NEW n, n = Len(calls), NEW w \in 0..Innermost.code.size,
         NEW u, u = Needing(w)
  PROVE  /\ n \in Nat /\ n > 0 /\ calls \in Seq(Activations) /\ Innermost = calls[n]
         /\ calls[n].is = "frame" /\ calls[n] \in Activations /\ u = Retuned(calls, n, w)
         /\ \A i \in 1..n : Sound(calls, i)
         /\ u \in Seq(Activations) /\ Len(u) = n /\ Ordered(u)
         /\ \A i \in 1..(n - 1) : Above(u, i) /\ u[i].is # "native" => Floor(u, i) <= calls[n].from
         /\ \A i \in 1..(n - 1) : Sound(u, i)
<1>1. /\ n \in Nat /\ n > 0 /\ calls \in Seq(Activations) /\ Innermost = calls[n]
      /\ calls[n].is = "frame" /\ calls[n] \in Activations
  <2>1. calls \in Seq(Activations) /\ calls # <<>>
    BY DEF StackInv, Stacked, InFrame
  <2>2. n \in Nat /\ n > 0 /\ Innermost = calls[n]
    BY <2>1, EmptySeq, LenProperties DEF Innermost, Last
  <2> QED BY <2>1, <2>2 DEF InFrame
<1>2. (\A i \in 1..n : Sound(calls, i)) /\ Ordered(calls)
  BY DEF StackInv, Stacked
<1>3. u = Retuned(calls, n, w)
  BY DEF Needing, Retuned
<1>4. w \in Nat
  BY <1>1, ActivationKinds
<1>5. /\ calls \in Seq(Activations) /\ n = Len(calls) /\ n > 0 /\ calls[n].is = "frame"
      /\ w \in Nat /\ u = Retuned(calls, n, w)
  BY <1>1, <1>3, <1>4
<1>6. u \in Seq(Activations) /\ Len(u) = n
  BY ONLY <1>5, NeedsAlone
<1>7. \A i \in 1..n : u[i].is = calls[i].is /\ u[i].from = calls[i].from /\ (Above(u, i) <=> Above(calls, i))
  BY ONLY <1>5, NeedsAlone
<1>8. \A i \in 1..(n - 1) : Sound(u, i) <=> Sound(calls, i)
  BY ONLY <1>5, NeedsAlone
<1>9. \A i \in 1..(n - 1) : Floor(u, i) = Floor(calls, i)
  BY ONLY <1>5, NeedsAlone
<1>10. ASSUME NEW i \in 1..n, NEW j \in 1..n, i < j, Above(u, i), u[i].is # "native", u[j].is # "native"
       PROVE  Floor(u, i) <= Begin(u[j])
  <2>1. i \in 1..(n - 1) /\ Above(calls, i) /\ calls[i].is # "native" /\ calls[j].is # "native"
    BY <1>1, <1>7, <1>10
  <2>2. Floor(calls, i) <= Begin(calls[j])
    BY <1>2, <1>10, <2>1 DEF Ordered
  <2> QED BY <1>7, <1>9, <2>1, <2>2 DEF Begin
<1>11. Ordered(u)
  BY <1>6, <1>10 DEF Ordered
<1>12. ASSUME NEW i \in 1..(n - 1), Above(u, i), u[i].is # "native"
       PROVE  Floor(u, i) <= calls[n].from
  <2>1. i \in 1..n /\ n \in 1..n /\ i < n /\ u[n].is # "native"
    BY <1>1, <1>7
  <2>2. Floor(u, i) <= Begin(u[n])
    BY <1>10, <1>12, <2>1
  <2> QED BY <1>7, <2>1, <2>2 DEF Begin
<1>13. \A i \in 1..(n - 1) : Sound(u, i)
  BY <1>1, <1>2, <1>8
<1> QED BY <1>1, <1>2, <1>3, <1>6, <1>11, <1>12, <1>13

\* A call in place: the window begins where what its caller needs ends.
LEMMA CallInlineStacked ==
  ASSUME StackInv, NEW w \in 0..Innermost.code.size, NEW argc \in Nat, NEW code \in FrameCodes,
         CallInline(w, argc, code)
  PROVE  StackInv'
<1>1. InFrame /\ w + argc + 1 <= Innermost.code.size
  BY DEF CallInline
<1> DEFINE n == Len(calls)
           from == RegisterFile(calls[n]) + w
<1>2. PICK u : u = Needing(w)
  OBVIOUS
<1>3. /\ n \in Nat /\ n > 0 /\ calls \in Seq(Activations) /\ Innermost = calls[n]
      /\ calls[n].is = "frame" /\ calls[n] \in Activations /\ u = Retuned(calls, n, w)
      /\ Sound(calls, n)
      /\ u \in Seq(Activations) /\ Len(u) = n /\ Ordered(u)
      /\ \A i \in 1..(n - 1) : Above(u, i) /\ u[i].is # "native" => Floor(u, i) <= calls[n].from
      /\ \A i \in 1..(n - 1) : Sound(u, i)
  BY <1>1, <1>2, CallerKnown
<1>4. /\ calls[n].from \in Nat /\ calls[n].base \in Nat /\ calls[n].code.size \in Nat
      /\ RegisterFile(calls[n]) \in Nat /\ RegisterFile(calls[n]) = calls[n].base + Header
      /\ Header \in Nat /\ w \in Nat
  BY <1>3, ActivationKinds, FrameStackAssumption
<1>5. /\ calls[n].from < calls[n].base /\ calls[n].code.size \in Nat
      /\ GetFrameEnd(calls[n]) < StackCapacity
  BY <1>3, <1>4 DEF Sound
<1>6. from \in Nat /\ calls[n].from <= from
  BY SMTT(30), <1>4, <1>5
<1>7. /\ u[n].is = "frame" /\ u[n].from = calls[n].from /\ u[n].base = calls[n].base
      /\ u[n].code = calls[n].code /\ u[n].needs = w
      /\ RegisterFile(u[n]) = RegisterFile(calls[n]) /\ GetFrameEnd(u[n]) = GetFrameEnd(calls[n])
  <2>1. /\ calls \in Seq(Activations) /\ n = Len(calls) /\ n > 0 /\ calls[n].is = "frame"
        /\ w \in Nat /\ u = Retuned(calls, n, w)
    BY <1>3, <1>4
  <2> HIDE DEF n
  <2> QED BY ONLY <2>1, NeedsAlone
<1>8. Enter(u, from, argc, code, TRUE)
  BY <1>2, <1>3 DEF CallInline
<1> HIDE DEF n, from
<1>9. PICK a : a = FrameOf(from, from + argc + 1 + Missing(code, argc), code, TRUE)
  OBVIOUS
<1>10. PICK t : t = Append(u, a)
  OBVIOUS
<1>11. a \in Activations /\ a.is = "frame" /\ a.from = from
  <2>1. from + argc + 1 + Missing(code, argc) \in Nat /\ code.size \in Nat
    BY <1>6, FrameStackAssumption DEF Missing
  <2> QED BY <1>6, <1>9, <2>1 DEF FrameOf, Activations, Frames
<1>12. u \in Seq(Activations) /\ a \in Activations /\ t = Append(u, a) /\ n = Len(u)
  BY <1>3, <1>10, <1>11
<1>13. /\ n \in Nat /\ Len(t) = n + 1 /\ t[n + 1] = a
       /\ \A i \in 1..n : t[i] = u[i]
  BY ONLY <1>12, AppendedParts
<1>14. \A i \in 1..(n - 1) : Floor(t, i) = Floor(u, i)
  BY ONLY ZenonT(60), <1>12, AppendedParts
<1>15. /\ n < Len(t) /\ n # Len(t) /\ t[n] = u[n] /\ t[n + 1].is = "frame"
  BY <1>3, <1>11, <1>13
<1>16. Sound(t, n) /\ Floor(t, n) = from
  <2>1. w <= calls[n].code.size
    BY <1>3
  <2>2. Floor(t, n) = RegisterFile(t[n]) + t[n].needs
    BY <1>7, <1>15 DEF Floor
  <2> QED BY <1>5, <1>7, <1>15, <2>1, <2>2 DEF Sound, from
<1>17. ASSUME NEW i \in 1..n, Above(u, i), u[i].is # "native"
       PROVE  Floor(t, i) <= from
  <2>1. CASE i = n
    BY <1>6, <1>16, <2>1
  <2>2. CASE i # n
    <3>1. i \in 1..(n - 1) /\ i \in 1..Len(u) /\ Sound(u, i)
      BY <1>3, <2>2
    <3>2. Floor(u, i) <= calls[n].from /\ Floor(u, i) \in Nat
      BY <1>3, <1>17, <3>1, FloorAbove
    <3> QED BY <1>4, <1>6, <1>14, <3>1, <3>2
  <2> QED BY <2>1, <2>2
<1>18. /\ StackInv /\ u \in Seq(Activations) /\ n = Len(u)
       /\ (\A i \in 1..(n - 1) : Sound(u, i)) /\ Ordered(u)
       /\ from \in Nat /\ argc \in Nat /\ code \in FrameCodes /\ TRUE \in BOOLEAN
       /\ Enter(u, from, argc, code, TRUE)
       /\ a = FrameOf(from, from + argc + 1 + Missing(code, argc), code, TRUE)
       /\ t = Append(u, a) /\ (n > 0 => Sound(t, n))
       /\ \A i \in 1..n : Above(u, i) /\ u[i].is # "native" => Floor(t, i) <= from
  BY <1>3, <1>6, <1>8, <1>9, <1>10, <1>16, <1>17
<1> QED BY ONLY <1>18, EnterStacked

\* A native function that is called in place: its caller keeps its arguments, and
\* goes on with all its registers.
LEMMA CallNativeStacked ==
  ASSUME StackInv, NEW w \in 0..Innermost.code.size, NEW argc \in Nat, CallNative(w, argc)
  PROVE  StackInv'
<1>1. InFrame /\ w + argc + 1 <= Innermost.code.size
  BY DEF CallNative
<1> DEFINE n == Len(calls)
           v == w + argc + 1
<1>2. PICK u : u = Needing(v)
  OBVIOUS
<1>3. v \in 0..Innermost.code.size
  <2>1. calls \in Seq(Activations) /\ calls # <<>>
    BY <1>1 DEF StackInv, Stacked, InFrame
  <2>2. Innermost \in Activations /\ Innermost.is = "frame"
    BY <1>1, <2>1, EmptySeq, LenProperties DEF Innermost, Last, InFrame
  <2> QED BY <1>1, <2>2, ActivationKinds
<1> HIDE DEF n, v
<1>4. /\ n \in Nat /\ n > 0 /\ calls \in Seq(Activations) /\ Innermost = calls[n]
      /\ calls[n].is = "frame" /\ calls[n] \in Activations /\ u = Retuned(calls, n, v)
      /\ Sound(calls, n) /\ n = Len(calls)
      /\ u \in Seq(Activations) /\ Len(u) = n /\ Ordered(u)
      /\ \A i \in 1..(n - 1) : Above(u, i) /\ u[i].is # "native" => Floor(u, i) <= calls[n].from
      /\ \A i \in 1..(n - 1) : Sound(u, i)
  <2>1. StackInv /\ InFrame /\ n = Len(calls) /\ v \in 0..Innermost.code.size /\ u = Needing(v)
    BY <1>1, <1>2, <1>3 DEF n
  <2>2. /\ n \in Nat /\ n > 0 /\ calls \in Seq(Activations) /\ Innermost = calls[n]
        /\ calls[n].is = "frame" /\ calls[n] \in Activations /\ u = Retuned(calls, n, v)
        /\ \A i \in 1..n : Sound(calls, i)
        /\ u \in Seq(Activations) /\ Len(u) = n /\ Ordered(u)
    BY ONLY <2>1, CallerKnown
  <2>3. \A i \in 1..(n - 1) : Above(u, i) /\ u[i].is # "native" => Floor(u, i) <= calls[n].from
    BY ONLY <2>1, CallerKnown
  <2>4. \A i \in 1..(n - 1) : Sound(u, i)
    BY ONLY <2>1, CallerKnown
  <2> QED BY <2>1, <2>2, <2>3, <2>4
<1>5. /\ calls[n].from \in Nat /\ calls[n].base \in Nat /\ calls[n].code.size \in Nat
      /\ GetFrameEnd(calls[n]) \in Nat /\ v \in Nat /\ sp \in Nat
      /\ GetFrameEnd(calls[n]) = calls[n].base + Header + calls[n].code.size /\ Header \in Nat
  BY <1>3, <1>4, ActivationKinds, FrameStackAssumption DEF StackInv
<1>6. calls[n].from < calls[n].base /\ GetFrameEnd(calls[n]) < StackCapacity
  BY <1>4, <1>5 DEF Sound
<1>7. /\ u[n].is = "frame" /\ u[n].from = calls[n].from /\ u[n].base = calls[n].base
      /\ u[n].code = calls[n].code /\ u[n].needs = v
      /\ GetFrameEnd(u[n]) = GetFrameEnd(calls[n])
  <2>1. /\ calls \in Seq(Activations) /\ n = Len(calls) /\ n > 0 /\ calls[n].is = "frame"
        /\ v \in Nat /\ u = Retuned(calls, n, v)
    BY <1>4, <1>5
  <2> QED BY ONLY SMTT(30), <2>1, NeedsAlone
<1>8. GetFrameEnd(calls[n]) <= sp
  <2>1. ~(n < Len(calls)) /\ n \in 1..n /\ Above(calls, n) /\ calls[n].is # "native"
    BY <1>4 DEF Above
  <2>2. Floor(calls, n) = GetFrameEnd(calls[n])
    BY <1>4, <2>1 DEF Floor
  <2> QED BY <1>4, <2>1, <2>2 DEF StackInv, Stacked, Covered
<1>9. PICK a : a = NativeCall
  OBVIOUS
<1>10. PICK t : t = Append(u, a)
  OBVIOUS
<1>11. a \in Activations /\ a.is = "native"
  BY <1>9 DEF NativeCall, Activations, Natives
<1>12. u \in Seq(Activations) /\ a \in Activations /\ t = Append(u, a) /\ n = Len(u)
  BY <1>4, <1>10, <1>11
<1>13. /\ n \in Nat /\ Len(t) = n + 1 /\ t[n + 1] = a
       /\ \A i \in 1..n : t[i] = u[i]
  BY ONLY <1>12, AppendedParts
<1>14. \A i \in 1..(n - 1) : Floor(t, i) = Floor(u, i)
  BY ONLY ZenonT(60), <1>12, AppendedParts
<1>15. n < Len(t) /\ n # Len(t) /\ t[n] = u[n] /\ t[n + 1].is = "native"
  BY <1>4, <1>11, <1>13
<1>16. Sound(t, n) /\ Floor(t, n) = GetFrameEnd(calls[n])
  <2>1. v <= calls[n].code.size
    BY <1>3, <1>4
  <2> QED BY <1>6, <1>7, <1>15, <2>1 DEF Sound, Floor
<1>17. calls[n].from \in Nat /\ calls[n].from <= sp /\ sp \in Nat
  BY <1>5, <1>6, <1>8
<1>18. ASSUME NEW i \in 1..n, Above(u, i), u[i].is # "native"
       PROVE  Floor(t, i) <= sp
  <2>1. CASE i = n
    BY <1>8, <1>16, <2>1
  <2>2. CASE i # n
    <3>1. i \in 1..(n - 1) /\ i \in 1..Len(u) /\ Sound(u, i)
      BY <1>4, <2>2
    <3>2. Floor(u, i) <= calls[n].from
      BY <1>4, <1>18, <3>1
    <3>3. u \in Seq(Activations) /\ i \in 1..Len(u) /\ Sound(u, i) /\ u[i].is # "native"
      BY <1>4, <1>18, <3>1
    <3>4. Floor(u, i) \in Nat
      BY <3>3, FloorAbove
    <3>5. Floor(t, i) = Floor(u, i)
      BY <1>14, <3>1
    <3> QED BY ONLY <1>17, <3>2, <3>4, <3>5
  <2> QED BY <2>1, <2>2
<1>19. Sound(t, n + 1)
  <2>1. ~(n + 1 < Len(t))
    BY <1>4, <1>13
  <2> QED BY <1>11, <1>13, <2>1 DEF Sound
<1>20. Stacked(t, sp)
  <2>1. /\ u \in Seq(Activations) /\ a \in Activations /\ t = Append(u, a) /\ n = Len(u)
        /\ \A i \in 1..(n - 1) : Sound(u, i)
        /\ n > 0 => Sound(t, n)
        /\ Sound(t, n + 1)
        /\ Ordered(u)
        /\ a.is # "native" =>
             \A i \in 1..n : Above(u, i) /\ u[i].is # "native" => Floor(t, i) <= a.from
        /\ \A i \in 1..n : Above(u, i) /\ u[i].is # "native" => Floor(t, i) <= sp
        /\ a.is # "native" => Floor(t, n + 1) <= sp
    BY <1>4, <1>11, <1>12, <1>16, <1>18, <1>19
  <2> QED BY ONLY <2>1, PushStacked
<1>21. calls' = t /\ sp' = sp
  BY <1>2, <1>9, <1>10 DEF CallNative, v
<1> QED BY <1>20, <1>21 DEF StackInv

\* The list that native code fills, on top.
LEMMA ListKnown ==
  ASSUME StackInv, InList, NEW n, n = Len(calls)
  PROVE  /\ n \in Nat /\ n > 0 /\ calls \in Seq(Activations) /\ Innermost = calls[n]
         /\ calls[n].is = "list" /\ calls[n].from \in Nat /\ calls[n].n \in Nat
         /\ calls[n].from < StackCapacity
         /\ \A i \in 1..n : Sound(calls, i)
         /\ Ordered(calls)
         /\ \A i \in 1..(n - 1) : Above(calls, i) /\ calls[i].is # "native" =>
               Floor(calls, i) <= calls[n].from
<1>1. calls \in Seq(Activations) /\ calls # <<>>
  BY DEF StackInv, Stacked, InList
<1>2. n \in Nat /\ n > 0 /\ Innermost = calls[n] /\ calls[n].is = "list" /\ calls[n] \in Activations
  BY <1>1, EmptySeq, LenProperties DEF Innermost, Last, InList
<1>3. (\A i \in 1..n : Sound(calls, i)) /\ Ordered(calls)
  BY DEF StackInv, Stacked
<1>4. calls[n].from \in Nat /\ calls[n].n \in Nat /\ calls[n].from < StackCapacity
  <2>1. Sound(calls, n)
    BY <1>2, <1>3
  <2> QED BY <1>2, <2>1, ActivationKinds DEF Sound
<1>5. ASSUME NEW i \in 1..(n - 1), Above(calls, i), calls[i].is # "native"
      PROVE  Floor(calls, i) <= calls[n].from
  <2>1. i \in 1..n /\ n \in 1..n /\ i < n /\ calls[n].is # "native"
    BY <1>2
  <2>2. Floor(calls, i) <= Begin(calls[n])
    BY <1>3, <1>5, <2>1 DEF Ordered
  <2> QED BY <2>2 DEF Begin
<1> QED BY <1>1, <1>2, <1>3, <1>4, <1>5

\* A frame that native code enters takes its list over.
LEMMA ExecuteStacked ==
  ASSUME StackInv, NEW code \in FrameCodes, Execute(code)
  PROVE  StackInv'
<1>1. InList /\ Enter(calls, Innermost.from, Innermost.n, code, FALSE)
  BY DEF Execute
<1> DEFINE n == Len(calls)
<1>2. /\ n \in Nat /\ n > 0 /\ calls \in Seq(Activations) /\ Innermost = calls[n] /\ n = Len(calls)
      /\ calls[n].is = "list" /\ calls[n].from \in Nat /\ calls[n].n \in Nat
      /\ calls[n].from < StackCapacity
      /\ \A i \in 1..n : Sound(calls, i)
      /\ Ordered(calls)
      /\ \A i \in 1..(n - 1) : Above(calls, i) /\ calls[i].is # "native" =>
            Floor(calls, i) <= calls[n].from
  BY <1>1, ListKnown
<1> HIDE DEF n
<1>3. PICK from : from = calls[n].from
  OBVIOUS
<1>4. PICK argc : argc = calls[n].n
  OBVIOUS
<1>5. from \in Nat /\ argc \in Nat /\ Missing(code, argc) \in Nat /\ code.size \in Nat
  BY <1>2, <1>3, <1>4, FrameStackAssumption DEF Missing
<1>6. PICK a : a = FrameOf(from, from + argc + 1 + Missing(code, argc), code, FALSE)
  OBVIOUS
<1>7. PICK t : t = Append(calls, a)
  OBVIOUS
<1>8. /\ a \in Activations /\ a.is = "frame" /\ a.from = from
      /\ a.base = from + argc + 1 + Missing(code, argc)
  <2>1. from + argc + 1 + Missing(code, argc) \in Nat
    BY <1>5
  <2> QED BY <1>5, <1>6, <2>1 DEF FrameOf, Activations, Frames
<1>9. calls \in Seq(Activations) /\ a \in Activations /\ t = Append(calls, a) /\ n = Len(calls)
  BY <1>2, <1>7, <1>8
<1>10. /\ n \in Nat /\ Len(t) = n + 1 /\ t[n + 1] = a
       /\ \A i \in 1..n : t[i] = calls[i]
  BY ONLY <1>9, AppendedParts
<1>11. \A i \in 1..(n - 1) : Floor(t, i) = Floor(calls, i)
  BY ONLY ZenonT(60), <1>9, AppendedParts
<1>12. n < Len(t) /\ t[n] = calls[n] /\ t[n + 1].is = "frame"
  BY <1>2, <1>8, <1>10
<1>13. Sound(t, n) /\ Floor(t, n) = from
  <2>1. t[n + 1].from = t[n].from /\ t[n].from + t[n].n < t[n + 1].base
    BY SMTT(30), <1>3, <1>4, <1>5, <1>8, <1>10, <1>12
  <2> QED BY <1>2, <1>3, <1>12, <2>1 DEF Sound, Floor
<1>14. ASSUME NEW i \in 1..n, Above(calls, i), calls[i].is # "native"
       PROVE  Floor(t, i) <= from
  <2>1. CASE i = n
    BY <1>5, <1>13, <2>1
  <2>2. CASE i # n
    <3>1. i \in 1..(n - 1)
      BY <1>2, <2>2
    <3> QED BY <1>2, <1>3, <1>11, <1>14, <3>1
  <2> QED BY <2>1, <2>2
<1>15. Enter(calls, from, argc, code, FALSE)
  BY <1>1, <1>2, <1>3, <1>4
<1>16. /\ StackInv /\ calls \in Seq(Activations) /\ n = Len(calls)
       /\ (\A i \in 1..(n - 1) : Sound(calls, i)) /\ Ordered(calls)
       /\ from \in Nat /\ argc \in Nat /\ code \in FrameCodes /\ FALSE \in BOOLEAN
       /\ Enter(calls, from, argc, code, FALSE)
       /\ a = FrameOf(from, from + argc + 1 + Missing(code, argc), code, FALSE)
       /\ t = Append(calls, a) /\ (n > 0 => Sound(t, n))
       /\ \A i \in 1..n : Above(calls, i) /\ calls[i].is # "native" => Floor(t, i) <= from
  <2>1. \A i \in 1..(n - 1) : Sound(calls, i)
    BY <1>2
  <2>2. n > 0 => Sound(t, n)
    BY <1>13
  <2>3. \A i \in 1..n : Above(calls, i) /\ calls[i].is # "native" => Floor(t, i) <= from
    BY <1>14
  <2> QED BY <1>2, <1>5, <1>6, <1>7, <1>15, <2>1, <2>2, <2>3
<1> QED BY ONLY <1>16, EnterStacked

\* What native code puts on top: a list at the stack pointer, or a native
\* function that is called with a list.
LEMMA OnTopStacked ==
  ASSUME StackInv, NEW n, n = Len(calls), NEW a \in Activations, NEW t, t = Append(calls, a),
         NEW q \in Nat, sp <= q, a.is # "frame", n > 0 => calls[n].is # "frame",
         n > 0 /\ calls[n].is = "native" => a.is = "list",
         a.is = "list" => a.from = sp /\ a.from + a.n + 1 <= q
  PROVE  Stacked(t, q)
<1>1. /\ calls \in Seq(Activations) /\ Ordered(calls) /\ Covered(calls, sp)
      /\ \A i \in 1..n : Sound(calls, i)
  BY DEF StackInv, Stacked
<1>2. sp \in Nat /\ sp < StackCapacity /\ StackCapacity \in Nat
  BY FrameStackAssumption DEF StackInv
<1>3. calls \in Seq(Activations) /\ a \in Activations /\ t = Append(calls, a) /\ n = Len(calls)
  BY <1>1
<1>4. /\ n \in Nat /\ Len(t) = n + 1 /\ t[n + 1] = a /\ t \in Seq(Activations)
      /\ \A i \in 1..n : t[i] = calls[i]
  BY ONLY <1>3, AppendedParts
<1>5. \A i \in 1..(n - 1) : Floor(t, i) = Floor(calls, i)
  BY ONLY ZenonT(60), <1>3, AppendedParts
<1>6. ASSUME n > 0 PROVE Sound(t, n) /\ (calls[n].is # "native" => Floor(t, n) = Floor(calls, n))
  <2>1. /\ Sound(calls, n) /\ t[n] = calls[n] /\ t[n + 1].is # "frame" /\ n < Len(t)
        /\ ~(n < Len(calls)) /\ t[n].is # "frame" /\ calls[n] \in Activations
    BY <1>1, <1>4, <1>6
  <2>2. Sound(t, n)
    <3>1. t[n].is = "native" => t[n + 1].is = "list"
      BY <1>4, <1>6, <2>1
    <3>2. t[n].is \in {"list", "native"}
      BY <2>1, ActivationKinds
    <3> QED BY <2>1, <3>1, <3>2 DEF Sound
  <2>3. ASSUME calls[n].is # "native" PROVE Floor(t, n) = Floor(calls, n)
    <3>1. calls[n].is = "list"
      BY <2>1, <2>3, ActivationKinds
    <3> QED BY <2>1, <3>1 DEF Floor
  <2> QED BY <2>2, <2>3
<1>7. ASSUME NEW i \in 1..n, Above(calls, i), calls[i].is # "native"
      PROVE  Floor(t, i) <= sp /\ Floor(t, i) <= q
  <2>1. Floor(t, i) = Floor(calls, i)
    BY <1>4, <1>5, <1>6, <1>7
  <2>2. Floor(calls, i) <= sp
    BY <1>1, <1>7 DEF Covered
  <2>3. Floor(calls, i) \in Nat
    BY <1>1, <1>7, FloorAbove
  <2> QED BY <1>2, <2>1, <2>2, <2>3
<1>8. Sound(t, n + 1) /\ (a.is # "native" => Floor(t, n + 1) <= q)
  <2>1. ~(n + 1 < Len(t)) /\ a.is \in {"list", "native"}
    BY <1>4, ActivationKinds
  <2> QED BY <1>2, <1>4, <2>1 DEF Sound, Floor
<1>9. /\ calls \in Seq(Activations) /\ a \in Activations /\ t = Append(calls, a) /\ n = Len(calls)
      /\ \A i \in 1..(n - 1) : Sound(calls, i)
      /\ n > 0 => Sound(t, n)
      /\ Sound(t, n + 1)
      /\ Ordered(calls)
      /\ a.is # "native" =>
           \A i \in 1..n : Above(calls, i) /\ calls[i].is # "native" => Floor(t, i) <= a.from
      /\ \A i \in 1..n : Above(calls, i) /\ calls[i].is # "native" => Floor(t, i) <= q
      /\ a.is # "native" => Floor(t, n + 1) <= q
  <2>1. a.is # "native" => a.from = sp
    BY ActivationKinds
  <2> QED BY <1>1, <1>3, <1>6, <1>7, <1>8, <2>1
<1> QED BY ONLY <1>9, PushStacked

\* A new list: a stack overflow leaves the stack as it is.
LEMMA NewListStacked ==
  ASSUME StackInv, NEW k \in Nat, NewList(k)
  PROVE  StackInv'
<1> DEFINE n == Len(calls)
<1>1. n > 0 => calls[n].is # "frame"
  <2>1. calls \in Seq(Activations)
    BY DEF StackInv, Stacked
  <2>2. InNative
    BY DEF NewList
  <2> QED BY <2>1, <2>2, EmptySeq DEF InNative, InFrame, Innermost, Last
<1>2. sp \in Nat /\ StackCapacity \in Nat
  BY FrameStackAssumption DEF StackInv
<1>3. CASE Fits(sp, k + 1)
  <2>1. PICK a : a = ListAt(sp, k)
    OBVIOUS
  <2>2. PICK q : q = sp + k + 1
    OBVIOUS
  <2>3. PICK t : t = Append(calls, a)
    OBVIOUS
  <2>4. a \in Activations /\ a.is = "list" /\ a.from = sp /\ a.n = k
    BY <1>2, <2>1 DEF ListAt, Activations, Lists
  <2>5. /\ StackInv /\ n = Len(calls) /\ a \in Activations /\ t = Append(calls, a)
        /\ q \in Nat /\ sp <= q /\ a.is # "frame" /\ (n > 0 => calls[n].is # "frame")
        /\ (n > 0 /\ calls[n].is = "native" => a.is = "list")
        /\ (a.is = "list" => a.from = sp /\ a.from + a.n + 1 <= q)
    BY <1>1, <1>2, <2>2, <2>3, <2>4
  <2>6. Stacked(t, q)
    BY ONLY <2>5, OnTopStacked
  <2>7. calls' = t /\ sp' = q /\ q \in 0..(StackCapacity - 1)
    BY <1>2, <1>3, <2>1, <2>2, <2>3 DEF NewList, Fits
  <2> QED BY <2>6, <2>7 DEF StackInv
<1>4. CASE ~Fits(sp, k + 1)
  BY <1>4 DEF NewList, StackInv
<1> QED BY <1>3, <1>4

\* A native function that native code calls.
LEMMA InvokeStacked ==
  ASSUME StackInv, Invoke
  PROVE  StackInv'
<1> DEFINE n == Len(calls)
<1>1. InList
  BY DEF Invoke
<1>2. n > 0 /\ calls[n].is = "list"
  BY <1>1, ListKnown
<1>3. PICK a : a = NativeCall
  OBVIOUS
<1>4. PICK t : t = Append(calls, a)
  OBVIOUS
<1>5. a \in Activations /\ a.is = "native" /\ sp \in Nat
  BY <1>3, FrameStackAssumption DEF NativeCall, Activations, Natives, StackInv
<1>6. /\ StackInv /\ n = Len(calls) /\ a \in Activations /\ t = Append(calls, a)
      /\ sp \in Nat /\ sp <= sp /\ a.is # "frame" /\ (n > 0 => calls[n].is # "frame")
      /\ (n > 0 /\ calls[n].is = "native" => a.is = "list")
      /\ (a.is = "list" => a.from = sp /\ a.from + a.n + 1 <= sp)
  BY <1>2, <1>4, <1>5
<1>7. Stacked(t, sp)
  BY ONLY <1>6, OnTopStacked
<1>8. calls' = t /\ sp' = sp
  BY <1>3, <1>4 DEF Invoke
<1> QED BY <1>7, <1>8 DEF StackInv

\* The greatest and the least of some positions.
LEMMA Extremes ==
  ASSUME NEW k \in Nat, NEW S, S \subseteq 1..k, S # {}
  PROVE  /\ Max(S) \in S /\ \A y \in S : Max(S) >= y
         /\ Min(S) \in S /\ \A y \in S : Min(S) <= y
<1>1. PICK p \in S : \A y \in S : p <= y
  <2>1. S \subseteq Nat
    OBVIOUS
  <2> QED BY <2>1, LeastNatural
<1>2. PICK g \in S : \A y \in S : g >= y
  <2> DEFINE T == {k - x : x \in S}
  <2>1. T \subseteq Nat /\ T # {}
    OBVIOUS
  <2>2. PICK m \in T : \A z \in T : m <= z
    BY <2>1, LeastNatural
  <2>3. PICK x \in S : m = k - x
    BY <2>2
  <2>4. ASSUME NEW y \in S PROVE x >= y
    <3>1. k - y \in T
      OBVIOUS
    <3>2. k - x <= k - y
      BY <2>2, <2>3, <3>1
    <3>3. x \in Nat /\ y \in Nat
      OBVIOUS
    <3> QED BY <3>2, <3>3
  <2> QED BY <2>4
<1> QED BY <1>1, <1>2 DEF Max, Min

\* How far the activation below the innermost one goes, unless that is a frame.
LEMMA EndIsFloor ==
  ASSUME StackInv, NEW n, n = Len(calls), n > 1, calls[n].is # "frame", calls[n - 1].is # "native"
  PROVE  EndOf(calls[n - 1]) = Floor(calls, n - 1)
<1>1. calls \in Seq(Activations) /\ n \in Nat
  BY LenProperties DEF StackInv, Stacked
<1>2. /\ calls[n - 1] \in Activations /\ n - 1 \in Nat /\ n - 1 < Len(calls)
      /\ (n - 1) + 1 = n
  BY <1>1
<1>3. calls[n - 1].is \in {"frame", "list"} /\ calls[(n - 1) + 1].is # "frame"
  BY <1>2, ActivationKinds
<1> QED BY <1>3 DEF Floor, EndOf

\* A list that goes: below it are no registers that had been given away.
LEMMA DropListStacked ==
  ASSUME StackInv, DropList
  PROVE  StackInv'
<1> DEFINE n == Len(calls)
<1>1. InList /\ calls' = Front(calls) /\ sp' = Innermost.from
  BY DEF DropList
<1>2. /\ n \in Nat /\ n > 0 /\ calls \in Seq(Activations) /\ Innermost = calls[n]
      /\ calls[n].is = "list" /\ calls[n].from \in Nat /\ calls[n].from < StackCapacity
      /\ \A i \in 1..n : Sound(calls, i)
      /\ \A i \in 1..(n - 1) : Above(calls, i) /\ calls[i].is # "native" =>
            Floor(calls, i) <= calls[n].from
  BY <1>1, ListKnown
<1>3. PICK q : q = calls[n].from
  OBVIOUS
<1>4. PICK t : t = Resumed(Front(calls))
  OBVIOUS
<1>5. t = Front(calls)
  <2>1. Front(calls) \in Seq(Activations) /\ Len(Front(calls)) = n - 1
        /\ \A i \in 1..(n - 1) : Front(calls)[i] = calls[i]
    BY <1>2, FrontParts
  <2>2. CASE n = 1
    <3>1. Front(calls) = <<>>
      BY <2>1, <2>2, EmptySeq
    <3> QED BY <1>4, <3>1 DEF Resumed
  <2>3. CASE n > 1
    <3>1. /\ Sound(calls, n - 1) /\ n - 1 < Len(calls) /\ (n - 1) + 1 = n
          /\ calls[(n - 1) + 1].is = "list"
      BY <1>2, <2>3
    <3>2. calls[n - 1].is # "frame"
      BY <3>1 DEF Sound
    <3>3. Front(calls)[n - 1] = calls[n - 1]
      BY <1>2, <2>1, <2>3
    <3> QED BY <1>4, <2>1, <3>2, <3>3 DEF Resumed
  <2>4. n \in Nat /\ n > 0
    BY <1>2
  <2> HIDE DEF n
  <2>5. n = 1 \/ n > 1
    BY ONLY <2>4
  <2> QED BY ONLY <2>2, <2>3, <2>5
<1>6. ASSUME n > 1, Above(calls, n - 1), calls[n - 1].is # "native"
      PROVE  EndOf(calls[n - 1]) <= q
  <2>1. EndOf(calls[n - 1]) = Floor(calls, n - 1)
    BY <1>2, <1>6, EndIsFloor
  <2>2. n - 1 \in 1..(n - 1)
    BY <1>2, <1>6
  <2> QED BY <1>2, <1>3, <1>6, <2>1, <2>2
<1>7. ASSUME NEW i \in 1..(n - 2), Above(calls, i), calls[i].is # "native"
      PROVE  Floor(calls, i) <= q
  <2>1. i \in 1..(n - 1)
    BY <1>2
  <2> QED BY <1>2, <1>3, <1>7, <2>1
<1> HIDE DEF n
<1>8. /\ Stacked(calls, sp) /\ n = Len(calls) /\ n > 0 /\ t = Resumed(Front(calls))
      /\ \A i \in 1..(n - 2) : Above(calls, i) /\ calls[i].is # "native" => Floor(calls, i) <= q
      /\ n > 1 /\ Above(calls, n - 1) /\ calls[n - 1].is # "native" => EndOf(calls[n - 1]) <= q
  BY <1>2, <1>4, <1>6, <1>7 DEF StackInv, n
<1>9. Stacked(t, q)
  BY ONLY <1>8, PopStacked
<1>10. calls' = t /\ sp' = q /\ q \in 0..(StackCapacity - 1)
  BY <1>1, <1>2, <1>3, <1>5, FrameStackAssumption
<1> QED BY <1>9, <1>10 DEF StackInv

\* A native function that returns or throws.
LEMMA LeaveNativeStacked ==
  ASSUME StackInv, LeaveNative
  PROVE  StackInv'
<1> DEFINE n == Len(calls)
<1>1. calls # <<>> /\ calls' = Resumed(Front(calls)) /\ sp' = sp
  BY DEF LeaveNative
<1>2. calls \in Seq(Activations) /\ Covered(calls, sp)
  BY DEF StackInv, Stacked
<1>3. n \in Nat /\ n > 0 /\ calls[n].is = "native"
  BY <1>1, <1>2, EmptySeq, LenProperties DEF LeaveNative, Innermost, Last
<1>4. PICK t : t = Resumed(Front(calls))
  OBVIOUS
<1>5. ASSUME n > 1, Above(calls, n - 1), calls[n - 1].is # "native"
      PROVE  EndOf(calls[n - 1]) <= sp
  <2>1. EndOf(calls[n - 1]) = Floor(calls, n - 1)
    BY <1>3, <1>5, EndIsFloor
  <2>2. n - 1 \in 1..Len(calls)
    BY <1>3, <1>5
  <2> QED BY <1>2, <1>5, <2>1, <2>2 DEF Covered
<1>6. ASSUME NEW i \in 1..(n - 2), Above(calls, i), calls[i].is # "native"
      PROVE  Floor(calls, i) <= sp
  <2>1. i \in 1..Len(calls)
    BY <1>3
  <2> QED BY <1>2, <1>6, <2>1 DEF Covered
<1> HIDE DEF n
<1>7. /\ Stacked(calls, sp) /\ n = Len(calls) /\ n > 0 /\ t = Resumed(Front(calls))
      /\ \A i \in 1..(n - 2) : Above(calls, i) /\ calls[i].is # "native" => Floor(calls, i) <= sp
      /\ n > 1 /\ Above(calls, n - 1) /\ calls[n - 1].is # "native" => EndOf(calls[n - 1]) <= sp
  BY <1>3, <1>4, <1>5, <1>6 DEF StackInv, n
<1>8. Stacked(t, sp)
  BY ONLY <1>7, PopStacked
<1> QED BY <1>1, <1>4, <1>8 DEF StackInv

\* A return or an exception: the frame that goes on finds its registers below
\* the stack pointer, and native code its list.
LEMMA UnwindStacked ==
  ASSUME StackInv, Unwind
  PROVE  StackInv'
<1> DEFINE n == Len(calls)
           S == FramesIn(Front(calls))
<1>1. InFrame /\ calls' = Resumed(Front(calls)) /\ sp' = RestoreTo(Innermost)
  BY DEF Unwind
<1>2. /\ calls \in Seq(Activations) /\ Ordered(calls) /\ \A i \in 1..n : Sound(calls, i)
  BY DEF StackInv, Stacked
<1>3. n \in Nat /\ n > 0 /\ calls[n].is = "frame" /\ Innermost = calls[n]
  BY <1>1, <1>2, EmptySeq, LenProperties DEF InFrame, Innermost, Last
<1>4. /\ Front(calls) \in Seq(Activations) /\ Len(Front(calls)) = n - 1
      /\ \A i \in 1..(n - 1) : Front(calls)[i] = calls[i]
  BY <1>2, <1>3, FrontParts
<1>5. S \subseteq 1..(n - 1) /\ \A i \in 1..(n - 1) : i \in S <=> calls[i].is = "frame"
  BY <1>4 DEF FramesIn
<1>6. /\ calls[n].from \in Nat /\ calls[n].base \in Nat /\ calls[n].from < calls[n].base
      /\ calls[n].base < StackCapacity /\ StackCapacity \in Nat
  <2>1. calls[n] \in Activations /\ Sound(calls, n)
    BY <1>2, <1>3
  <2>2. GetFrameEnd(calls[n]) < StackCapacity /\ calls[n].from < calls[n].base
    BY <1>3, <2>1 DEF Sound
  <2> QED BY SMTT(30), <1>3, <2>1, <2>2, ActivationKinds, FrameStackAssumption
<1>7. PICK q : q = RestoreTo(calls[n])
  OBVIOUS
<1>8. PICK t : t = Resumed(Front(calls))
  OBVIOUS
<1>9. CASE S = {}
  <2>1. q = 0
    BY <1>7, <1>9 DEF RestoreTo
  <2>2. ASSUME NEW i \in 1..(n - 1) PROVE ~Above(calls, i)
    <3>1. \A j \in 1..i : j \in 1..(n - 1)
      BY <1>3
    <3> QED BY <1>5, <1>9, <3>1 DEF Above
  <2>3. ASSUME NEW i \in 1..(n - 2) PROVE ~Above(calls, i)
    BY <1>3, <2>2
  <2>4. n > 1 => ~Above(calls, n - 1)
    BY <1>3, <2>2
  <2> HIDE DEF n, S
  <2>5. /\ Stacked(calls, sp) /\ n = Len(calls) /\ n > 0 /\ t = Resumed(Front(calls))
        /\ \A i \in 1..(n - 2) : Above(calls, i) /\ calls[i].is # "native" => Floor(calls, i) <= q
        /\ n > 1 /\ Above(calls, n - 1) /\ calls[n - 1].is # "native" => EndOf(calls[n - 1]) <= q
    BY <1>3, <1>8, <2>3, <2>4 DEF StackInv, n
  <2>6. Stacked(t, q)
    BY ONLY <2>5, PopStacked
  <2> QED BY <1>1, <1>3, <1>6, <1>7, <1>8, <2>1, <2>6 DEF StackInv
<1>10. CASE S # {}
  <2>1. PICK m : m = Max(S)
    OBVIOUS
  <2>2. m \in S /\ \A y \in S : m >= y
    <3>1. n - 1 \in Nat
      BY <1>3
    <3> QED BY <1>5, <1>10, <2>1, <3>1, Extremes
  <2>3. m \in 1..(n - 1) /\ m \in 1..n /\ calls[m].is = "frame" /\ calls[m] \in Activations
    BY <1>2, <1>3, <1>5, <2>2
  <2>4. GetFrameEnd(calls[m]) \in Nat /\ GetFrameEnd(calls[m]) < StackCapacity
    <3>1. Sound(calls, m)
      BY <1>2, <2>3
    <3> QED BY <2>3, <3>1, ActivationKinds DEF Sound
  <2>5. q = IF GetFrameEnd(calls[m]) > calls[n].base THEN GetFrameEnd(calls[m]) ELSE calls[n].base
    BY <1>7, <1>10, <2>1 DEF RestoreTo
  <2>6. /\ q \in 0..(StackCapacity - 1) /\ GetFrameEnd(calls[m]) <= q /\ calls[n].base <= q
        /\ q \in Nat
    BY <1>6, <2>4, <2>5
  <2>7. ASSUME NEW i \in 1..(n - 2), Above(calls, i), calls[i].is # "native"
        PROVE  Floor(calls, i) <= q
    <3>1. /\ i \in 1..n /\ n \in 1..n /\ i < n /\ calls[n].is # "native"
          /\ n = Len(calls)
      BY <1>3
    <3>2. Floor(calls, i) <= Begin(calls[n])
      BY <1>2, <2>7, <3>1 DEF Ordered
    <3>3. Floor(calls, i) \in Nat
      BY <1>2, <2>7, <3>1, FloorAbove
    <3> QED BY <1>6, <2>6, <3>2, <3>3 DEF Begin
  <2>8. ASSUME n > 1, Above(calls, n - 1), calls[n - 1].is # "native"
        PROVE  EndOf(calls[n - 1]) <= q
    <3>1. n - 1 \in 1..(n - 1) /\ n - 1 \in 1..n /\ calls[n - 1] \in Activations
      BY <1>2, <1>3, <2>8
    <3>2. CASE calls[n - 1].is = "frame"
      <4>1. n - 1 \in S
        BY <1>5, <3>1, <3>2
      <4>2. m = n - 1
        BY <1>3, <2>2, <2>3, <4>1
      <4> QED BY <2>6, <3>2, <4>2 DEF EndOf
    <3>3. CASE calls[n - 1].is = "list"
      <4>1. /\ Sound(calls, n - 1) /\ n - 1 < Len(calls) /\ (n - 1) + 1 = n
            /\ calls[(n - 1) + 1].is = "frame"
        BY <1>2, <1>3, <3>1
      <4>2. calls[n - 1].from + calls[n - 1].n < calls[n].base
        BY <3>3, <4>1 DEF Sound
      <4>3. calls[n - 1].from \in Nat /\ calls[n - 1].n \in Nat
        BY <3>1, <3>3, ActivationKinds
      <4> QED BY <1>6, <2>6, <3>3, <4>2, <4>3 DEF EndOf
    <3> QED BY <2>8, <3>1, <3>2, <3>3, ActivationKinds
  <2> HIDE DEF n, S
  <2>9. /\ Stacked(calls, sp) /\ n = Len(calls) /\ n > 0 /\ t = Resumed(Front(calls))
        /\ \A i \in 1..(n - 2) : Above(calls, i) /\ calls[i].is # "native" => Floor(calls, i) <= q
        /\ n > 1 /\ Above(calls, n - 1) /\ calls[n - 1].is # "native" => EndOf(calls[n - 1]) <= q
    BY <1>3, <1>8, <2>7, <2>8 DEF StackInv, n
  <2>10. Stacked(t, q)
    BY ONLY <2>9, PopStacked
  <2> QED BY <1>1, <1>3, <1>7, <1>8, <2>6, <2>10 DEF StackInv
<1> QED BY <1>9, <1>10

\* No step moves an activation into another one.
LEMMA StackKept ==
  ASSUME StackInv, [FNext]_fvars
  PROVE  StackInv'
<1>1. ASSUME NEW k \in 0..MaxArgs, NewList(k) PROVE StackInv'
  <2>1. k \in Nat
    BY FrameStackAssumption
  <2> QED BY <1>1, <2>1, NewListStacked
<1>2. CASE Invoke
  BY <1>2, InvokeStacked
<1>3. ASSUME NEW code \in FrameCodes, Execute(code) PROVE StackInv'
  BY <1>3, ExecuteStacked
<1>4. ASSUME NEW w \in 0..Innermost.code.size, NEW argc \in 0..MaxArgs,
             CallNative(w, argc) \/ \E code \in FrameCodes : CallInline(w, argc, code)
      PROVE  StackInv'
  <2>1. argc \in Nat
    BY FrameStackAssumption
  <2>2. CASE CallNative(w, argc)
    BY <2>1, <2>2, CallNativeStacked
  <2>3. ASSUME NEW code \in FrameCodes, CallInline(w, argc, code) PROVE StackInv'
    BY <2>1, <2>3, CallInlineStacked
  <2> QED BY <1>4, <2>2, <2>3
<1>5. CASE DropList
  BY <1>5, DropListStacked
<1>6. CASE LeaveNative
  BY <1>6, LeaveNativeStacked
<1>7. CASE Unwind
  BY <1>7, UnwindStacked
<1>8. CASE UNCHANGED fvars
  BY <1>8 DEF fvars, StackInv
<1> QED BY <1>1, <1>2, <1>3, <1>4, <1>5, <1>6, <1>7, <1>8 DEF FNext

\* An empty stack.
LEMMA StackBegins ==
  ASSUME FInit
  PROVE  StackInv
<1>1. sp = 0 /\ calls = <<>> /\ StackCapacity \in Nat \ {0}
  BY FrameStackAssumption DEF FInit
<1>2. calls \in Seq(Activations) /\ Len(calls) = 0
  BY <1>1, EmptySeq
<1>3. 1..Len(calls) = {}
  BY <1>2
<1> QED BY <1>1, <1>2, <1>3 DEF StackInv, Stacked, Ordered, Covered

\* What an activation asks for lies between its beginning and its floor.
LEMMA AskedBelowFloor ==
  ASSUME StackInv, NEW i \in 1..Len(calls), NEW c \in Asked(i)
  PROVE  /\ calls[i].is # "native" /\ c \in Int /\ Floor(calls, i) \in Nat
         /\ Begin(calls[i]) \in Nat /\ Begin(calls[i]) <= c /\ c < Floor(calls, i)
<1>1. calls \in Seq(Activations) /\ Sound(calls, i) /\ Len(calls) \in Nat
  BY LenProperties DEF StackInv, Stacked
<1>2. calls[i] \in Activations
  BY <1>1
<1>3. CASE calls[i].is = "frame"
  <2>1. /\ calls[i].from \in Nat /\ calls[i].base \in Nat /\ calls[i].needs \in Nat
        /\ calls[i].code.size \in Nat /\ Header \in Nat
        /\ RegisterFile(calls[i]) = calls[i].base + Header
        /\ GetFrameEnd(calls[i]) = calls[i].base + Header + calls[i].code.size
    BY <1>2, <1>3, ActivationKinds, FrameStackAssumption
  <2>2. c \in calls[i].from..(RegisterFile(calls[i]) + calls[i].needs - 1)
    BY <1>3 DEF Asked
  <2>3. calls[i].from < calls[i].base /\ calls[i].needs <= calls[i].code.size
    BY <1>1, <1>3 DEF Sound
  <2>4. \/ Floor(calls, i) = GetFrameEnd(calls[i])
        \/ Floor(calls, i) = RegisterFile(calls[i]) + calls[i].needs
    BY <1>3 DEF Floor
  <2>5. RegisterFile(calls[i]) + calls[i].needs \in Nat
    BY SMTT(30), <2>1
  <2>6. /\ c \in Int /\ calls[i].from <= c
        /\ c < RegisterFile(calls[i]) + calls[i].needs
    BY SMTT(30), <2>1, <2>2, <2>5
  <2>7. /\ Floor(calls, i) \in Nat
        /\ RegisterFile(calls[i]) + calls[i].needs <= Floor(calls, i)
    BY SMTT(30), <2>1, <2>3, <2>4
  <2>8. c < Floor(calls, i)
    BY ONLY <2>5, <2>6, <2>7
  <2> QED BY <1>3, <2>1, <2>6, <2>7, <2>8 DEF Begin
<1>4. CASE calls[i].is = "list"
  <2>1. i = Len(calls) \/ calls[i + 1].is # "frame"
    BY <1>4 DEF Asked
  <2>2. c \in calls[i].from..(calls[i].from + calls[i].n)
    BY <1>4, <2>1 DEF Asked
  <2>3. calls[i].from \in Nat /\ calls[i].n \in Nat
    BY <1>2, <1>4, ActivationKinds
  <2>4. Floor(calls, i) = calls[i].from + calls[i].n + 1
    BY <1>1, <1>4, <2>1 DEF Floor
  <2> QED BY <1>4, <2>2, <2>3, <2>4 DEF Begin
<1>5. CASE calls[i].is = "native"
  BY <1>5 DEF Asked
<1> QED BY <1>2, <1>3, <1>4, <1>5, ActivationKinds

\* What is above the first frame.
LEMMA WithinIsAbove ==
  ASSUME StackInv, NEW i \in Within
  PROVE  i \in 1..Len(calls) /\ Above(calls, i)
<1>1. calls \in Seq(Activations) /\ Len(calls) \in Nat
  BY LenProperties DEF StackInv, Stacked
<1>2. i \in 1..Len(calls)
  BY <1>1 DEF Within
<1>3. PICK j \in DOMAIN SubSeq(calls, 1, i) : SubSeq(calls, 1, i)[j].is = "frame"
  BY DEF Within, FramesIn
<1>4. j \in 1..i /\ SubSeq(calls, 1, i)[j] = calls[j]
  <2>1. /\ DOMAIN SubSeq(calls, 1, i) = 1..(i - 1 + 1)
        /\ \A k \in 1..(i - 1 + 1) : SubSeq(calls, 1, i)[k] = calls[1 + k - 1]
    <3>1. /\ SubSeq(calls, 1, i) \in Seq(Activations)
          /\ Len(SubSeq(calls, 1, i)) = IF 1 <= i THEN i - 1 + 1 ELSE 0
          /\ \A k \in 1..(i - 1 + 1) : SubSeq(calls, 1, i)[k] = calls[1 + k - 1]
      BY <1>1, <1>2, SubSeqProperties
    <3> QED BY <1>2, <3>1
  <2>2. i \in Nat /\ i - 1 + 1 = i
    BY <1>2
  <2>3. j \in 1..i /\ 1 + j - 1 = j
    BY <1>3, <2>1, <2>2
  <2> QED BY <2>1, <2>2, <2>3
<1> QED BY <1>2, <1>3, <1>4 DEF Above

\* No two activations ask for the same cell.
LEMMA AskedApart ==
  ASSUME StackInv, NEW i \in Within, NEW j \in Within, i # j
  PROVE  Asked(i) \cap Asked(j) = {}
<1>1. Ordered(calls) /\ Len(calls) \in Nat
  BY LenProperties DEF StackInv, Stacked
<1>2. ASSUME NEW x \in Within, NEW y \in Within, x < y, NEW c \in Asked(x), c \in Asked(y)
      PROVE  FALSE
  <2>1. x \in 1..Len(calls) /\ y \in 1..Len(calls) /\ Above(calls, x)
    BY WithinIsAbove
  <2>2. calls[x].is # "native" /\ c \in Int /\ Floor(calls, x) \in Nat /\ c < Floor(calls, x)
    BY <2>1, AskedBelowFloor
  <2>3. calls[y].is # "native" /\ Begin(calls[y]) \in Nat /\ Begin(calls[y]) <= c
    BY <1>2, <2>1, AskedBelowFloor
  <2>4. Floor(calls, x) <= Begin(calls[y])
    BY <1>1, <1>2, <2>1, <2>2, <2>3 DEF Ordered
  <2> QED BY <2>2, <2>3, <2>4
<1>3. i < j \/ j < i
  <2>1. i \in 1..Len(calls) /\ j \in 1..Len(calls)
    BY WithinIsAbove
  <2> QED BY <1>1, <2>1
<1> QED BY <1>2, <1>3

\* The collector goes over every cell between the first frame and the stack
\* pointer.
LEMMA MarkedUpToTop ==
  ASSUME StackInv, NEW c \in Int, c < sp, FramesIn(calls) # {},
         calls[Min(FramesIn(calls))].base <= c
  PROVE  c \in Marked \cup Headers
<1> DEFINE fs == FramesIn(calls)
           T == {k \in fs : calls[k].base <= c}
           upTo(k) == IF \E j \in fs : j > k THEN calls[Min({j \in fs : j > k})].base ELSE sp
<1>1. calls \in Seq(Activations) /\ Len(calls) \in Nat
  BY LenProperties DEF StackInv, Stacked
<1>2. fs \subseteq 1..Len(calls) /\ fs # {}
  BY <1>1 DEF FramesIn
<1>3. Min(fs) \in fs
  BY <1>1, <1>2, Extremes
<1>4. T \subseteq 1..Len(calls) /\ T # {}
  BY <1>2, <1>3
<1>5. PICK k \in T : \A y \in T : k >= y
  BY <1>1, <1>4, Extremes
<1>6. k \in fs /\ calls[k].base <= c /\ k \in Nat
  BY <1>2, <1>5
<1>7. \A j \in fs : calls[j].base \in Nat /\ RegisterFile(calls[j]) \in Nat
  <2> TAKE j \in fs
  <2>1. calls[j] \in Activations /\ calls[j].is = "frame"
    BY <1>1, <1>2 DEF FramesIn
  <2> QED BY <2>1, ActivationKinds
<1>8. c < upTo(k) /\ upTo(k) \in Int
  <2>1. CASE \E j \in fs : j > k
    <3> DEFINE U == {j \in fs : j > k}
    <3>1. U \subseteq 1..Len(calls) /\ U # {}
      BY <1>2, <2>1
    <3>2. PICK m : m = Min(U)
      OBVIOUS
    <3>3. m \in fs /\ m > k
      BY <1>1, <3>1, <3>2, Extremes
    <3>4. m \notin T
      BY <1>2, <1>5, <1>6, <3>3
    <3>5. calls[m].base \in Nat /\ ~(calls[m].base <= c)
      BY <1>7, <3>3, <3>4
    <3>6. upTo(k) = calls[m].base
      BY <2>1, <3>2
    <3> HIDE DEF upTo
    <3> QED BY <3>5, <3>6
  <2>2. CASE ~\E j \in fs : j > k
    <3>1. upTo(k) = sp /\ sp \in Int
      BY <2>2, FrameStackAssumption DEF StackInv
    <3> HIDE DEF upTo
    <3> QED BY <3>1
  <2> QED BY <2>1, <2>2
<1>9. PICK u : u = upTo(k)
  OBVIOUS
<1>10. PICK r : r = RegisterFile(calls[k])
  OBVIOUS
<1>11. r \in Int /\ calls[k].base \in Int /\ u \in Int /\ c < u
  BY <1>6, <1>7, <1>8, <1>9, <1>10
<1>12. CASE c < r
  <2>1. c \in calls[k].base..(r - 1)
    BY <1>6, <1>11, <1>12
  <2> QED BY <1>6, <1>10, <2>1 DEF Headers
<1>13. CASE r <= c
  <2>1. c \in r..(u - 1)
    BY <1>11, <1>13
  <2>2. c \in RegisterFile(calls[k])..(upTo(k) - 1)
    BY <1>9, <1>10, <2>1
  <2>3. Marked = UNION {RegisterFile(calls[j])..(upTo(j) - 1) : j \in fs}
    BY DEF Marked
  <2> HIDE DEF upTo, fs
  <2> QED BY <1>6, <2>2, <2>3
<1> QED BY <1>11, <1>12, <1>13

\* All that is asked for is below the stack pointer and marked.
LEMMA AskedSeen ==
  ASSUME StackInv, NEW i \in Within, NEW c \in Asked(i)
  PROVE  /\ c < sp
         /\ c \in Marked \cup Headers \/ c < calls[Min(FramesIn(calls))].base
<1>1. i \in 1..Len(calls) /\ Above(calls, i)
  BY WithinIsAbove
<1>2. calls[i].is # "native" /\ c \in Int /\ Floor(calls, i) \in Nat /\ c < Floor(calls, i)
  BY <1>1, AskedBelowFloor
<1>3. sp \in Nat /\ calls \in Seq(Activations) /\ Len(calls) \in Nat
  BY LenProperties, FrameStackAssumption DEF StackInv, Stacked
<1>4. c < sp
  <2>1. Floor(calls, i) <= sp
    BY <1>1, <1>2 DEF StackInv, Stacked, Covered
  <2> QED BY <1>2, <1>3, <2>1
<1>5. PICK j \in 1..i : calls[j].is = "frame"
  BY <1>1 DEF Above
<1>6. j \in FramesIn(calls)
  BY <1>1, <1>3, <1>5 DEF FramesIn
<1>7. PICK b : b = calls[Min(FramesIn(calls))].base
  OBVIOUS
<1>8. b \in Nat
  <2>1. FramesIn(calls) \subseteq 1..Len(calls) /\ FramesIn(calls) # {}
    BY <1>3, <1>6 DEF FramesIn
  <2>2. Min(FramesIn(calls)) \in FramesIn(calls)
    BY <1>3, <2>1, Extremes
  <2>3. PICK m : m = Min(FramesIn(calls))
    OBVIOUS
  <2>4. calls[m] \in Activations /\ calls[m].is = "frame"
    BY <1>3, <2>1, <2>2, <2>3 DEF FramesIn
  <2> QED BY <1>7, <2>3, <2>4, ActivationKinds
<1>9. CASE b <= c
  BY <1>2, <1>4, <1>6, <1>7, <1>9, MarkedUpToTop
<1>10. CASE c < b
  BY <1>4, <1>7, <1>10
<1> QED BY <1>2, <1>8, <1>9, <1>10

\* For every kStackCapacity, all functions and any nesting of calls: no two
\* activations above the first frame ask for the same cell, all they ask for is
\* below the stack pointer, and the collector sees it.
THEOREM FramesStayApart == FSpec => []ActivationsApart
<1>1. FInit => StackInv
  BY StackBegins
<1>2. StackInv /\ [FNext]_fvars => StackInv'
  BY StackKept
<1>3. StackInv => ActivationsApart
  <2> SUFFICES ASSUME StackInv PROVE ActivationsApart
    OBVIOUS
  <2>1. \A i, j \in Within : i # j => Asked(i) \cap Asked(j) = {}
    BY AskedApart
  <2>2. \A i \in Within : \A c \in Asked(i) : c < sp
    BY AskedSeen
  <2>3. \A i \in Within : \A c \in Asked(i) :
          c \in Marked \cup Headers \/ c < calls[Min(FramesIn(calls))].base
    BY AskedSeen
  <2>4. sp < StackCapacity
    BY FrameStackAssumption DEF StackInv
  <2> QED BY <2>1, <2>2, <2>3, <2>4 DEF ActivationsApart
<1> QED BY <1>1, <1>2, <1>3, PTL DEF FSpec

-----------------------------------------------------------------------------
(* The table of a WeakMap                                                  *)

PlaceKinds ==
  [state : {"EMPTY", "DELETED", "USED"}, key : Cells \cup {"none", "collected"},
   value : WeakValues \cup {"undefined"}]

\* A table of n places: what is used has a key.
Table(v, n) ==
  /\ n \in Nat \ {0} /\ v \in [0..(n - 1) -> PlaceKinds]
  /\ \A k \in 0..(n - 1) : v[k].state = "USED" <=> v[k].key # "none"
UsedIn(v) == {k \in DOMAIN v : v[k].state = "USED"}

\* The place where the i-th look for c goes.
At(n, c, i) == (HashOf[c] + i - 1) % n

\* No key lies behind an empty place of its probe.
Reached(v, n) ==
  \A k \in 0..(n - 1) : v[k].key \in Cells =>
    \E i \in 1..n : /\ At(n, v[k].key, i) = k
                    /\ \A j \in 1..(i - 1) : v[At(n, v[k].key, j)].state # "EMPTY"

\* One place at most has the key.
Once(v, c) == \A k, l \in DOMAIN v : v[k].key = c /\ v[l].key = c => k = l

\* The table holds the entries of the keys that are alive, apart from those that
\* were entered twice, and a quarter of it is free.
Kept(v, m, live, held, two) ==
  /\ \E n \in Nat \ {0} : Table(v, n) /\ Reached(v, n) /\ 4 * m < 3 * n
  /\ m = Cardinality(UsedIn(v))
  /\ live \subseteq Cells /\ two \subseteq live /\ DOMAIN held \subseteq live
  /\ \A k \in DOMAIN v : v[k].key \in Cells => v[k].key \in live
  /\ \A c \in live \ two :
       /\ Once(v, c)
       /\ c \in DOMAIN held <=> \E k \in DOMAIN v : v[k].key = c
       /\ \A k \in DOMAIN v : v[k].key = c => v[k].value = held[c]

WInv == Kept(vector, size, alive, entries, twice) /\ right

\* Multiples of n are n apart.
LEMMA Multiples ==
  ASSUME NEW n \in Nat, NEW x \in Int, NEW y \in Int, x < y
  PROVE  n * x + n <= n * y
<1>1. n * (y - x) = n * y - n * x
  BY SMTT(20)
<1>2. n * (y - x - 1) >= 0
  BY SMTT(20)
<1> QED BY <1>1, <1>2, SMTT(20)

\* The remainder is what is left of a multiple.
LEMMA RemainderOf ==
  ASSUME NEW n \in Nat \ {0}, NEW q \in Nat, NEW k \in 0..(n - 1)
  PROVE  (n * q + k) % n = k
<1> DEFINE a == n * q + k
           d == a \div n
           r == a % n
<1>1. n * q \in Nat /\ a \in Nat
  BY SMTT(20)
<1>2. d \in Int /\ r \in 0..(n - 1) /\ a = n * d + r /\ n * d \in Int
  BY <1>1, SMTT(20)
<1>3. ~(q < d)
  <2>1. q < d => n * q + n <= n * d
    BY <1>2, Multiples
  <2> QED BY <1>1, <1>2, <2>1
<1>4. ~(d < q)
  <2>1. d < q => n * d + n <= n * q
    BY <1>2, Multiples
  <2> QED BY <1>1, <1>2, <2>1
<1>5. d = q
  BY <1>2, <1>3, <1>4
<1> QED BY <1>1, <1>2, <1>5

\* The probe of a key goes over the whole table.
LEMMA ProbeCovers ==
  ASSUME NEW n \in Nat \ {0}, NEW c \in Cells
  PROVE  /\ \A i \in 1..n : At(n, c, i) \in 0..(n - 1)
         /\ \A k \in 0..(n - 1) : \E i \in 1..n : At(n, c, i) = k
<1>1. PICK h \in Nat : h = HashOf[c]
  BY WeakMapAssumption
<1>2. ASSUME NEW i \in 1..n PROVE At(n, c, i) \in 0..(n - 1)
  <2>1. h + i - 1 \in Int
    OBVIOUS
  <2> QED BY <1>1, <2>1, SMTT(20) DEF At
<1>3. ASSUME NEW k \in 0..(n - 1) PROVE \E i \in 1..n : At(n, c, i) = k
  <2>1. PICK q \in Nat, r \in 0..(n - 1) : h = n * q + r
    <3>1. h = n * (h \div n) + (h % n) /\ h \div n \in Nat /\ h % n \in 0..(n - 1)
      BY SMTT(20)
    <3> QED BY <3>1
  <2>2. n * q \in Nat /\ n * (q + 1) = n * q + n
    BY SMTT(20)
  <2>3. CASE k >= r
    <3>1. k - r + 1 \in 1..n /\ h + (k - r + 1) - 1 = n * q + k
      BY <2>1, <2>2, <2>3
    <3>2. (n * q + k) % n = k
      BY RemainderOf
    <3>3. At(n, c, k - r + 1) = k
      BY <1>1, <3>1, <3>2 DEF At
    <3> QED BY <3>1, <3>3
  <2>4. CASE k < r
    <3>1. k - r + n + 1 \in 1..n /\ h + (k - r + n + 1) - 1 = n * (q + 1) + k
      BY <2>1, <2>2, <2>4
    <3>2. q + 1 \in Nat
      OBVIOUS
    <3>3. (n * (q + 1) + k) % n = k
      BY <3>2, RemainderOf
    <3>4. At(n, c, k - r + n + 1) = k
      BY <1>1, <3>1, <3>3 DEF At
    <3> QED BY <3>1, <3>4
  <2> QED BY <2>3, <2>4
<1> QED BY <1>2, <1>3

\* The probe of a table.
LEMMA ProbeIs ==
  ASSUME NEW n, NEW v, Table(v, n), NEW c
  PROVE  /\ DOMAIN v = 0..(n - 1) /\ Cardinality(DOMAIN v) = n /\ IsFiniteSet(DOMAIN v)
         /\ Probe(v, c) = [i \in 1..n |-> At(n, c, i)]
<1>1. n \in Nat \ {0} /\ DOMAIN v = 0..(n - 1)
  BY DEF Table
<1>2. Cardinality(0..(n - 1)) = n /\ IsFiniteSet(0..(n - 1))
  <2>1. /\ IsFiniteSet(0..(n - 1))
        /\ Cardinality(0..(n - 1)) = IF 0 > n - 1 THEN 0 ELSE (n - 1) - 0 + 1
    BY <1>1, FS_Interval
  <2> QED BY <1>1, <2>1
<1> QED BY <1>1, <1>2 DEF Probe, At

\* A table that is not full has a place that is not used on each probe.
LEMMA FreePlace ==
  ASSUME NEW n, NEW v, Table(v, n), NEW c \in Cells, Cardinality(UsedIn(v)) < n
  PROVE  \E i \in 1..n : v[At(n, c, i)].state # "USED"
<1>1. DOMAIN v = 0..(n - 1) /\ Cardinality(DOMAIN v) = n /\ n \in Nat \ {0}
  BY ProbeIs DEF Table
<1>2. PICK k \in 0..(n - 1) : v[k].state # "USED"
  <2>1. UsedIn(v) # DOMAIN v
    BY <1>1
  <2> QED BY <1>1, <2>1 DEF UsedIn
<1>3. PICK i \in 1..n : At(n, c, i) = k
  BY <1>1, <1>2, ProbeCovers
<1> QED BY <1>2, <1>3

\* Where Set puts a key.
LEMMA PutKnown ==
  ASSUME NEW n, NEW v, Table(v, n), NEW c \in Cells, Cardinality(UsedIn(v)) < n,
         NEW m, NEW x, NEW t, t = [v |-> v, n |-> m]
  PROVE  \E i \in 1..n : \E k \in 0..(n - 1) :
           /\ k = At(n, c, i)
           /\ v[k].state # "USED" \/ v[k].key = "collected" \/ v[k].key = c
           /\ \A j \in 1..(i - 1) :
                /\ v[At(n, c, j)].state = "USED" /\ v[At(n, c, j)].key # "collected"
                /\ v[At(n, c, j)].key # c
           /\ PutIn(t, c, x) = [v |-> [v EXCEPT ![k] = Used(c, x)],
                                n |-> IF v[k].state = "USED" THEN m ELSE m + 1]
<1> DEFINE Good(k) == v[k].state # "USED" \/ v[k].key = "collected" \/ v[k].key = c
           S == {i \in 1..n : Good(At(n, c, i))}
<1>1. n \in Nat \ {0} /\ Probe(v, c) = [i \in 1..n |-> At(n, c, i)]
  <2>1. n \in Nat \ {0}
    BY DEF Table
  <2>2. Table(v, n)
    OBVIOUS
  <2> QED BY ONLY <2>1, <2>2, ProbeIs
<1>2. S \subseteq 1..n /\ S # {} /\ S \subseteq Nat
  BY FreePlace
<1>3. PICK i : i = Min(S)
  OBVIOUS
<1>4. i \in S /\ \A j \in S : i <= j
  <2>1. PICK p \in S : \A q \in S : p <= q
    BY <1>2, LeastNatural
  <2> QED BY <1>3, <2>1 DEF Min
<1>5. PlaceFor(v, c) = i
  <2>1. {j \in DOMAIN Probe(v, c) : v[Probe(v, c)[j]].state # "USED"
             \/ IsCollected(v[Probe(v, c)[j]]) \/ v[Probe(v, c)[j]].key = c} = S
    BY <1>1 DEF IsCollected
  <2> HIDE DEF S
  <2> QED BY <1>2, <1>3, <2>1 DEF PlaceFor, FirstOf
<1>6. PICK k : k = At(n, c, i)
  OBVIOUS
<1>7. i \in 1..n /\ k \in 0..(n - 1) /\ Good(k) /\ Probe(v, c)[i] = k
  BY <1>1, <1>2, <1>4, <1>6, ProbeCovers
<1>8. ASSUME NEW j \in 1..(i - 1) PROVE ~Good(At(n, c, j))
  <2>1. j \in 1..n /\ j < i
    BY <1>1, <1>7
  <2>2. j \notin S
    BY <1>4, <1>7, <2>1
  <2> QED BY <2>1, <2>2
<1>9. PutIn(t, c, x) = [v |-> [v EXCEPT ![k] = Used(c, x)],
                        n |-> IF v[k].state = "USED" THEN m ELSE m + 1]
  BY <1>5, <1>7 DEF PutIn
<1> QED BY <1>6, <1>7, <1>8, <1>9

\* A table that was only ever entered into, as that of GrowForce.
Clean(v, n) == \A k \in 0..(n - 1) : v[k].state # "DELETED" /\ v[k].key # "collected"
Entered(v, n, m, c, x, u, k) ==
  /\ u.n \in {m, m + 1} /\ u.n = Cardinality(UsedIn(u.v))
  /\ Table(u.v, n) /\ Reached(u.v, n)
  /\ k \in 0..(n - 1)
  /\ u.v[k] = Used(c, x)
  /\ v[k].key \in {"none", "collected", c}
  /\ \A l \in 0..(n - 1) : l # k => u.v[l] = v[l]
  /\ Clean(v, n) /\ Once(v, c) => \A l \in 0..(n - 1) : v[l].key = c => l = k

\* What entering a key leaves of a table with a place that is not used.
LEMMA PutKept ==
  ASSUME NEW n, NEW v, Table(v, n), Reached(v, n), NEW m, m = Cardinality(UsedIn(v)), m \in Nat, m < n,
         NEW c \in Cells, NEW x \in WeakValues \cup {"undefined"},
         NEW t, t = [v |-> v, n |-> m], NEW u, u = PutIn(t, c, x)
  PROVE  \E k \in 0..(n - 1) : Entered(v, n, m, c, x, u, k)
<1>1. /\ n \in Nat \ {0} /\ v \in [0..(n - 1) -> PlaceKinds] /\ DOMAIN v = 0..(n - 1)
      /\ \A k \in 0..(n - 1) : v[k] \in PlaceKinds /\ (v[k].state = "USED" <=> v[k].key # "none")
  BY DEF Table
<1>2. PICK i \in 1..n, k \in 0..(n - 1) :
           /\ k = At(n, c, i)
           /\ v[k].state # "USED" \/ v[k].key = "collected" \/ v[k].key = c
           /\ \A j \in 1..(i - 1) :
                /\ v[At(n, c, j)].state = "USED" /\ v[At(n, c, j)].key # "collected"
                /\ v[At(n, c, j)].key # c
           /\ u = [v |-> [v EXCEPT ![k] = Used(c, x)],
                   n |-> IF v[k].state = "USED" THEN m ELSE m + 1]
  BY PutKnown
<1>3. PICK w : w = [v EXCEPT ![k] = Used(c, x)]
  OBVIOUS
<1>4. u.v = w /\ u.n = IF v[k].state = "USED" THEN m ELSE m + 1
  <2>1. u = [v |-> w, n |-> IF v[k].state = "USED" THEN m ELSE m + 1]
    BY <1>2, <1>3
  <2> QED BY ONLY <2>1
<1>5. PICK p : p = Used(c, x)
  OBVIOUS
<1>6. p \in PlaceKinds /\ p.state = "USED" /\ p.key = c /\ p.key # "none"
  BY <1>5, WeakMapAssumption DEF Used, PlaceKinds
<1>7. /\ w \in [0..(n - 1) -> PlaceKinds] /\ w[k] = p /\ DOMAIN w = 0..(n - 1)
      /\ \A l \in 0..(n - 1) : l # k => w[l] = v[l]
  BY <1>1, <1>3, <1>5, <1>6
<1>8. Table(w, n)
  BY <1>1, <1>6, <1>7 DEF Table
<1>9. \A l \in 0..(n - 1) : v[l].state # "EMPTY" => w[l].state # "EMPTY"
  BY <1>6, <1>7
<1>10. Reached(w, n)
  <2> SUFFICES ASSUME NEW l \in 0..(n - 1), w[l].key \in Cells
               PROVE  \E j \in 1..n : /\ At(n, w[l].key, j) = l
                                      /\ \A g \in 1..(j - 1) : w[At(n, w[l].key, g)].state # "EMPTY"
    BY DEF Reached
  <2>1. CASE l = k
    <3>1. w[l].key = c
      BY <1>6, <1>7, <2>1
    <3>2. ASSUME NEW g \in 1..(i - 1) PROVE w[At(n, c, g)].state # "EMPTY"
      <4>1. At(n, c, g) \in 0..(n - 1)
        <5>1. g \in 1..n
          BY <1>1, <1>2
        <5> QED BY <1>1, <5>1, ProbeCovers
      <4>2. v[At(n, c, g)].state = "USED"
        BY <1>2
      <4> QED BY <1>9, <4>1, <4>2
    <3> QED BY <1>2, <2>1, <3>1, <3>2
  <2>2. CASE l # k
    <3>1. w[l] = v[l] /\ v[l].key \in Cells
      BY <1>7, <2>2
    <3>2. PICK j \in 1..n : /\ At(n, v[l].key, j) = l
                            /\ \A g \in 1..(j - 1) : v[At(n, v[l].key, g)].state # "EMPTY"
      BY <3>1 DEF Reached
    <3>3. ASSUME NEW g \in 1..(j - 1) PROVE w[At(n, v[l].key, g)].state # "EMPTY"
      <4>1. At(n, v[l].key, g) \in 0..(n - 1)
        <5>1. g \in 1..n
          BY <1>1, <3>2
        <5> QED BY <1>1, <3>1, <5>1, ProbeCovers
      <4> QED BY <1>9, <3>2, <4>1
    <3> QED BY <3>1, <3>2, <3>3
  <2> QED BY <2>1, <2>2
<1>11. u.n = Cardinality(UsedIn(w)) /\ u.n \in {m, m + 1}
  <2>1. UsedIn(w) = UsedIn(v) \cup {k}
    BY <1>1, <1>6, <1>7 DEF UsedIn
  <2>2. IsFiniteSet(UsedIn(v))
    <3>1. IsFiniteSet(DOMAIN v)
      BY ProbeIs
    <3>2. UsedIn(v) \subseteq DOMAIN v
      BY DEF UsedIn
    <3> QED BY <3>1, <3>2, FS_Subset
  <2>3. k \in UsedIn(v) <=> v[k].state = "USED"
    BY <1>1 DEF UsedIn
  <2>4. Cardinality(UsedIn(w)) = IF k \in UsedIn(v) THEN m ELSE m + 1
    BY <2>1, <2>2, FS_AddElement
  <2> QED BY <1>4, <2>3, <2>4
<1>12. v[k].key \in {"none", "collected", c}
  BY <1>1, <1>2
<1>13. ASSUME Clean(v, n), Once(v, c), NEW l \in 0..(n - 1), v[l].key = c PROVE l = k
  <2>1. PICK j \in 1..n : /\ At(n, c, j) = l
                          /\ \A g \in 1..(j - 1) : v[At(n, c, g)].state # "EMPTY"
    BY <1>13 DEF Reached
  <2>2. ~(j < i)
    <3>1. j < i => j \in 1..(i - 1)
      BY <1>1
    <3> QED BY <1>2, <1>13, <2>1, <3>1
  <2>3. CASE j = i
    BY <1>2, <2>1, <2>3
  <2>4. CASE i < j
    <3>1. i \in 1..(j - 1)
      BY <1>1, <2>4
    <3>2. v[k].state # "EMPTY"
      BY <1>2, <2>1, <3>1
    <3>3. v[k].state \in {"EMPTY", "DELETED", "USED"}
      BY <1>1 DEF PlaceKinds
    <3>4. v[k].key = c
      BY <1>2, <1>13, <3>2, <3>3 DEF Clean
    <3> QED BY <1>1, <1>13, <3>4 DEF Once
  <2>5. j < i \/ j = i \/ i < j
    BY <1>1
  <2> QED BY <2>2, <2>3, <2>4, <2>5
<1> QED BY <1>4, <1>5, <1>7, <1>8, <1>10, <1>11, <1>12, <1>13 DEF Entered

\* The tables in which GrowForce enters the first places again.
Regrown(g, v, n) ==
  /\ DOMAIN g = 0..n /\ g[0] = Fresh(2 * n)
  /\ \A i \in 1..n : g[i] = EnterAgain(g[i - 1], v[i - 1])

\* GrowForce is the last of those tables: there is such a function.
LEMMA GrowForceIs ==
  ASSUME NEW n, NEW v, Table(v, n), NEW m, NEW t, t = [v |-> v, n |-> m]
  PROVE  \E g : Regrown(g, v, n) /\ GrowForce(t) = g[n]
<1> DEFINE Step(g, i) == IF i = 0 THEN Fresh(2 * n) ELSE EnterAgain(g[i - 1], v[i - 1])
           Made(b) == \E g : g = [i \in 0..b |-> Step(g, i)]
           Left == {b \in Nat : ~Made(b)}
<1>1. n \in Nat \ {0} /\ Cardinality(DOMAIN v) = n
  <2>1. n \in Nat \ {0}
    BY DEF Table
  <2> QED BY <2>1, ProbeIs
<1>2. Made(0)
  <2>1. PICK f : f = Fresh(2 * n)
    OBVIOUS
  <2>2. PICK g : g = [i \in 0..0 |-> f]
    OBVIOUS
  <2>3. g = [i \in 0..0 |-> Step(g, i)]
    <3>1. \A i \in 0..0 : Step(g, i) = f
      BY <2>1
    <3> HIDE DEF Step
    <3> QED BY <2>2, <3>1
  <2> QED BY <2>3
<1>3. ASSUME NEW b \in Nat, Made(b) PROVE Made(b + 1)
  <2>1. PICK g : g = [i \in 0..b |-> Step(g, i)]
    BY <1>3
  <2>2. PICK f : f = EnterAgain(g[b], v[b])
    OBVIOUS
  <2>3. PICK h : h = [i \in 0..(b + 1) |-> IF i = b + 1 THEN f ELSE g[i]]
    OBVIOUS
  <2>4. \A i \in 0..b : h[i] = g[i]
    BY <2>3
  <2>5. ASSUME NEW i \in 0..(b + 1) PROVE h[i] = Step(h, i)
    <3>1. CASE i = 0
      <4>1. h[0] = g[0] /\ g[0] = Step(g, 0)
        BY <2>1, <2>4
      <4> QED BY <3>1, <4>1
    <3>2. CASE i # 0 /\ i # b + 1
      <4>1. i \in 0..b /\ i - 1 \in 0..b
        BY <3>2
      <4>2. h[i] = g[i] /\ h[i - 1] = g[i - 1]
        BY <2>4, <4>1
      <4>3. g[i] = Step(g, i)
        BY <2>1, <4>1
      <4> QED BY <3>2, <4>2, <4>3
    <3>3. CASE i = b + 1
      <4>1. i # 0 /\ i - 1 = b /\ b \in 0..b
        BY <3>3
      <4>2. h[b] = g[b] /\ h[i] = f
        BY <2>3, <2>4, <3>3, <4>1
      <4> QED BY <2>2, <4>1, <4>2
    <3> QED BY <3>1, <3>2, <3>3
  <2>6. h = [i \in 0..(b + 1) |-> h[i]]
    BY <2>3
  <2>7. h = [i \in 0..(b + 1) |-> Step(h, i)]
    <3> HIDE DEF Step
    <3> QED BY <2>5, <2>6
  <2> QED BY <2>7
<1>4. Left = {}
  <2> SUFFICES ASSUME Left # {} PROVE FALSE
    OBVIOUS
  <2>1. Left \subseteq Nat
    OBVIOUS
  <2>2. PICK p \in Left : \A q \in Left : p <= q
    <3> HIDE DEF Left
    <3> QED BY <2>1, LeastNatural
  <2>3. p \in Nat /\ ~Made(p)
    BY <2>2
  <2> HIDE DEF Made
  <2>4. p # 0
    BY <1>2, <2>3
  <2>5. p - 1 \in Nat /\ ~(p <= p - 1) /\ (p - 1) + 1 = p
    BY <2>3, <2>4
  <2>6. Made(p - 1)
    BY <2>2, <2>5
  <2> QED BY <1>3, <2>3, <2>5, <2>6
<1>5. Made(n)
  <2> HIDE DEF Made
  <2> QED BY <1>1, <1>4
<1>6. PICK g : g = CHOOSE h : h = [i \in 0..n |-> Step(h, i)]
  OBVIOUS
<1>7. g = [i \in 0..n |-> Step(g, i)]
  <2> HIDE DEF Step
  <2> QED BY <1>5, <1>6
<1>8. GrowForce(t) = g[n]
  BY ZenonT(60), <1>1, <1>6 DEF GrowForce
<1>9. Regrown(g, v, n)
  <2>1. DOMAIN g = 0..n
    BY <1>7
  <2>2. ASSUME NEW i \in 0..n PROVE g[i] = Step(g, i)
    <3> HIDE DEF Step
    <3> QED BY <1>7
  <2>3. g[0] = Fresh(2 * n)
    BY <1>1, <2>2
  <2>4. ASSUME NEW i \in 1..n PROVE g[i] = EnterAgain(g[i - 1], v[i - 1])
    <3>1. i \in 0..n /\ i # 0
      BY <1>1
    <3> QED BY <2>2, <3>1
  <2> QED BY <2>1, <2>3, <2>4 DEF Regrown
<1> QED BY <1>8, <1>9

\* A new table.
LEMMA FreshIs ==
  ASSUME NEW n \in Nat \ {0}, NEW t, t = Fresh(n)
  PROVE  /\ t = [v |-> t.v, n |-> 0] /\ t.n = 0
         /\ Table(t.v, n) /\ Reached(t.v, n) /\ Clean(t.v, n)
         /\ Cardinality(UsedIn(t.v)) = 0
         /\ DOMAIN t.v = 0..(n - 1) /\ \A k \in 0..(n - 1) : t.v[k].key = "none"
<1>1. PICK v : v = [i \in 0..(n - 1) |-> EmptyPlace]
  OBVIOUS
<1>2. t = [v |-> v, n |-> 0]
  BY <1>1 DEF Fresh
<1>3. t.v = v /\ t.n = 0
  BY ONLY <1>2
<1>4. EmptyPlace \in PlaceKinds /\ EmptyPlace.state = "EMPTY" /\ EmptyPlace.key = "none"
  BY DEF EmptyPlace, PlaceKinds
<1>5. /\ v \in [0..(n - 1) -> PlaceKinds] /\ DOMAIN v = 0..(n - 1)
      /\ \A k \in 0..(n - 1) : v[k].state = "EMPTY" /\ v[k].key = "none"
  BY <1>1, <1>4
<1>6. Table(v, n)
  BY <1>5 DEF Table
<1>7. Reached(v, n) /\ Clean(v, n)
  BY <1>5, WeakMapAssumption DEF Reached, Clean
<1>8. UsedIn(v) = {}
  BY <1>5 DEF UsedIn
<1>9. Cardinality(UsedIn(v)) = 0
  BY <1>8, FS_EmptySet
<1> QED BY <1>2, <1>3, <1>5, <1>6, <1>7, <1>9

\* The new table after the first i places.
Copied(u, v, n, i) ==
  /\ u = [v |-> u.v, n |-> u.n]
  /\ Table(u.v, 2 * n) /\ Reached(u.v, 2 * n) /\ Clean(u.v, 2 * n)
  /\ u.n = Cardinality(UsedIn(u.v)) /\ u.n \in 0..i
  /\ \A c \in Cells : Once(u.v, c)
  /\ \A c \in Cells :
       (\E k \in 0..(2 * n - 1) : u.v[k].key = c) <=> (\E l \in 0..(i - 1) : v[l].key = c)
  /\ \A c \in Cells : Once(v, c) =>
       \A k \in 0..(2 * n - 1) : \A l \in 0..(i - 1) :
         u.v[k].key = c /\ v[l].key = c => u.v[k].value = v[l].value

\* Entering the next place.
LEMMA CopiesOne ==
  ASSUME NEW n, NEW v, Table(v, n), NEW i \in 0..(n - 1), NEW u, Copied(u, v, n, i),
         NEW w, w = EnterAgain(u, v[i])
  PROVE  Copied(w, v, n, i + 1)
<1>1. /\ n \in Nat \ {0} /\ DOMAIN v = 0..(n - 1) /\ v[i] \in PlaceKinds
      /\ (v[i].state = "USED" <=> v[i].key # "none") /\ 2 * n \in Nat \ {0}
  BY DEF Table
<1>2. 0..((i + 1) - 1) = 0..(i - 1) \cup {i}
  BY <1>1
<1>3. CASE v[i].state = "USED" /\ v[i].key # "collected"
  <2>1. PICK c \in Cells : c = v[i].key
    BY <1>1, <1>3 DEF PlaceKinds
  <2>2. PICK x \in WeakValues \cup {"undefined"} : x = v[i].value
    BY <1>1 DEF PlaceKinds
  <2>3. PICK a : a = u.v
    OBVIOUS
  <2>4. PICK m : m = u.n
    OBVIOUS
  <2>5. w = PutIn(u, c, x)
    BY <1>3, <2>1, <2>2 DEF EnterAgain, IsCollected
  <2>6. /\ u = [v |-> a, n |-> m] /\ Table(a, 2 * n) /\ Reached(a, 2 * n) /\ Clean(a, 2 * n)
        /\ m = Cardinality(UsedIn(a)) /\ m \in 0..i /\ m \in Nat /\ m < 2 * n
        /\ \A d \in Cells : Once(a, d)
    BY <1>1, <2>3, <2>4 DEF Copied
  <2>7. PICK k \in 0..(2 * n - 1) : Entered(a, 2 * n, m, c, x, w, k)
    BY <2>5, <2>6, PutKept
  <2>8. PICK b : b = w.v
    OBVIOUS
  <2>9. /\ w.n \in {m, m + 1} /\ w.n = Cardinality(UsedIn(b))
        /\ Table(b, 2 * n) /\ Reached(b, 2 * n) /\ b[k] = Used(c, x)
        /\ a[k].key \in {"none", "collected", c}
        /\ \A l \in 0..(2 * n - 1) : l # k => b[l] = a[l]
        /\ \A l \in 0..(2 * n - 1) : a[l].key = c => l = k
    BY <2>6, <2>7, <2>8 DEF Entered
  <2>10. w = [v |-> b, n |-> w.n]
    <3>1. PICK p, y : w = [v |-> p, n |-> y]
      BY <2>5 DEF PutIn
    <3> QED BY <2>8, <3>1
  <2>11. DOMAIN a = 0..(2 * n - 1) /\ DOMAIN b = 0..(2 * n - 1)
    BY <2>6, <2>9 DEF Table
  <2>12. b[k].key = c /\ b[k].value = x /\ b[k].state = "USED" /\ c \notin {"none", "collected"}
    BY <2>9, WeakMapAssumption DEF Used
  <2>13. Clean(b, 2 * n)
    BY <2>6, <2>9, <2>12 DEF Clean
  <2>14. w.n \in 0..(i + 1)
    BY <2>6, <2>9
  <2>15. ASSUME NEW d \in Cells, NEW l \in 0..(2 * n - 1), b[l].key = d
         PROVE  (d = c /\ l = k) \/ (d # c /\ l # k /\ a[l] = b[l])
    BY <2>9, <2>12, <2>15
  <2>16. \A d \in Cells : Once(b, d)
    <3> SUFFICES ASSUME NEW d \in Cells, NEW l \in 0..(2 * n - 1), NEW g \in 0..(2 * n - 1),
                        b[l].key = d, b[g].key = d
                 PROVE  l = g
      BY <2>11 DEF Once
    <3>1. CASE d = c
      BY <2>15, <3>1
    <3>2. CASE d # c
      <4>1. a[l] = b[l] /\ a[g] = b[g]
        BY <2>15, <3>2
      <4> QED BY <2>6, <2>11, <4>1 DEF Once
    <3> QED BY <3>1, <3>2
  <2>17. ASSUME NEW d \in Cells
         PROVE  (\E l \in 0..(2 * n - 1) : b[l].key = d) <=> (\E l \in 0..((i + 1) - 1) : v[l].key = d)
    <3>1. CASE d = c
      <4>1. i \in 0..((i + 1) - 1)
        BY <1>1
      <4> QED BY <2>1, <2>12, <3>1, <4>1
    <3>2. CASE d # c
      <4>1. (\E l \in 0..(2 * n - 1) : a[l].key = d) <=> (\E l \in 0..(i - 1) : v[l].key = d)
        BY <2>3 DEF Copied
      <4>2. (\E l \in 0..(2 * n - 1) : a[l].key = d) <=> (\E l \in 0..(2 * n - 1) : b[l].key = d)
        <5>1. ASSUME NEW l \in 0..(2 * n - 1), a[l].key = d PROVE b[l].key = d
          <6>1. l # k
            BY <2>9, <3>2, <5>1, WeakMapAssumption
          <6> QED BY <2>9, <5>1, <6>1
        <5>2. ASSUME NEW l \in 0..(2 * n - 1), b[l].key = d PROVE a[l].key = d
          BY <2>15, <3>2, <5>2
        <5> QED BY <5>1, <5>2
      <4>3. (\E l \in 0..((i + 1) - 1) : v[l].key = d) <=> (\E l \in 0..(i - 1) : v[l].key = d)
        BY <1>2, <2>1, <3>2
      <4> QED BY <4>1, <4>2, <4>3
    <3> QED BY <3>1, <3>2
  <2>18. ASSUME NEW d \in Cells, Once(v, d), NEW l \in 0..(2 * n - 1), NEW g \in 0..((i + 1) - 1),
                b[l].key = d, v[g].key = d
         PROVE  b[l].value = v[g].value
    <3>1. CASE d = c
      <4>1. g \in 0..(n - 1)
        BY <1>1
      <4>2. g = i
        BY <1>1, <2>1, <2>18, <3>1, <4>1 DEF Once
      <4> QED BY <2>2, <2>12, <2>15, <2>18, <3>1, <4>2
    <3>2. CASE d # c
      <4>1. a[l] = b[l]
        BY <2>15, <2>18, <3>2
      <4>2. g \in 0..(i - 1)
        BY <1>2, <2>1, <2>18, <3>2
      <4> QED BY <2>3, <2>18, <4>1, <4>2 DEF Copied
    <3> QED BY <3>1, <3>2
  <2> QED BY <2>8, <2>9, <2>10, <2>13, <2>14, <2>16, <2>17, <2>18 DEF Copied
<1>4. CASE ~(v[i].state = "USED" /\ v[i].key # "collected")
  <2>1. w = u
    BY <1>4 DEF EnterAgain, IsCollected
  <2>2. v[i].key \notin Cells
    BY <1>1, <1>4, WeakMapAssumption
  <2>3. u.n \in 0..(i + 1)
    BY <1>1 DEF Copied
  <2>4. \A c \in Cells : (\E l \in 0..((i + 1) - 1) : v[l].key = c) <=> (\E l \in 0..(i - 1) : v[l].key = c)
    BY <1>2, <2>2
  <2>5. ASSUME NEW d \in Cells, Once(v, d), NEW l \in 0..(2 * n - 1), NEW g \in 0..((i + 1) - 1),
               u.v[l].key = d, v[g].key = d
        PROVE  u.v[l].value = v[g].value
    <3>1. g \in 0..(i - 1)
      BY <1>2, <2>2, <2>5
    <3> QED BY <2>5, <3>1 DEF Copied
  <2> QED BY <2>1, <2>3, <2>4, <2>5 DEF Copied
<1> QED BY <1>3, <1>4

\* GrowForce enters every key again, once, with its value.
LEMMA GrownTable ==
  ASSUME NEW n, NEW v, Table(v, n), NEW m, NEW t, t = [v |-> v, n |-> m]
  PROVE  Copied(GrowForce(t), v, n, n)
<1>1. n \in Nat \ {0} /\ 2 * n \in Nat \ {0}
  BY DEF Table
<1>2. PICK g : Regrown(g, v, n) /\ GrowForce(t) = g[n]
  BY GrowForceIs
<1> DEFINE Left == {i \in 0..n : ~Copied(g[i], v, n, i)}
<1>3. Copied(g[0], v, n, 0)
  <2>1. PICK u : u = Fresh(2 * n)
    OBVIOUS
  <2>2. /\ u = [v |-> u.v, n |-> 0] /\ u.n = 0
        /\ Table(u.v, 2 * n) /\ Reached(u.v, 2 * n) /\ Clean(u.v, 2 * n)
        /\ Cardinality(UsedIn(u.v)) = 0
        /\ DOMAIN u.v = 0..(2 * n - 1) /\ \A k \in 0..(2 * n - 1) : u.v[k].key = "none"
    BY <1>1, <2>1, FreshIs
  <2>3. ASSUME NEW c \in Cells, NEW k \in 0..(2 * n - 1) PROVE u.v[k].key # c
    BY <2>2, WeakMapAssumption
  <2>4. \A c \in Cells : Once(u.v, c)
    BY <2>2, <2>3 DEF Once
  <2>5. 0..(0 - 1) = {}
    OBVIOUS
  <2>6. Copied(u, v, n, 0)
    BY <2>2, <2>3, <2>4, <2>5 DEF Copied
  <2> QED BY <1>2, <2>1, <2>6 DEF Regrown
<1>4. ASSUME NEW i \in 0..(n - 1), Copied(g[i], v, n, i) PROVE Copied(g[i + 1], v, n, i + 1)
  <2>1. i + 1 \in 1..n /\ (i + 1) - 1 = i
    BY <1>1
  <2>2. g[i + 1] = EnterAgain(g[i], v[i])
    BY <1>2, <2>1 DEF Regrown
  <2>3. PICK u : u = g[i]
    OBVIOUS
  <2>4. PICK w : w = g[i + 1]
    OBVIOUS
  <2>5. Table(v, n) /\ i \in 0..(n - 1) /\ Copied(u, v, n, i) /\ w = EnterAgain(u, v[i])
    BY <1>4, <2>2, <2>3, <2>4
  <2>6. Copied(w, v, n, i + 1)
    BY ONLY <2>5, CopiesOne
  <2> QED BY <2>4, <2>6
<1>5. Left = {}
  <2> SUFFICES ASSUME Left # {} PROVE FALSE
    OBVIOUS
  <2>1. Left \subseteq Nat
    OBVIOUS
  <2>2. PICK p \in Left : \A q \in Left : p <= q
    <3> HIDE DEF Left
    <3> QED BY <2>1, LeastNatural
  <2>3. p \in 0..n /\ ~Copied(g[p], v, n, p)
    BY <2>2
  <2>4. p # 0
    BY <1>3, <2>3
  <2>5. p - 1 \in 0..(n - 1) /\ p - 1 \in 0..n /\ ~(p <= p - 1) /\ (p - 1) + 1 = p
    BY <1>1, <2>3, <2>4
  <2>6. p - 1 \notin Left
    BY <2>2, <2>5
  <2>7. Copied(g[p - 1], v, n, p - 1)
    BY <2>5, <2>6
  <2> QED BY <1>4, <2>3, <2>5, <2>7
<1>6. n \in 0..n
  BY <1>1
<1> QED BY <1>2, <1>5, <1>6

\* What a search finds, and what it takes out.
LEMMA SearchIs ==
  ASSUME NEW n, Table(vector, n), Reached(vector, n), size = Cardinality(UsedIn(vector)),
         NEW c \in Cells, NEW s, s = Search(c)
  PROVE  /\ Table(s.v, n) /\ Reached(s.v, n) /\ s.n = Cardinality(UsedIn(s.v)) /\ s.n <= size
         /\ s = [v |-> s.v, n |-> s.n, at |-> s.at]
         /\ \A k \in 0..(n - 1) : s.v[k] = vector[k] \/ (vector[k].key = "collected" /\ s.v[k] = DeletedPlace)
         /\ s.at = -1 \/ (s.at \in 0..(n - 1) /\ vector[s.at].key = c)
         /\ s.at = -1 => \A k \in 0..(n - 1) : vector[k].key # c
<1> DEFINE p == Probe(vector, c)
           Ends(i) == vector[p[i]].state = "EMPTY" \/ (vector[p[i]].state = "USED" /\ vector[p[i]].key = c)
           S == {i \in 1..n : Ends(i)}
<1>1. /\ n \in Nat \ {0} /\ DOMAIN vector = 0..(n - 1) /\ vector \in [0..(n - 1) -> PlaceKinds]
      /\ \A k \in 0..(n - 1) : vector[k] \in PlaceKinds /\ (vector[k].state = "USED" <=> vector[k].key # "none")
  BY DEF Table
<1>2. p = [i \in 1..n |-> At(n, c, i)] /\ Len(p) = n /\ DOMAIN p = 1..n /\ IsFiniteSet(0..(n - 1))
  <2>1. Table(vector, n)
    OBVIOUS
  <2>2. p = [i \in 1..n |-> At(n, c, i)] /\ IsFiniteSet(DOMAIN vector)
    BY ONLY <2>1, ProbeIs
  <2>3. \A i \in 1..n : At(n, c, i) \in 0..(n - 1)
    BY <1>1, ProbeCovers
  <2>4. Len(p) = n
    <3>1. p \in Seq(0..(n - 1)) /\ n \in Nat
      BY <1>1, <2>2, <2>3, IsASeq
    <3> QED BY <2>2, <3>1, LenProperties
  <2> QED BY <1>1, <2>2, <2>4
<1>3. \A i \in 1..n : p[i] = At(n, c, i) /\ p[i] \in 0..(n - 1)
  BY <1>1, <1>2, ProbeCovers
<1> HIDE DEF p
<1>4. PICK stop : stop = FirstOf(p, LAMBDA k : EndsAt(vector[k], c))
  OBVIOUS
<1>5. \/ stop = 0 /\ S = {}
      \/ stop \in S /\ \A i \in S : stop <= i
  <2>1. {i \in DOMAIN p : EndsAt(vector[p[i]], c)} = S
    BY <1>2 DEF EndsAt
  <2>2. stop = IF S = {} THEN 0 ELSE Min(S)
    <3> HIDE DEF S
    <3> QED BY <1>4, <2>1 DEF FirstOf
  <2>3. S \subseteq Nat
    BY <1>1
  <2>4. S # {} => Min(S) \in S /\ \A i \in S : Min(S) <= i
    <3> SUFFICES ASSUME S # {} PROVE Min(S) \in S /\ \A i \in S : Min(S) <= i
      OBVIOUS
    <3> HIDE DEF S
    <3>1. PICK x \in S : \A y \in S : x <= y
      BY <2>3, LeastNatural
    <3> QED BY <3>1 DEF Min
  <2> HIDE DEF S
  <2> QED BY <2>2, <2>4
<1> DEFINE passed == {p[i] : i \in 1..(IF stop = 0 THEN Len(p) ELSE stop - 1)}
           swept == {k \in passed : vector[k].state = "USED" /\ vector[k].key = "collected"}
<1>6. /\ s.v = [k \in DOMAIN vector |-> IF k \in swept THEN DeletedPlace ELSE vector[k]]
      /\ s.n = size - Cardinality(swept)
      /\ s.at = IF stop = 0 \/ vector[p[stop]].state # "USED" THEN -1 ELSE p[stop]
      /\ s = [v |-> s.v, n |-> s.n, at |-> s.at]
  BY <1>4 DEF Search, p, IsCollected
<1>7. swept \subseteq 0..(n - 1) /\ \A k \in swept : vector[k].state = "USED" /\ vector[k].key = "collected"
  <2>1. \A i \in 1..(IF stop = 0 THEN Len(p) ELSE stop - 1) : i \in 1..n
    BY <1>1, <1>2, <1>5
  <2> QED BY <1>3, <2>1
<1> HIDE DEF passed, swept
<1>8. PICK w : w = s.v
  OBVIOUS
<1>9. DeletedPlace \in PlaceKinds /\ DeletedPlace.state = "DELETED" /\ DeletedPlace.key = "none"
  BY DEF DeletedPlace, EmptyPlace, PlaceKinds
<1>10. /\ w \in [0..(n - 1) -> PlaceKinds] /\ DOMAIN w = 0..(n - 1)
       /\ \A k \in 0..(n - 1) : w[k] = IF k \in swept THEN DeletedPlace ELSE vector[k]
  BY <1>1, <1>6, <1>8, <1>9
<1>11. Table(w, n)
  BY <1>1, <1>9, <1>10 DEF Table
<1>12. \A k \in 0..(n - 1) : w[k] = vector[k] \/ (vector[k].key = "collected" /\ w[k] = DeletedPlace)
  BY <1>7, <1>10
<1>13. Reached(w, n)
  <2> SUFFICES ASSUME NEW l \in 0..(n - 1), w[l].key \in Cells
               PROVE  \E j \in 1..n : /\ At(n, w[l].key, j) = l
                                      /\ \A g \in 1..(j - 1) : w[At(n, w[l].key, g)].state # "EMPTY"
    BY DEF Reached
  <2>1. w[l] = vector[l] /\ vector[l].key \in Cells
    BY <1>9, <1>12, WeakMapAssumption
  <2>2. PICK j \in 1..n : /\ At(n, vector[l].key, j) = l
                          /\ \A g \in 1..(j - 1) : vector[At(n, vector[l].key, g)].state # "EMPTY"
    BY <2>1 DEF Reached
  <2>3. ASSUME NEW g \in 1..(j - 1) PROVE w[At(n, vector[l].key, g)].state # "EMPTY"
    <3>1. At(n, vector[l].key, g) \in 0..(n - 1)
      <4>1. g \in 1..n
        BY <1>1, <2>2
      <4> QED BY <1>1, <2>1, <4>1, ProbeCovers
    <3> QED BY <1>9, <1>12, <2>2, <3>1
  <2> QED BY <2>1, <2>2, <2>3
<1>14. s.n = Cardinality(UsedIn(w)) /\ s.n <= size
  <2>1. UsedIn(w) = UsedIn(vector) \ swept /\ swept \subseteq UsedIn(vector)
    BY <1>1, <1>7, <1>9, <1>10 DEF UsedIn
  <2>2. IsFiniteSet(UsedIn(vector))
    <3>1. UsedIn(vector) \subseteq 0..(n - 1)
      BY <1>1 DEF UsedIn
    <3> QED BY <1>2, <3>1, FS_Subset
  <2>3. IsFiniteSet(swept) /\ Cardinality(swept) \in Nat /\ size \in Nat
    BY <2>1, <2>2, FS_Subset, FS_CardinalityType
  <2>4. UsedIn(vector) \cap swept = swept
    BY <2>1
  <2>5. Cardinality(UsedIn(w)) = Cardinality(UsedIn(vector)) - Cardinality(swept)
    BY <2>1, <2>2, <2>3, <2>4, FS_Difference
  <2> QED BY <1>6, <2>3, <2>5
<1>15. s.at = -1 \/ (s.at \in 0..(n - 1) /\ vector[s.at].key = c)
  BY <1>3, <1>5, <1>6
<1>16. ASSUME s.at = -1, NEW k \in 0..(n - 1), vector[k].key = c PROVE FALSE
  <2>1. PICK j \in 1..n : /\ At(n, c, j) = k
                          /\ \A g \in 1..(j - 1) : vector[At(n, c, g)].state # "EMPTY"
    BY <1>16 DEF Reached
  <2>2. vector[k].state = "USED"
    BY <1>1, <1>16, WeakMapAssumption
  <2>3. j \in S
    BY <1>3, <1>16, <2>1, <2>2
  <2>4. stop \in S /\ stop <= j /\ stop # 0
    BY <1>1, <1>5, <2>3
  <2>5. stop \in 1..n /\ Ends(stop) /\ p[stop] \in 0..(n - 1) /\ p[stop] # -1
    BY <1>1, <1>3, <2>4
  <2>6. vector[p[stop]].state # "USED"
    BY <1>6, <1>16, <2>4, <2>5
  <2>7. vector[p[stop]].state = "EMPTY"
    BY <2>5, <2>6
  <2>8. stop = j
    <3>1. stop < j => stop \in 1..(j - 1)
      BY <1>1, <2>5
    <3> QED BY <1>1, <1>3, <2>1, <2>4, <2>5, <2>7, <3>1
  <2> QED BY <1>3, <2>1, <2>2, <2>5, <2>7, <2>8
<1> QED BY <1>6, <1>8, <1>11, <1>12, <1>13, <1>14, <1>15, <1>16

\* An empty table with no entries.
LEMMA FreshKept ==
  ASSUME NEW live, live \subseteq Cells, NEW t, t = Fresh(InitialSize)
  PROVE  Kept(t.v, t.n, live, <<>>, {})
<1>1. InitialSize \in Nat \ {0} /\ InitialSize \in Nat /\ InitialSize >= 4
  BY WeakMapAssumption
<1>2. /\ t.n = 0 /\ Table(t.v, InitialSize) /\ Reached(t.v, InitialSize)
      /\ Cardinality(UsedIn(t.v)) = 0
      /\ DOMAIN t.v = 0..(InitialSize - 1) /\ \A k \in 0..(InitialSize - 1) : t.v[k].key = "none"
  BY <1>1, FreshIs
<1>3. \A k \in DOMAIN t.v : t.v[k].key \notin Cells
  BY <1>2, WeakMapAssumption
<1>4. 4 * t.n < 3 * InitialSize
  BY <1>1, <1>2
<1>5. DOMAIN <<>> = {}
  OBVIOUS
<1>6. \A c \in Cells : Once(t.v, c)
  BY <1>3 DEF Once
<1> QED BY <1>1, <1>2, <1>3, <1>4, <1>5, <1>6 DEF Kept

\* A search leaves the entries, and finds a key that has one.
LEMMA SearchKept ==
  ASSUME WInv, NEW c \in alive, NEW s, s = Search(c)
  PROVE  /\ Kept(s.v, s.n, alive, entries, twice)
         /\ c \notin twice => (s.at # -1 <=> c \in DOMAIN entries)
         /\ c \notin twice /\ s.at # -1 => vector[s.at].value = entries[c]
<1>1. PICK n \in Nat \ {0} : Table(vector, n) /\ Reached(vector, n) /\ 4 * size < 3 * n
  BY DEF WInv, Kept
<1>2. size = Cardinality(UsedIn(vector)) /\ c \in Cells
  BY DEF WInv, Kept
<1>3. /\ Table(s.v, n) /\ Reached(s.v, n) /\ s.n = Cardinality(UsedIn(s.v)) /\ s.n <= size
      /\ \A k \in 0..(n - 1) : s.v[k] = vector[k] \/ (vector[k].key = "collected" /\ s.v[k] = DeletedPlace)
      /\ s.at = -1 \/ (s.at \in 0..(n - 1) /\ vector[s.at].key = c)
      /\ s.at = -1 => \A k \in 0..(n - 1) : vector[k].key # c
  <2>1. /\ Table(vector, n) /\ Reached(vector, n) /\ size = Cardinality(UsedIn(vector))
        /\ c \in Cells /\ s = Search(c)
    BY <1>1, <1>2
  <2> QED BY ONLY <2>1, SearchIs
<1>4. PICK w : w = s.v
  OBVIOUS
<1>5. DOMAIN w = 0..(n - 1) /\ DOMAIN vector = 0..(n - 1)
  BY <1>1, <1>3, <1>4 DEF Table
<1>6. \A k \in 0..(n - 1) : \A d \in Cells : w[k].key = d \/ vector[k].key = d => w[k] = vector[k]
  <2>1. DeletedPlace.key = "none"
    BY DEF DeletedPlace, EmptyPlace
  <2> QED BY <1>3, <1>4, <2>1, WeakMapAssumption
<1>7. 4 * s.n < 3 * n
  <2>1. size \in Nat /\ s.n \in Nat
    <3>1. IsFiniteSet(0..(n - 1))
      BY <1>1, <1>5, ProbeIs
    <3>2. UsedIn(vector) \subseteq 0..(n - 1) /\ UsedIn(s.v) \subseteq 0..(n - 1)
      BY <1>4, <1>5 DEF UsedIn
    <3>3. IsFiniteSet(UsedIn(vector)) /\ IsFiniteSet(UsedIn(s.v))
      BY <3>1, <3>2, FS_Subset
    <3> QED BY <1>2, <1>3, <3>3, FS_CardinalityType
  <2> QED BY <1>1, <1>3, <2>1
<1>8. alive \subseteq Cells /\ twice \subseteq alive /\ DOMAIN entries \subseteq alive
  BY DEF WInv, Kept
<1>9. \A k \in DOMAIN w : w[k].key \in Cells => w[k].key \in alive
  <2>1. \A k \in DOMAIN vector : vector[k].key \in Cells => vector[k].key \in alive
    BY DEF WInv, Kept
  <2> QED BY <1>5, <1>6, <2>1
<1>10. ASSUME NEW d \in alive \ twice
       PROVE  /\ Once(w, d)
              /\ d \in DOMAIN entries <=> \E k \in DOMAIN w : w[k].key = d
              /\ \A k \in DOMAIN w : w[k].key = d => w[k].value = entries[d]
  <2>1. /\ Once(vector, d)
        /\ d \in DOMAIN entries <=> \E k \in DOMAIN vector : vector[k].key = d
        /\ \A k \in DOMAIN vector : vector[k].key = d => vector[k].value = entries[d]
    BY DEF WInv, Kept
  <2>2. d \in Cells
    BY <1>8
  <2>3. \A k \in 0..(n - 1) : w[k].key = d <=> vector[k].key = d
    BY <1>6, <2>2
  <2>4. Once(w, d)
    BY <1>5, <2>1, <2>3 DEF Once
  <2>5. (\E k \in DOMAIN w : w[k].key = d) <=> (\E k \in DOMAIN vector : vector[k].key = d)
    BY <1>5, <2>3
  <2> QED BY <1>5, <1>6, <2>1, <2>2, <2>3, <2>4, <2>5
<1>11. Kept(w, s.n, alive, entries, twice)
  <2>1. \E b \in Nat \ {0} : Table(w, b) /\ Reached(w, b) /\ 4 * s.n < 3 * b
    BY <1>1, <1>3, <1>4, <1>7
  <2> QED BY <1>3, <1>4, <1>8, <1>9, <1>10, <2>1 DEF Kept
<1>12. ASSUME c \notin twice
       PROVE  /\ s.at # -1 <=> c \in DOMAIN entries
              /\ s.at # -1 => vector[s.at].value = entries[c]
  <2>1. /\ c \in DOMAIN entries <=> \E k \in DOMAIN vector : vector[k].key = c
        /\ \A k \in DOMAIN vector : vector[k].key = c => vector[k].value = entries[c]
    BY <1>12 DEF WInv, Kept
  <2> QED BY <1>3, <1>5, <2>1
<1> QED BY <1>4, <1>11, <1>12

\* get: its answer is right, and the entries stay.
LEMMA WeakGetKept ==
  ASSUME WInv, NEW c, WeakGet(c)
  PROVE  WInv'
<1>1. PICK s : s = Search(c)
  OBVIOUS
<1>2. c \in alive /\ vector' = s.v /\ size' = s.n /\ UNCHANGED <<alive, entries, twice>>
  BY <1>1 DEF WeakGet, Becomes
<1>3. /\ Kept(s.v, s.n, alive, entries, twice)
      /\ c \notin twice => (s.at # -1 <=> c \in DOMAIN entries)
      /\ c \notin twice /\ s.at # -1 => vector[s.at].value = entries[c]
  BY <1>1, <1>2, SearchKept
<1>4. right'
  BY <1>1, <1>3 DEF WeakGet, Replies
<1> QED BY <1>2, <1>3, <1>4 DEF WInv

\* has, as get.
LEMMA WeakHasKept ==
  ASSUME WInv, NEW c, WeakHas(c)
  PROVE  WInv'
<1>1. PICK s : s = Search(c)
  OBVIOUS
<1>2. c \in alive /\ vector' = s.v /\ size' = s.n /\ UNCHANGED <<alive, entries, twice>>
  BY <1>1 DEF WeakHas, Becomes
<1>3. /\ Kept(s.v, s.n, alive, entries, twice)
      /\ c \notin twice => (s.at # -1 <=> c \in DOMAIN entries)
  BY <1>1, <1>2, SearchKept
<1>4. right'
  <2>1. right' = (c \notin twice => ((s.at # -1) = (c \in DOMAIN entries)))
    BY <1>1 DEF WeakHas, Replies
  <2>2. c \notin twice => ((s.at # -1) = (c \in DOMAIN entries))
    BY ONLY <1>3
  <2> QED BY ONLY <2>1, <2>2
<1> QED BY <1>2, <1>3, <1>4 DEF WInv

\* delete: of a key that was entered once nothing is left.
LEMMA WeakDeleteKept ==
  ASSUME WInv, NEW c, WeakDelete(c)
  PROVE  WInv'
<1>1. PICK s : s = Search(c)
  OBVIOUS
<1>2. PICK t : t = IF s.at = -1 THEN s ELSE [v |-> [s.v EXCEPT ![s.at] = DeletedPlace], n |-> s.n - 1]
  OBVIOUS
<1>3. /\ c \in alive /\ vector' = t.v /\ size' = t.n /\ UNCHANGED <<alive, twice>>
      /\ entries' = Without(c)
  BY <1>1, <1>2 DEF WeakDelete, Becomes
<1>4. /\ Kept(s.v, s.n, alive, entries, twice)
      /\ c \notin twice => (s.at # -1 <=> c \in DOMAIN entries)
  BY <1>1, <1>3, SearchKept
<1>5. right'
  <2>1. right' = (c \notin twice => ((s.at # -1) = (c \in DOMAIN entries)))
    BY <1>1 DEF WeakDelete, Replies
  <2>2. c \notin twice => ((s.at # -1) = (c \in DOMAIN entries))
    BY ONLY <1>4
  <2> QED BY ONLY <2>1, <2>2
<1>6. PICK h : h = Without(c)
  OBVIOUS
<1>7. DOMAIN h = DOMAIN entries \ {c} /\ \A d \in DOMAIN h : h[d] = entries[d]
  BY <1>6 DEF Without
<1>8. PICK n \in Nat \ {0} : Table(s.v, n) /\ Reached(s.v, n) /\ 4 * s.n < 3 * n
  BY <1>4 DEF Kept
<1>9. /\ s.n = Cardinality(UsedIn(s.v)) /\ alive \subseteq Cells /\ twice \subseteq alive
      /\ DOMAIN entries \subseteq alive
      /\ \A k \in DOMAIN s.v : s.v[k].key \in Cells => s.v[k].key \in alive
      /\ \A d \in alive \ twice :
           /\ Once(s.v, d)
           /\ d \in DOMAIN entries <=> \E k \in DOMAIN s.v : s.v[k].key = d
           /\ \A k \in DOMAIN s.v : s.v[k].key = d => s.v[k].value = entries[d]
  BY <1>4 DEF Kept
<1>10. PICK v : v = s.v
  OBVIOUS
<1>11. DOMAIN v = 0..(n - 1) /\ v \in [0..(n - 1) -> PlaceKinds]
  BY <1>8, <1>10 DEF Table
<1>12. CASE s.at = -1
  <2>1. t = s
    BY <1>2, <1>12
  <2>2. c \notin twice => c \notin DOMAIN entries
    BY <1>4, <1>12
  <2>3. \A d \in alive \ twice :
           /\ d \in DOMAIN h <=> \E k \in DOMAIN v : v[k].key = d
           /\ \A k \in DOMAIN v : v[k].key = d => v[k].value = h[d]
    BY <1>7, <1>9, <1>10, <2>2
  <2>4. DOMAIN h \subseteq alive
    BY <1>7, <1>9
  <2>5. Kept(v, s.n, alive, h, twice)
    <3>1. \E b \in Nat \ {0} : Table(v, b) /\ Reached(v, b) /\ 4 * s.n < 3 * b
      BY <1>8, <1>10
    <3> QED BY <1>9, <1>10, <2>3, <2>4, <3>1 DEF Kept
  <2> QED BY <1>3, <1>5, <1>6, <1>10, <2>1, <2>5 DEF WInv
<1>13. CASE s.at # -1
  <2>1. PICK g : g = s.at
    OBVIOUS
  <2>2. PICK w : w = [v EXCEPT ![g] = DeletedPlace]
    OBVIOUS
  <2>3. t.v = w /\ t.n = s.n - 1
    <3>1. t = [v |-> w, n |-> s.n - 1]
      BY <1>2, <1>10, <1>13, <2>1, <2>2
    <3> QED BY ONLY <3>1
  <2>4. g \in 0..(n - 1) /\ v[g].key = c /\ c \in Cells
    <3>1. PICK b \in Nat \ {0} : Table(vector, b) /\ Reached(vector, b)
      BY DEF WInv, Kept
    <3>2. size = Cardinality(UsedIn(vector)) /\ c \in Cells
      BY <1>3 DEF WInv, Kept
    <3>3. /\ Table(vector, b) /\ Reached(vector, b) /\ size = Cardinality(UsedIn(vector))
          /\ c \in Cells /\ s = Search(c)
      BY <1>1, <3>1, <3>2
    <3>4. /\ Table(s.v, b)
          /\ \A k \in 0..(b - 1) : s.v[k] = vector[k] \/ (vector[k].key = "collected" /\ s.v[k] = DeletedPlace)
          /\ s.at = -1 \/ (s.at \in 0..(b - 1) /\ vector[s.at].key = c)
      BY ONLY <3>3, SearchIs
    <3>5. 0..(b - 1) = 0..(n - 1)
      BY <1>10, <1>11, <3>4 DEF Table
    <3>6. g \in 0..(b - 1) /\ vector[g].key = c /\ c # "collected"
      BY <1>13, <2>1, <3>2, <3>4, WeakMapAssumption
    <3>7. v[g] = vector[g]
      BY <1>10, <3>4, <3>6
    <3> QED BY <3>2, <3>5, <3>6, <3>7
  <2>5. DeletedPlace \in PlaceKinds /\ DeletedPlace.state = "DELETED" /\ DeletedPlace.key = "none"
    BY DEF DeletedPlace, EmptyPlace, PlaceKinds
  <2>6. /\ w \in [0..(n - 1) -> PlaceKinds] /\ DOMAIN w = 0..(n - 1) /\ w[g] = DeletedPlace
        /\ \A k \in 0..(n - 1) : k # g => w[k] = v[k]
    BY <1>11, <2>2, <2>4, <2>5
  <2>7. Table(w, n)
    BY <1>8, <1>10, <2>4, <2>5, <2>6 DEF Table
  <2>8. Reached(w, n)
    <3> SUFFICES ASSUME NEW l \in 0..(n - 1), w[l].key \in Cells
                 PROVE  \E j \in 1..n : /\ At(n, w[l].key, j) = l
                                        /\ \A q \in 1..(j - 1) : w[At(n, w[l].key, q)].state # "EMPTY"
      BY DEF Reached
    <3>1. w[l] = v[l] /\ v[l].key \in Cells
      BY <2>5, <2>6, WeakMapAssumption
    <3>2. PICK j \in 1..n : /\ At(n, v[l].key, j) = l
                            /\ \A q \in 1..(j - 1) : v[At(n, v[l].key, q)].state # "EMPTY"
      BY <1>8, <1>10, <3>1 DEF Reached
    <3>3. ASSUME NEW q \in 1..(j - 1) PROVE w[At(n, v[l].key, q)].state # "EMPTY"
      <4>1. At(n, v[l].key, q) \in 0..(n - 1)
        <5>1. q \in 1..n
          BY <1>8, <3>2
        <5> QED BY <1>8, <3>1, <5>1, ProbeCovers
      <4> QED BY <2>5, <2>6, <3>2, <4>1
    <3> QED BY <3>1, <3>2, <3>3
  <2>9. s.n - 1 = Cardinality(UsedIn(w)) /\ 4 * (s.n - 1) < 3 * n
    <3>1. UsedIn(w) = UsedIn(v) \ {g}
      BY <1>11, <2>4, <2>5, <2>6 DEF UsedIn
    <3>2. g \in UsedIn(v)
      BY <1>8, <1>10, <1>11, <2>4, WeakMapAssumption DEF UsedIn, Table
    <3>3. IsFiniteSet(UsedIn(v)) /\ Cardinality(UsedIn(v)) \in Nat
      <4>1. IsFiniteSet(DOMAIN v)
        BY <1>8, <1>10, ProbeIs
      <4>2. UsedIn(v) \subseteq DOMAIN v
        BY DEF UsedIn
      <4> QED BY <4>1, <4>2, FS_Subset, FS_CardinalityType
    <3>4. Cardinality(UsedIn(w)) = Cardinality(UsedIn(v)) - 1
      BY <3>1, <3>2, <3>3, FS_RemoveElement
    <3> QED BY <1>8, <1>9, <1>10, <3>3, <3>4
  <2>10. \A d \in Cells : \A k \in 0..(n - 1) :
            w[k].key = d => k # g /\ w[k] = v[k]
    BY <2>5, <2>6, WeakMapAssumption
  <2>11. \A d \in Cells : \A k \in 0..(n - 1) : d # c /\ v[k].key = d => w[k] = v[k]
    BY <2>4, <2>6
  <2>12. ASSUME NEW d \in alive \ twice
         PROVE  /\ Once(w, d)
                /\ d \in DOMAIN h <=> \E k \in DOMAIN w : w[k].key = d
                /\ \A k \in DOMAIN w : w[k].key = d => w[k].value = h[d]
    <3>1. /\ Once(v, d) /\ d \in Cells
          /\ d \in DOMAIN entries <=> \E k \in DOMAIN v : v[k].key = d
          /\ \A k \in DOMAIN v : v[k].key = d => v[k].value = entries[d]
      BY <1>9, <1>10
    <3>2. Once(w, d)
      BY <1>11, <2>6, <2>10, <3>1 DEF Once
    <3>3. CASE d = c
      <4>1. \A k \in DOMAIN w : w[k].key # d
        <5> SUFFICES ASSUME NEW k \in DOMAIN w, w[k].key = d PROVE FALSE
          OBVIOUS
        <5>1. k \in 0..(n - 1) /\ k # g /\ v[k].key = c
          BY <2>6, <2>10, <3>1, <3>3
        <5> QED BY <1>11, <2>4, <3>1, <3>3, <5>1 DEF Once
      <4> QED BY <1>7, <3>2, <3>3, <4>1
    <3>4. CASE d # c
      <4>1. d \in DOMAIN h <=> d \in DOMAIN entries
        BY <1>7, <3>4
      <4>2. (\E k \in DOMAIN w : w[k].key = d) <=> (\E k \in DOMAIN v : v[k].key = d)
        BY <1>11, <2>6, <2>10, <2>11, <3>1, <3>4
      <4>3. \A k \in DOMAIN w : w[k].key = d => w[k].value = h[d]
        BY <1>7, <1>11, <2>6, <2>10, <3>1, <3>4, <4>1
      <4> QED BY <3>1, <3>2, <4>1, <4>2, <4>3
    <3> QED BY <3>3, <3>4
  <2>13. \A k \in DOMAIN w : w[k].key \in Cells => w[k].key \in alive
    BY <1>9, <1>10, <1>11, <2>6, <2>10
  <2>14. Kept(w, s.n - 1, alive, h, twice)
    <3>1. \E b \in Nat \ {0} : Table(w, b) /\ Reached(w, b) /\ 4 * (s.n - 1) < 3 * b
      BY <2>7, <2>8, <2>9
    <3>2. DOMAIN h \subseteq alive
      BY <1>7, <1>9
    <3> QED BY <1>9, <2>9, <2>12, <2>13, <3>1, <3>2 DEF Kept
  <2> QED BY <1>3, <1>5, <1>6, <2>3, <2>14 DEF WInv
<1> QED BY <1>12, <1>13

\* Growing keeps what the table holds.
LEMMA GrowKept ==
  ASSUME NEW n \in Nat \ {0}, NEW t, NEW v, NEW m, t = [v |-> v, n |-> m],
         Table(v, n), Reached(v, n), m = Cardinality(UsedIn(v)),
         NEW live, live \subseteq Cells, NEW held, NEW two,
         two \subseteq live, DOMAIN held \subseteq live,
         \A k \in DOMAIN v : v[k].key \in Cells => v[k].key \in live,
         \A c \in live \ two :
           /\ Once(v, c)
           /\ c \in DOMAIN held <=> \E k \in DOMAIN v : v[k].key = c
           /\ \A k \in DOMAIN v : v[k].key = c => v[k].value = held[c],
         NEW u, u = GrowTable(t)
  PROVE  Kept(u.v, u.n, live, held, two)
<1>1. t.v = v /\ t.n = m
  OBVIOUS
<1>2. DOMAIN v = 0..(n - 1) /\ Cardinality(DOMAIN v) = n
  BY ProbeIs
<1>3. m \in Nat
  <2>1. IsFiniteSet(DOMAIN v)
    BY ProbeIs
  <2>2. UsedIn(v) \subseteq DOMAIN v
    BY DEF UsedIn
  <2> QED BY <2>1, <2>2, FS_Subset, FS_CardinalityType
<1>4. CASE 4 * m >= 3 * n
  <2>1. u = GrowForce(t)
    BY <1>1, <1>2, <1>4 DEF GrowTable
  <2>2. Copied(u, v, n, n)
    BY <2>1, GrownTable
  <2>3. PICK w : w = u.v
    OBVIOUS
  <2>4. PICK r : r = 2 * n
    OBVIOUS
  <2>5. /\ Table(w, r) /\ Reached(w, r) /\ u.n = Cardinality(UsedIn(w)) /\ u.n \in 0..n
        /\ \A c \in Cells : Once(w, c)
        /\ \A c \in Cells :
             (\E k \in 0..(r - 1) : w[k].key = c) <=> (\E l \in 0..(n - 1) : v[l].key = c)
        /\ \A c \in Cells : Once(v, c) =>
             \A k \in 0..(r - 1) : \A l \in 0..(n - 1) :
               w[k].key = c /\ v[l].key = c => w[k].value = v[l].value
    BY <2>2, <2>3, <2>4 DEF Copied
  <2>6. DOMAIN w = 0..(r - 1) /\ r \in Nat \ {0} /\ 4 * u.n < 3 * r
    BY <2>4, <2>5 DEF Table
  <2>7. \A k \in DOMAIN w : w[k].key \in Cells => w[k].key \in live
    BY SMTT(30), <1>2, <2>5, <2>6
  <2>8. ASSUME NEW c \in live \ two
        PROVE  /\ Once(w, c)
               /\ c \in DOMAIN held <=> \E k \in DOMAIN w : w[k].key = c
               /\ \A k \in DOMAIN w : w[k].key = c => w[k].value = held[c]
    <3>1. /\ c \in Cells /\ Once(v, c)
          /\ c \in DOMAIN held <=> \E k \in 0..(n - 1) : v[k].key = c
          /\ \A k \in 0..(n - 1) : v[k].key = c => v[k].value = held[c]
      BY <1>2
    <3>2. ASSUME NEW k \in DOMAIN w, w[k].key = c PROVE w[k].value = held[c]
      <4>1. PICK l \in 0..(n - 1) : v[l].key = c
        BY <2>5, <2>6, <3>1, <3>2
      <4> QED BY <2>5, <2>6, <3>1, <3>2, <4>1
    <3> QED BY <2>5, <2>6, <3>1, <3>2
  <2> QED BY <2>3, <2>5, <2>6, <2>7, <2>8 DEF Kept
<1>5. CASE ~(4 * m >= 3 * n)
  <2>1. u = t
    BY <1>1, <1>2, <1>5 DEF GrowTable
  <2>2. 4 * m < 3 * n
    BY <1>3, <1>5
  <2> QED BY <1>1, <2>1, <2>2 DEF Kept
<1> QED BY <1>4, <1>5

\* set: a key that a search would have found behind a deleted place is entered a
\* second time, and is told apart from then on.
LEMMA WeakSetKept ==
  ASSUME WInv, NEW c, NEW x \in WeakValues, WeakSet(c, x)
  PROVE  WInv'
<1>1. PICK t : t = PutIn([v |-> vector, n |-> size], c, x)
  OBVIOUS
<1>2. PICK u : u = GrowTable(t)
  OBVIOUS
<1>3. PICK h : h = [d \in DOMAIN entries \cup {c} |-> IF d = c THEN x ELSE entries[d]]
  OBVIOUS
<1>4. PICK two : two = IF Cardinality(Places(t.v, c)) > 1 THEN twice \cup {c} ELSE twice
  OBVIOUS
<1>5. /\ c \in alive /\ vector' = u.v /\ size' = u.n /\ twice' = two /\ entries' = h
      /\ right' = TRUE /\ alive' = alive
  BY <1>1, <1>2, <1>3, <1>4 DEF WeakSet, Becomes
<1>6. PICK n \in Nat \ {0} : Table(vector, n) /\ Reached(vector, n) /\ 4 * size < 3 * n
  BY DEF WInv, Kept
<1>7. /\ size = Cardinality(UsedIn(vector)) /\ alive \subseteq Cells /\ twice \subseteq alive
      /\ DOMAIN entries \subseteq alive
      /\ \A k \in DOMAIN vector : vector[k].key \in Cells => vector[k].key \in alive
      /\ \A d \in alive \ twice :
           /\ Once(vector, d)
           /\ d \in DOMAIN entries <=> \E k \in DOMAIN vector : vector[k].key = d
           /\ \A k \in DOMAIN vector : vector[k].key = d => vector[k].value = entries[d]
  BY DEF WInv, Kept
<1>8. DOMAIN vector = 0..(n - 1) /\ IsFiniteSet(0..(n - 1))
  BY <1>6, ProbeIs
<1>9. size \in Nat /\ size < n
  <2>1. UsedIn(vector) \subseteq 0..(n - 1)
    BY <1>8 DEF UsedIn
  <2>2. size \in Nat
    BY <1>7, <1>8, <2>1, FS_Subset, FS_CardinalityType
  <2> QED BY <1>6, <2>2
<1>10. PICK k \in 0..(n - 1) : Entered(vector, n, size, c, x, t, k)
  <2>1. PICK s : s = [v |-> vector, n |-> size]
    OBVIOUS
  <2>2. /\ Table(vector, n) /\ Reached(vector, n) /\ size = Cardinality(UsedIn(vector))
        /\ size \in Nat /\ size < n /\ c \in Cells /\ x \in WeakValues \cup {"undefined"}
        /\ s = [v |-> vector, n |-> size] /\ t = PutIn(s, c, x)
    BY <1>1, <1>5, <1>6, <1>7, <1>9, <2>1
  <2> QED BY ONLY <2>2, PutKept
<1>11. PICK b : b = t.v
  OBVIOUS
<1>12. PICK m : m = t.n
  OBVIOUS
<1>13. /\ m = Cardinality(UsedIn(b)) /\ Table(b, n) /\ Reached(b, n) /\ b[k] = Used(c, x)
       /\ vector[k].key \in {"none", "collected", c}
       /\ \A l \in 0..(n - 1) : l # k => b[l] = vector[l]
  BY <1>10, <1>11, <1>12 DEF Entered
<1>14. t = [v |-> b, n |-> m]
  <2>1. PICK p, y : t = [v |-> p, n |-> y]
    BY <1>1 DEF PutIn
  <2> QED BY <1>11, <1>12, <2>1
<1>15. /\ DOMAIN b = 0..(n - 1) /\ b[k].key = c /\ b[k].value = x /\ c \in Cells
       /\ c \notin {"none", "collected"}
  BY <1>5, <1>7, <1>13, WeakMapAssumption DEF Used, Table
<1>16. \A l \in DOMAIN b : b[l].key \in Cells => b[l].key \in alive
  BY <1>5, <1>7, <1>8, <1>13, <1>15
<1>17. DOMAIN h = DOMAIN entries \cup {c} /\ h[c] = x /\ \A d \in DOMAIN entries : d # c => h[d] = entries[d]
  BY <1>3
<1>18. DOMAIN h \subseteq alive /\ two \subseteq alive
  BY <1>4, <1>5, <1>7, <1>17
<1>19. ASSUME NEW d \in alive \ two
       PROVE  /\ Once(b, d)
              /\ d \in DOMAIN h <=> \E l \in DOMAIN b : b[l].key = d
              /\ \A l \in DOMAIN b : b[l].key = d => b[l].value = h[d]
  <2>1. CASE d = c
    <3>1. ~(Cardinality(Places(b, c)) > 1)
      BY <1>4, <1>11, <1>19, <2>1
    <3>2. Places(b, c) \subseteq 0..(n - 1) /\ IsFiniteSet(Places(b, c))
      <4>1. Places(b, c) \subseteq 0..(n - 1)
        BY <1>15 DEF Places
      <4> QED BY <1>8, <4>1, FS_Subset
    <3>3. ASSUME NEW l \in 0..(n - 1), NEW g \in 0..(n - 1), b[l].key = c, b[g].key = c, l # g
          PROVE  FALSE
      <4>1. l \in Places(b, c) /\ g \in Places(b, c)
        BY <1>13, <1>15, <3>3 DEF Places, Table
      <4>2. {l, g} \subseteq Places(b, c)
        BY <4>1
      <4>3. Cardinality({l, g}) = 2 /\ IsFiniteSet({l, g})
        <5>1. Cardinality({l}) = 1 /\ IsFiniteSet({l})
          BY FS_Singleton
        <5>2. {l, g} = {l} \cup {g} /\ g \notin {l}
          BY <3>3
        <5>3. /\ IsFiniteSet({l} \cup {g})
              /\ Cardinality({l} \cup {g}) = Cardinality({l}) + 1
          <6> DEFINE one == {l}
          <6>1. IsFiniteSet(one) /\ g \notin one
            BY <5>1, <5>2
          <6> HIDE DEF one
          <6>2. IsFiniteSet(one \cup {g}) /\ Cardinality(one \cup {g}) = Cardinality(one) + 1
            BY <6>1, FS_AddElement
          <6> QED BY <6>2 DEF one
        <5> QED BY ONLY <5>1, <5>2, <5>3
      <4>4. Cardinality({l, g}) <= Cardinality(Places(b, c))
        BY <3>2, <4>2, FS_Subset
      <4>5. Cardinality(Places(b, c)) \in Nat
        BY <3>2, FS_CardinalityType
      <4> QED BY <3>1, <4>3, <4>4, <4>5
    <3>4. Once(b, d)
      BY <1>15, <2>1, <3>3 DEF Once
    <3>5. \A l \in DOMAIN b : b[l].key = d => b[l].value = h[d]
      BY <1>15, <1>17, <2>1, <3>3
    <3> QED BY <1>15, <1>17, <2>1, <3>4, <3>5
  <2>2. CASE d # c
    <3>1. d \in alive \ twice /\ d \in Cells /\ d \notin {"none", "collected"}
      BY <1>4, <1>7, <1>19, WeakMapAssumption
    <3>2. /\ Once(vector, d)
          /\ d \in DOMAIN entries <=> \E l \in DOMAIN vector : vector[l].key = d
          /\ \A l \in DOMAIN vector : vector[l].key = d => vector[l].value = entries[d]
      BY <1>7, <3>1
    <3>3. \A l \in 0..(n - 1) : b[l].key = d \/ vector[l].key = d => b[l] = vector[l]
      BY <1>13, <1>15, <2>2, <3>1
    <3>4. \A l \in 0..(n - 1) : b[l].key = d <=> vector[l].key = d
      BY <3>3
    <3>5. Once(b, d)
      BY <1>8, <1>15, <3>2, <3>4 DEF Once
    <3>6. d \in DOMAIN h <=> d \in DOMAIN entries
      BY <1>17, <2>2
    <3>7. (\E l \in DOMAIN b : b[l].key = d) <=> (\E l \in DOMAIN vector : vector[l].key = d)
      BY <1>8, <1>15, <3>4
    <3>8. \A l \in DOMAIN b : b[l].key = d => b[l].value = h[d]
      BY <1>8, <1>15, <1>17, <2>2, <3>2, <3>3
    <3> QED BY <3>2, <3>5, <3>6, <3>7, <3>8
  <2> QED BY <2>1, <2>2
<1>20. /\ n \in Nat \ {0} /\ t = [v |-> b, n |-> m] /\ Table(b, n) /\ Reached(b, n)
       /\ m = Cardinality(UsedIn(b)) /\ alive \subseteq Cells /\ two \subseteq alive
       /\ DOMAIN h \subseteq alive
       /\ \A l \in DOMAIN b : b[l].key \in Cells => b[l].key \in alive
       /\ \A d \in alive \ two :
            /\ Once(b, d)
            /\ d \in DOMAIN h <=> \E l \in DOMAIN b : b[l].key = d
            /\ \A l \in DOMAIN b : b[l].key = d => b[l].value = h[d]
       /\ u = GrowTable(t)
  BY <1>2, <1>7, <1>13, <1>14, <1>16, <1>18, <1>19
<1>21. Kept(u.v, u.n, alive, h, two)
  BY ONLY <1>20, GrowKept
<1> QED BY <1>5, <1>21 DEF WInv

\* The collector takes a key, wherever it is.
LEMMA CollectKept ==
  ASSUME WInv, NEW c, Collect(c)
  PROVE  WInv'
<1>1. PICK v : v = [k \in DOMAIN vector |->
                      IF vector[k].key = c THEN [vector[k] EXCEPT !.key = "collected"] ELSE vector[k]]
  OBVIOUS
<1>2. PICK h : h = Without(c)
  OBVIOUS
<1>3. /\ c \in alive /\ alive' = alive \ {c} /\ vector' = v /\ entries' = h
      /\ twice' = twice \ {c} /\ right' = TRUE /\ size' = size
  BY <1>1, <1>2 DEF Collect
<1>4. PICK n \in Nat \ {0} : Table(vector, n) /\ Reached(vector, n) /\ 4 * size < 3 * n
  BY DEF WInv, Kept
<1>5. /\ size = Cardinality(UsedIn(vector)) /\ alive \subseteq Cells /\ twice \subseteq alive
      /\ DOMAIN entries \subseteq alive
      /\ \A k \in DOMAIN vector : vector[k].key \in Cells => vector[k].key \in alive
      /\ \A d \in alive \ twice :
           /\ Once(vector, d)
           /\ d \in DOMAIN entries <=> \E k \in DOMAIN vector : vector[k].key = d
           /\ \A k \in DOMAIN vector : vector[k].key = d => vector[k].value = entries[d]
  BY DEF WInv, Kept
<1>6. /\ vector \in [0..(n - 1) -> PlaceKinds] /\ DOMAIN vector = 0..(n - 1)
      /\ \A k \in 0..(n - 1) : vector[k] \in PlaceKinds /\ (vector[k].state = "USED" <=> vector[k].key # "none")
  BY <1>4 DEF Table
<1>7. ASSUME NEW k \in 0..(n - 1)
      PROVE  /\ v[k] \in PlaceKinds /\ v[k].state = vector[k].state /\ v[k].value = vector[k].value
             /\ vector[k].key = c => v[k].key = "collected"
             /\ vector[k].key # c => v[k] = vector[k]
  <2>1. CASE vector[k].key = c
    <3>1. PICK q : q = vector[k]
      OBVIOUS
    <3>2. PICK p : p = [q EXCEPT !.key = "collected"]
      OBVIOUS
    <3>3. q \in PlaceKinds
      BY <1>6, <3>1
    <3>4. p \in PlaceKinds /\ p.state = q.state /\ p.value = q.value /\ p.key = "collected"
      BY ONLY <3>2, <3>3 DEF PlaceKinds
    <3>5. v[k] = p
      BY <1>1, <1>6, <2>1, <3>1, <3>2
    <3> QED BY <2>1, <3>1, <3>4, <3>5
  <2>2. CASE vector[k].key # c
    BY <1>1, <1>6, <2>2
  <2> QED BY <2>1, <2>2
<1>8. DOMAIN v = 0..(n - 1) /\ v \in [0..(n - 1) -> PlaceKinds]
  BY <1>1, <1>6, <1>7
<1>9. c \in Cells /\ c \notin {"none", "collected"}
  BY <1>3, <1>5, WeakMapAssumption
<1>10. \A k \in 0..(n - 1) : v[k].state = "USED" <=> v[k].key # "none"
  BY <1>6, <1>7, <1>9
<1>11. Table(v, n)
  BY <1>8, <1>10 DEF Table
<1>12. Reached(v, n)
  <2> SUFFICES ASSUME NEW l \in 0..(n - 1), v[l].key \in Cells
               PROVE  \E j \in 1..n : /\ At(n, v[l].key, j) = l
                                      /\ \A q \in 1..(j - 1) : v[At(n, v[l].key, q)].state # "EMPTY"
    BY DEF Reached
  <2>1. v[l] = vector[l] /\ vector[l].key \in Cells
    BY <1>7, WeakMapAssumption
  <2>2. PICK j \in 1..n : /\ At(n, vector[l].key, j) = l
                          /\ \A q \in 1..(j - 1) : vector[At(n, vector[l].key, q)].state # "EMPTY"
    BY <1>4, <2>1 DEF Reached
  <2>3. ASSUME NEW q \in 1..(j - 1) PROVE v[At(n, vector[l].key, q)].state # "EMPTY"
    <3>1. At(n, vector[l].key, q) \in 0..(n - 1)
      <4>1. q \in 1..n
        BY <1>4, <2>2
      <4> QED BY <1>4, <2>1, <4>1, ProbeCovers
    <3> QED BY <1>7, <2>2, <3>1
  <2> QED BY <2>1, <2>2, <2>3
<1>13. UsedIn(v) = UsedIn(vector)
  BY <1>6, <1>7, <1>8 DEF UsedIn
<1>14. DOMAIN h = DOMAIN entries \ {c} /\ \A d \in DOMAIN h : h[d] = entries[d]
  BY <1>2 DEF Without
<1>15. \A k \in DOMAIN v : v[k].key \in Cells => v[k].key \in alive \ {c}
  BY <1>5, <1>6, <1>7, <1>8, WeakMapAssumption
<1>16. ASSUME NEW d \in (alive \ {c}) \ (twice \ {c})
       PROVE  /\ Once(v, d)
              /\ d \in DOMAIN h <=> \E k \in DOMAIN v : v[k].key = d
              /\ \A k \in DOMAIN v : v[k].key = d => v[k].value = h[d]
  <2>1. /\ d \in alive \ twice /\ d # c /\ d \in Cells /\ d # "collected"
    BY <1>5, <1>16, WeakMapAssumption
  <2>2. /\ Once(vector, d)
        /\ d \in DOMAIN entries <=> \E k \in DOMAIN vector : vector[k].key = d
        /\ \A k \in DOMAIN vector : vector[k].key = d => vector[k].value = entries[d]
    BY <1>5, <2>1
  <2>3. \A k \in 0..(n - 1) : v[k].key = d <=> vector[k].key = d
    BY <1>7, <2>1
  <2>4. Once(v, d)
    BY <1>6, <1>8, <2>2, <2>3 DEF Once
  <2>5. d \in DOMAIN h <=> d \in DOMAIN entries
    BY <1>14, <2>1
  <2>6. (\E k \in DOMAIN v : v[k].key = d) <=> (\E k \in DOMAIN vector : vector[k].key = d)
    BY <1>6, <1>8, <2>3
  <2>7. \A k \in DOMAIN v : v[k].key = d => v[k].value = h[d]
    BY <1>6, <1>7, <1>8, <1>14, <2>2, <2>3, <2>5
  <2> QED BY <2>2, <2>4, <2>5, <2>6, <2>7
<1>17. Kept(v, size, alive \ {c}, h, twice \ {c})
  <2>1. \E b \in Nat \ {0} : Table(v, b) /\ Reached(v, b) /\ 4 * size < 3 * b
    BY <1>4, <1>11, <1>12
  <2>2. size = Cardinality(UsedIn(v))
    BY <1>5, <1>13
  <2>3. alive \ {c} \subseteq Cells /\ twice \ {c} \subseteq alive \ {c} /\ DOMAIN h \subseteq alive \ {c}
    BY <1>5, <1>14
  <2> QED BY <1>15, <1>16, <2>1, <2>2, <2>3 DEF Kept
<1> QED BY <1>3, <1>17 DEF WInv

\* Another object at the address of one that was collected: no place has its key.
LEMMA NewObjectKept ==
  ASSUME WInv, NEW c \in Cells, NewObject(c)
  PROVE  WInv'
<1>1. c \notin alive /\ alive' = alive \cup {c} /\ UNCHANGED <<vector, size, entries, twice, right>>
  BY DEF NewObject
<1>2. /\ alive \subseteq Cells /\ twice \subseteq alive
      /\ DOMAIN entries \subseteq alive
      /\ \A k \in DOMAIN vector : vector[k].key \in Cells => vector[k].key \in alive
      /\ \A d \in alive \ twice :
           /\ Once(vector, d)
           /\ d \in DOMAIN entries <=> \E k \in DOMAIN vector : vector[k].key = d
           /\ \A k \in DOMAIN vector : vector[k].key = d => vector[k].value = entries[d]
      /\ right
      /\ size = Cardinality(UsedIn(vector))
      /\ \E n \in Nat \ {0} : Table(vector, n) /\ Reached(vector, n) /\ 4 * size < 3 * n
  BY DEF WInv, Kept
<1>3. \A k \in DOMAIN vector : vector[k].key # c
  BY <1>1, <1>2
<1>4. Once(vector, c) /\ c \notin DOMAIN entries
  BY <1>1, <1>2, <1>3 DEF Once
<1>5. ASSUME NEW d \in (alive \cup {c}) \ twice
      PROVE  /\ Once(vector, d)
             /\ d \in DOMAIN entries <=> \E k \in DOMAIN vector : vector[k].key = d
             /\ \A k \in DOMAIN vector : vector[k].key = d => vector[k].value = entries[d]
  <2>1. d \in alive \ twice \/ d = c
    OBVIOUS
  <2> QED BY <1>2, <1>3, <1>4, <2>1
<1>6. Kept(vector, size, alive \cup {c}, entries, twice)
  <2>1. alive \cup {c} \subseteq Cells /\ twice \subseteq alive \cup {c} /\ DOMAIN entries \subseteq alive \cup {c}
    BY <1>2
  <2>2. \A k \in DOMAIN vector : vector[k].key \in Cells => vector[k].key \in alive \cup {c}
    BY <1>2
  <2> QED BY <1>2, <1>5, <2>1, <2>2 DEF Kept
<1> QED BY <1>1, <1>2, <1>6 DEF WInv

\* For any keys, hashes and table size, whatever is set, deleted, collected,
\* cleared and grown: every answer about a key that was entered once is that of a
\* map, a quarter of the table is free, and size_ is what is used.
THEOREM WeakMapStaysMap == WSpec => []WeakMapIsMap
<1>1. WInit => WInv
  <2> SUFFICES ASSUME WInit PROVE WInv
    OBVIOUS
  <2>1. PICK t : t = Fresh(InitialSize)
    OBVIOUS
  <2>2. t.n = 0
    <3>1. InitialSize \in Nat \ {0}
      BY WeakMapAssumption
    <3> QED BY <2>1, <3>1, FreshIs
  <2>3. Kept(t.v, t.n, Cells, <<>>, {})
    BY <2>1, FreshKept
  <2> QED BY <2>1, <2>2, <2>3 DEF WInit, WInv
<1>2. WInv /\ [WNext]_wvars => WInv'
  <2> SUFFICES ASSUME WInv, [WNext]_wvars PROVE WInv'
    OBVIOUS
  <2>1. ASSUME NEW c \in Cells, NEW v \in WeakValues, WeakSet(c, v) PROVE WInv'
    BY <2>1, WeakSetKept
  <2>2. ASSUME NEW c \in Cells, WeakGet(c) PROVE WInv'
    BY <2>2, WeakGetKept
  <2>3. ASSUME NEW c \in Cells, WeakHas(c) PROVE WInv'
    BY <2>3, WeakHasKept
  <2>4. ASSUME NEW c \in Cells, WeakDelete(c) PROVE WInv'
    BY <2>4, WeakDeleteKept
  <2>5. ASSUME NEW c \in Cells, Collect(c) PROVE WInv'
    BY <2>5, CollectKept
  <2>6. ASSUME NEW c \in Cells, NewObject(c) PROVE WInv'
    BY <2>6, NewObjectKept
  <2>7. CASE WeakClear
    <3>1. PICK t : t = Fresh(InitialSize)
      OBVIOUS
    <3>2. /\ vector' = t.v /\ size' = t.n /\ entries' = <<>> /\ twice' = {} /\ right' = TRUE
          /\ alive' = alive
      BY <2>7, <3>1 DEF WeakClear, Becomes
    <3>3. alive \subseteq Cells
      BY DEF WInv, Kept
    <3>4. Kept(t.v, t.n, alive, <<>>, {})
      BY <3>1, <3>3, FreshKept
    <3> QED BY <3>2, <3>4 DEF WInv
  <2>8. CASE UNCHANGED wvars
    BY <2>8 DEF wvars, WInv
  <2> QED BY <2>1, <2>2, <2>3, <2>4, <2>5, <2>6, <2>7, <2>8 DEF WNext
<1>3. WInv => WeakMapIsMap
  <2> SUFFICES ASSUME WInv PROVE WeakMapIsMap
    OBVIOUS
  <2>1. PICK n \in Nat \ {0} : Table(vector, n) /\ 4 * size < 3 * n
    BY DEF WInv, Kept
  <2>2. Cardinality(DOMAIN vector) = n
    BY <2>1, ProbeIs
  <2> QED BY <2>1, <2>2 DEF WeakMapIsMap, WInv, Kept, UsedIn
<1> QED BY <1>1, <1>2, <1>3, PTL DEF WSpec
=============================================================================
