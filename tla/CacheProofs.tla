---------------------------- MODULE CacheProofs ----------------------------
(***************************************************************************)
(* The inline caches of compiled code, for any number of sites, units and  *)
(* objects: what a unit's guards let through, it reads and writes as the   *)
(* full lookup would (LoadICSound, StoreICSound), and compiled code still  *)
(* implements the objects of ECMAScript 5 (ImplementsObjects).             *)
(*                                                                         *)
(* A unit is a statement about maps, made when it is generated: that each  *)
(* guard is a map that cannot change any more, has or lacks the name, and  *)
(* has the next object of the chain as its prototype.  Lasting of          *)
(* HiddenClassProofs keeps these statements true for ever, and together    *)
(* with the guards they say where the lookup ends.                         *)
(***************************************************************************)
EXTENDS InlineCache, HiddenClassProofs

-----------------------------------------------------------------------------
(* Lookups along a chain                                                   *)

\* Objects each of which is the prototype of the one before.
Linked(s, k) ==
  /\ k \in Nat
  /\ \A i \in 1..k : s[i] \in Objects
  /\ \A i \in 1..(k - 1) : PrototypeOf(s[i]) = s[i + 1]

\* A lookup passes over those that have not the name.
LEMMA LookupPasses ==
  ASSUME HeapInv, NEW s, NEW k, Linked(s, k), NEW n,
         NEW i \in 1..k, \A j \in 1..(i - 1) : ~HasOwn(s[j], n)
  PROVE  Holder(s[1], n) = Holder(s[i], n)
<1> DEFINE T == {j \in Nat : j \in 1..i /\ Holder(s[j], n) # Holder(s[1], n)}
<1> SUFFICES ASSUME Holder(s[i], n) # Holder(s[1], n) PROVE FALSE
  OBVIOUS
<1>1. k \in Nat /\ i \in Nat /\ i \in T
  BY DEF Linked
<1>2. PICK j \in T : \A q \in T : j <= q
  <2>1. T \subseteq Nat /\ T # {}
    BY <1>1
  <2> HIDE DEF T
  <2> QED BY <2>1, LeastNatural
<1>3. j \in Nat /\ j > 1 /\ j <= i /\ j - 1 \in 1..(i - 1) /\ j - 1 \in 1..(k - 1)
  BY <1>1, <1>2
<1>4. Holder(s[j - 1], n) = Holder(s[1], n)
  BY <1>1, <1>2, <1>3
<1>5. s[j - 1] \in Objects /\ PrototypeOf(s[j - 1]) = s[j - 1 + 1] /\ j - 1 + 1 = j
  BY <1>3 DEF Linked
<1>6. ~HasOwn(s[j - 1], n) /\ s[j - 1] # NoObject
  BY <1>3, <1>5, HeapAssumption
<1>7. Holder(s[j - 1], n) = Holder(s[j], n)
  BY <1>5, <1>6, HolderSearch DEF Chain
<1> QED BY <1>2, <1>4, <1>7

\* Either one of them is the first that has it, or none has.
LEMMA FirstOwner ==
  ASSUME NEW s, NEW k \in Nat, NEW n
  PROVE  \/ \A j \in 1..k : ~HasOwn(s[j], n)
         \/ \E i \in 1..k : HasOwn(s[i], n) /\ \A j \in 1..(i - 1) : ~HasOwn(s[j], n)
<1> DEFINE T == {j \in Nat : j \in 1..k /\ HasOwn(s[j], n)}
<1> SUFFICES ASSUME T # {}
             PROVE  \E i \in 1..k : HasOwn(s[i], n) /\ \A j \in 1..(i - 1) : ~HasOwn(s[j], n)
  OBVIOUS
<1>1. PICK i \in T : \A q \in T : i <= q
  <2>1. T \subseteq Nat
    OBVIOUS
  <2> HIDE DEF T
  <2> QED BY <2>1, LeastNatural
<1>2. \A j \in 1..(i - 1) : ~HasOwn(s[j], n)
  BY <1>1
<1> QED BY <1>1, <1>2

\* The objects from x to the first one in T, and without that one.
IsPath(s, x, T) ==
  /\ s \in Seq(Objects)
  /\ \A i \in 1..Len(s) : s[i] \notin T /\ s[i] = IF i = 1 THEN x ELSE PrototypeOf(s[i - 1])
  /\ (IF Len(s) = 0 THEN x ELSE PrototypeOf(s[Len(s)])) \in T

\* The path from an object to the set it lies in is empty.
LEMMA PathEmpty ==
  ASSUME NEW x, NEW T, x \in T, NEW s
  PROVE  IsPath(s, x, T) <=> s = <<>>
<1> DEFINE none == <<>>
<1>1. none \in Seq(Objects) /\ Len(none) = 0
  BY EmptySeq
<1>2. ASSUME IsPath(s, x, T) PROVE s = none
  <2>1. Len(s) \in Nat /\ s \in Seq(Objects)
    BY <1>2, LenProperties DEF IsPath
  <2>2. ~(1 \in 1..Len(s))
    BY <1>2 DEF IsPath
  <2>3. Len(s) = 0
    BY <2>1, <2>2
  <2> QED BY <2>1, <2>3, EmptySeq
<1> HIDE DEF none
<1>3. IsPath(none, x, T)
  BY <1>1 DEF IsPath
<1> QED BY <1>2, <1>3 DEF none

\* The path from an object outside the set goes through it to its prototype's path.
LEMMA PathStep ==
  ASSUME NEW x \in Objects, NEW T, x \notin T
  PROVE  /\ \A t : IsPath(t, PrototypeOf(x), T) => IsPath(<<x>> \o t, x, T)
         /\ \A s : IsPath(s, x, T) =>
              s = <<x>> \o Tail(s) /\ IsPath(Tail(s), PrototypeOf(x), T)
<1>1. ASSUME NEW t, IsPath(t, PrototypeOf(x), T) PROVE IsPath(<<x>> \o t, x, T)
  <2> DEFINE s == <<x>> \o t
  <2>1. t \in Seq(Objects) /\ Len(t) \in Nat
    BY <1>1, LenProperties DEF IsPath
  <2>2. /\ s \in Seq(Objects) /\ Len(s) = Len(t) + 1 /\ s[1] = x
        /\ \A i \in 1..Len(t) : s[i + 1] = t[i]
    BY <2>1
  <2> HIDE DEF s
  <2>3. ASSUME NEW i \in 1..Len(s)
        PROVE  s[i] \notin T /\ s[i] = IF i = 1 THEN x ELSE PrototypeOf(s[i - 1])
    <3>1. CASE i = 1
      BY <2>2, <3>1
    <3>2. CASE i = 2
      <4>1. 1 \in 1..Len(t) /\ s[1 + 1] = t[1] /\ 1 + 1 = 2
        BY <2>1, <2>2, <3>2
      <4>2. t[1] \notin T /\ t[1] = PrototypeOf(x)
        BY <1>1, <4>1 DEF IsPath
      <4> QED BY <2>2, <3>2, <4>1, <4>2
    <3>3. CASE i # 1 /\ i # 2
      <4> DEFINE j == i - 1
      <4>1. /\ j \in 1..Len(t) /\ j - 1 \in 1..Len(t) /\ j # 1
            /\ j + 1 = i /\ j - 1 + 1 = i - 1
        BY <2>1, <2>2, <3>3
      <4> HIDE DEF j
      <4>2. t[j] \notin T /\ t[j] = PrototypeOf(t[j - 1])
        BY <1>1, <4>1 DEF IsPath
      <4>3. s[i] = t[j] /\ s[i - 1] = t[j - 1]
        BY <2>2, <4>1
      <4> QED BY <3>3, <4>2, <4>3
    <3> QED BY <3>1, <3>2, <3>3
  <2>4. PrototypeOf(s[Len(s)]) \in T
    <3>1. CASE Len(t) = 0
      BY <1>1, <2>2, <3>1 DEF IsPath
    <3>2. CASE Len(t) # 0
      <4>1. Len(t) \in 1..Len(t)
        BY <2>1, <3>2
      <4>2. s[Len(s)] = t[Len(t)]
        BY <2>2, <4>1
      <4> QED BY <1>1, <3>2, <4>2 DEF IsPath
    <3> QED BY <3>1, <3>2
  <2>5. Len(s) # 0
    BY <2>1, <2>2
  <2> QED BY <2>2, <2>3, <2>4, <2>5 DEF IsPath, s
<1>2. ASSUME NEW s, IsPath(s, x, T)
      PROVE  s = <<x>> \o Tail(s) /\ IsPath(Tail(s), PrototypeOf(x), T)
  <2> DEFINE t == Tail(s)
  <2>1. s \in Seq(Objects) /\ Len(s) \in Nat
    BY <1>2, LenProperties DEF IsPath
  <2>2. Len(s) # 0
    BY <1>2 DEF IsPath
  <2>3. s[1] = x
    BY <1>2, <2>1, <2>2 DEF IsPath
  <2>4. /\ t \in Seq(Objects) /\ Len(t) = Len(s) - 1
        /\ \A i \in 1..Len(t) : t[i] = s[i + 1]
        /\ s = <<x>> \o t
    <3>1. s # <<>>
      BY <2>1, <2>2, EmptySeq
    <3>2. /\ t \in Seq(Objects) /\ Len(t) = Len(s) - 1
          /\ \A i \in 1..Len(t) : t[i] = s[i + 1]
      BY <2>1, <3>1, HeadTailProperties
    <3> HIDE DEF t
    <3>3. /\ <<x>> \o t \in Seq(Objects) /\ Len(<<x>> \o t) = Len(t) + 1
          /\ (<<x>> \o t)[1] = x /\ \A i \in 1..Len(t) : (<<x>> \o t)[i + 1] = t[i]
      BY <3>2
    <3> DEFINE w == <<x>> \o t
    <3>4. ASSUME NEW i \in 1..Len(s) PROVE w[i] = s[i]
      <4>1. CASE i = 1
        BY <2>3, <3>3, <4>1
      <4>2. CASE i # 1
        <5>1. i - 1 \in 1..Len(t) /\ i - 1 + 1 = i
          BY <2>1, <3>2, <4>2
        <5> QED BY <3>2, <3>3, <5>1
      <4> QED BY <4>1, <4>2
    <3>5. w \in Seq(Objects) /\ Len(w) = Len(s)
      BY <2>1, <3>2, <3>3
    <3> HIDE DEF w
    <3>6. w = s
      BY <2>1, <3>4, <3>5, SeqEqual
    <3> QED BY <3>2, <3>6 DEF w
  <2> HIDE DEF t
  <2>5. ASSUME NEW i \in 1..Len(t)
        PROVE  t[i] \notin T /\ t[i] = IF i = 1 THEN PrototypeOf(x) ELSE PrototypeOf(t[i - 1])
    <3>1. i + 1 \in 1..Len(s) /\ i + 1 # 1 /\ i + 1 - 1 = i /\ i \in Nat
      BY <2>1, <2>4
    <3>2. s[i + 1] \notin T /\ s[i + 1] = PrototypeOf(s[i])
      BY <1>2, <3>1 DEF IsPath
    <3>3. i # 1 => i - 1 \in 1..Len(t) /\ i - 1 + 1 = i
      BY <3>1
    <3> QED BY <2>3, <2>4, <3>1, <3>2, <3>3
  <2>6. (IF Len(t) = 0 THEN PrototypeOf(x) ELSE PrototypeOf(t[Len(t)])) \in T
    <3>1. PrototypeOf(s[Len(s)]) \in T
      BY <1>2, <2>2 DEF IsPath
    <3>2. Len(t) # 0 => Len(t) \in 1..Len(t) /\ Len(t) + 1 = Len(s)
      BY <2>1, <2>4
    <3>3. Len(t) = 0 => Len(s) = 1
      BY <2>1, <2>4
    <3> QED BY <2>3, <2>4, <3>1, <3>2, <3>3
  <2> QED BY <2>4, <2>5, <2>6 DEF IsPath, t
<1> QED BY <1>1, <1>2

\* A chain that ends leads into T, when the null prototype is in it, by one way.
LEMMA OnePath ==
  ASSUME HeapInv, Acyclic, NEW T, NoObject \in T, NEW x \in Chain
  PROVE  \E s : IsPath(s, x, T) /\ \A t : IsPath(t, x, T) => t = s
<1> DEFINE One(y) == \E s : IsPath(s, y, T) /\ \A t : IsPath(t, y, T) => t = s
           S == {y \in Objects : ~One(y)}
<1>1. ASSUME NEW y \in T PROVE One(y)
  <2>1. \A t : IsPath(t, y, T) <=> t = <<>>
    BY PathEmpty
  <2> QED BY <2>1
<1>2. ASSUME NEW y \in Objects, y \notin T, One(PrototypeOf(y)) PROVE One(y)
  <2>1. PICK s : IsPath(s, PrototypeOf(y), T)
                 /\ \A t : IsPath(t, PrototypeOf(y), T) => t = s
    BY <1>2
  <2>2. IsPath(<<y>> \o s, y, T)
    BY <1>2, <2>1, PathStep
  <2>3. \A t : IsPath(t, y, T) => t = <<y>> \o s
    <3> SUFFICES ASSUME NEW t, IsPath(t, y, T) PROVE t = <<y>> \o s
      OBVIOUS
    <3>1. t = <<y>> \o Tail(t) /\ IsPath(Tail(t), PrototypeOf(y), T)
      BY <1>2, PathStep
    <3>2. Tail(t) = s
      BY <2>1, <3>1
    <3> QED BY <3>1, <3>2
  <2> QED BY <2>2, <2>3
<1> HIDE DEF One
<1>3. ASSUME NEW y \in S PROVE PrototypeOf(y) \in S
  <2>1. y \in Objects /\ y \notin T /\ ~One(PrototypeOf(y))
    BY <1>1, <1>2
  <2> QED BY <1>1, <2>1, PrototypesAreObjects DEF Chain
<1>4. S = {}
  <2>1. S \in SUBSET Objects
    OBVIOUS
  <2> HIDE DEF S
  <2> QED BY <1>3, <2>1 DEF Acyclic
<1>5. One(x)
  BY <1>1, <1>4 DEF Chain
<1> QED BY <1>5 DEF One

\* What the recursion of Path computes.
LEMMA PathIsPath ==
  ASSUME HeapInv, Acyclic, NEW h, NEW o \in Chain
  PROVE  IsPath(Path(o, h), o, {h, NoObject})
<1> DEFINE T == {h, NoObject}
           Up(f) == f = [x \in Chain |-> IF x \in {h, NoObject} THEN <<>>
                                         ELSE <<x>> \o f[PrototypeOf(x)]]
           up == CHOOSE f : Up(f)
           way == [x \in Chain |-> CHOOSE s : IsPath(s, x, T)]
<1>1. \A x \in Chain : \E s : IsPath(s, x, T) /\ \A t : IsPath(t, x, T) => t = s
  BY OnePath
<1>2. \A x \in Chain : IsPath(way[x], x, T)
  BY <1>1
<1>3. \A x \in Chain : \A t : IsPath(t, x, T) => t = way[x]
  BY <1>1, <1>2
<1>4. ASSUME NEW x \in Chain
      PROVE  way[x] = IF x \in {h, NoObject} THEN <<>> ELSE <<x>> \o way[PrototypeOf(x)]
  <2>1. CASE x \in T
    <3>1. way[x] = <<>>
      BY <1>2, <2>1, PathEmpty
    <3> QED BY <2>1, <3>1
  <2>2. CASE x \notin T
    <3>1. x \in Objects /\ PrototypeOf(x) \in Chain
      BY <2>2, PrototypesAreObjects DEF Chain
    <3>2. IsPath(way[PrototypeOf(x)], PrototypeOf(x), T)
      BY <1>2, <3>1
    <3> HIDE DEF way
    <3>3. IsPath(<<x>> \o way[PrototypeOf(x)], x, T)
      BY <2>2, <3>1, <3>2, PathStep
    <3> QED BY <1>3, <2>2, <3>3
  <2> QED BY <2>1, <2>2
<1>5. Up(way)
  <2>1. way = [x \in Chain |-> way[x]]
    OBVIOUS
  <2> HIDE DEF way
  <2> QED BY <1>4, <2>1
<1> HIDE DEF way
<1>6. Up(up)
  <2>1. \E f : Up(f)
    BY <1>5
  <2> HIDE DEF Up
  <2> QED BY <2>1
<1>7. \A x : Path(x, h) = up[x]
  BY DEF Path, Chain
<1> HIDE DEF up
<1>8. \A x \in Chain : up[x] = IF x \in {h, NoObject} THEN <<>>
                               ELSE <<x>> \o up[PrototypeOf(x)]
  BY <1>6
<1> DEFINE S == {x \in Objects : ~IsPath(up[x], x, T)}
<1>9. NoObject \in T /\ NoObject \in Chain
  BY DEF Chain
<1>10. \A x \in Chain : x \in T => IsPath(up[x], x, T)
  BY <1>8, PathEmpty
<1>11. ASSUME NEW x \in S PROVE PrototypeOf(x) \in S
  <2>1. x \in Objects /\ x \in Chain /\ x \notin T /\ ~IsPath(up[x], x, T)
    BY <1>10 DEF Chain
  <2>2. up[x] = <<x>> \o up[PrototypeOf(x)]
    BY <1>8, <2>1
  <2>3. ~IsPath(up[PrototypeOf(x)], PrototypeOf(x), T)
    <3> HIDE DEF T
    <3> QED BY <2>1, <2>2, PathStep
  <2>4. PrototypeOf(x) \in Chain /\ PrototypeOf(x) # NoObject
    BY <1>9, <1>10, <2>1, <2>3, PrototypesAreObjects
  <2> QED BY <2>3, <2>4 DEF Chain
<1>12. S = {}
  <2>1. S \in SUBSET Objects
    OBVIOUS
  <2> HIDE DEF S
  <2> QED BY <1>11, <2>1 DEF Acyclic
<1>13. IsPath(up[o], o, T)
  BY <1>9, <1>10, <1>12 DEF Chain
<1> QED BY <1>7, <1>13

-----------------------------------------------------------------------------
(* Units                                                                   *)

\* A map that is shared, or flattened, gains nothing any more but transitions.
Fixed(r) == r.unique => r.flattened

\* k guards that are maps, those before the last fixed and each with the next
\* object of the unit as its prototype.
Guarded(u, k) ==
  /\ k \in Nat \ {0}
  /\ DOMAIN u.guards = 1..k
  /\ u.via \in Seq(Objects) /\ Len(u.via) = k - 1
  /\ \A i \in 1..k : u.guards[i] \in LiveMaps
  /\ \A i \in 1..(k - 1) : /\ Fixed(maps[u.guards[i]])
                           /\ maps[u.guards[i]].prototype = u.via[i]

\* What a load unit says: all but the last map lack the name, and the last has
\* a data property there.
LoadUnitOK(u, n) ==
  \E k \in Nat :
    /\ Guarded(u, k)
    /\ \A i \in 1..(k - 1) : n \notin DOMAIN maps[u.guards[i]].table
    /\ n \in DOMAIN maps[u.guards[k]].table
    /\ maps[u.guards[k]].table[n].attributes.type = "data"
    /\ maps[u.guards[k]].table[n].offset = u.offset

\* The objects whose maps the unit compares.
Visited(u, o) == [i \in DOMAIN u.guards |-> IF i = 1 THEN o ELSE u.via[i - 1]]

\* A unit that lets o through has compared the maps of a chain of prototypes.
LEMMA GuardsLink ==
  ASSUME HeapInv, NEW u, NEW k, Guarded(u, k), NEW o \in Objects, Matches(u, o)
  PROVE  /\ Linked(Visited(u, o), k) /\ Visited(u, o)[1] = o
         /\ \A i \in 1..k : MapOf(Visited(u, o)[i]) = u.guards[i]
         /\ Visited(u, o)[k] = Reached(u, o)
<1> DEFINE s == Visited(u, o)
<1>1. k \in Nat /\ k >= 1 /\ DOMAIN u.guards = 1..k /\ u.via \in Seq(Objects) /\ Len(u.via) = k - 1
  BY DEF Guarded
<1>2. \A i \in 1..k : s[i] = IF i = 1 THEN o ELSE u.via[i - 1]
  BY <1>1 DEF Visited
<1>3. \A i \in 1..(k - 1) : u.via[i] \in Objects /\ s[i + 1] = u.via[i]
  <2> SUFFICES ASSUME NEW i \in 1..(k - 1) PROVE u.via[i] \in Objects /\ s[i + 1] = u.via[i]
    OBVIOUS
  <2>1. i \in 1..Len(u.via) /\ i + 1 \in 1..k /\ i + 1 # 1 /\ i + 1 - 1 = i
    BY <1>1
  <2> QED BY <1>1, <1>2, <2>1, LenProperties
<1> HIDE DEF s
<1>4. \A i \in 1..k : s[i] \in Objects
  <2> SUFFICES ASSUME NEW i \in 1..k PROVE s[i] \in Objects
    OBVIOUS
  <2>1. CASE i = 1
    BY <1>2, <2>1
  <2>2. CASE i # 1
    <3>1. i - 1 \in 1..(k - 1) /\ i - 1 + 1 = i
      BY <1>1, <2>2
    <3> QED BY <1>3, <3>1
  <2> QED BY <2>1, <2>2
<1>5. \A i \in 1..k : MapOf(s[i]) = u.guards[i]
  BY <1>1, <1>2 DEF Matches
<1>6. \A i \in 1..(k - 1) : PrototypeOf(s[i]) = s[i + 1]
  <2> SUFFICES ASSUME NEW i \in 1..(k - 1) PROVE PrototypeOf(s[i]) = s[i + 1]
    OBVIOUS
  <2>1. i \in 1..k
    BY <1>1
  <2>2. MapOf(s[i]) = u.guards[i] /\ maps[u.guards[i]].prototype = u.via[i]
    BY <1>5, <2>1 DEF Guarded
  <2> QED BY <1>3, <2>2 DEF PrototypeOf, Proto
<1>7. s[k] = Reached(u, o)
  <2>1. CASE k = 1
    <3>1. u.via = <<>>
      BY <1>1, <2>1, EmptySeq
    <3> QED BY <1>2, <2>1, <3>1 DEF Reached
  <2>2. CASE k # 1
    <3>1. u.via # <<>> /\ k \in 1..k
      BY <1>1, <2>2, EmptySeq
    <3>2. s[k] = u.via[k - 1]
      BY <1>2, <2>2, <3>1
    <3> QED BY <1>1, <3>1, <3>2 DEF Reached
  <2> QED BY <2>1, <2>2
<1>8. s[1] = o
  BY <1>1, <1>2
<1> QED BY <1>1, <1>4, <1>5, <1>6, <1>7, <1>8 DEF Linked, s

\* Such a unit reads what the lookup finds.
LEMMA LoadUnitSound ==
  ASSUME HeapInv, NEW n, NEW u, LoadUnitOK(u, n), NEW o \in Objects, Matches(u, o)
  PROVE  /\ Holder(o, n) = Reached(u, o)
         /\ Entry(MapOf(Holder(o, n)), n).attributes.type = "data"
         /\ Entry(MapOf(Holder(o, n)), n).offset = u.offset
<1> DEFINE s == Visited(u, o)
<1>1. PICK k \in Nat :
        /\ Guarded(u, k)
        /\ \A i \in 1..(k - 1) : n \notin DOMAIN maps[u.guards[i]].table
        /\ n \in DOMAIN maps[u.guards[k]].table
        /\ maps[u.guards[k]].table[n].attributes.type = "data"
        /\ maps[u.guards[k]].table[n].offset = u.offset
  BY DEF LoadUnitOK
<1>2. /\ Linked(s, k) /\ s[1] = o /\ s[k] = Reached(u, o)
      /\ \A i \in 1..k : MapOf(s[i]) = u.guards[i]
  BY <1>1, GuardsLink
<1> HIDE DEF s
<1>3. k \in 1..k /\ \A i \in 1..(k - 1) : i \in 1..k
  BY <1>1 DEF Guarded
<1>4. \A i \in 1..(k - 1) : ~HasOwn(s[i], n)
  BY <1>1, <1>2, <1>3 DEF HasOwn, Has
<1>5. HasOwn(s[k], n) /\ s[k] \in Objects
  BY <1>1, <1>2, <1>3 DEF HasOwn, Has, Linked
<1>6. Holder(o, n) = Holder(s[k], n)
  BY <1>2, <1>3, <1>4, LookupPasses
<1>7. Holder(s[k], n) = s[k]
  BY <1>5, HolderSearch DEF Chain
<1> QED BY <1>1, <1>2, <1>3, <1>6, <1>7 DEF Entry

\* A fixed map is the same for ever, except for its transitions.
LEMMA FixedStays ==
  ASSUME AllStable, NEW m \in LiveMaps, Fixed(maps[m])
  PROVE  \A f \in MapFields \ {"transitions"} : maps'[m][f] = maps[m][f]
BY DEF AllStable, Lasting, Stable, Fixed

\* Maps that are stable stay guarded: the guards of a unit are never undone.
LEMMA GuardedStays ==
  ASSUME AllStable, NEW u, NEW k, Guarded(u, k)
  PROVE  /\ Guarded(u, k)'
         /\ \A i \in 1..(k - 1) : maps'[u.guards[i]].table = maps[u.guards[i]].table
<1>1. k \in Nat /\ \A i \in 1..(k - 1) : i \in 1..k
  BY DEF Guarded
<1>2. \A i \in 1..k : u.guards[i] \in LiveMaps'
  BY DEF Guarded, AllStable
<1>3. ASSUME NEW i \in 1..(k - 1)
      PROVE  \A f \in MapFields \ {"transitions"} : maps'[u.guards[i]][f] = maps[u.guards[i]][f]
  BY <1>1, FixedStays DEF Guarded
<1>4. \A i \in 1..(k - 1) :
        /\ maps'[u.guards[i]].unique = maps[u.guards[i]].unique
        /\ maps'[u.guards[i]].flattened = maps[u.guards[i]].flattened
        /\ maps'[u.guards[i]].prototype = maps[u.guards[i]].prototype
        /\ maps'[u.guards[i]].table = maps[u.guards[i]].table
  BY <1>3 DEF MapFields
<1> QED BY <1>2, <1>4 DEF Guarded, Fixed

\* What a load unit says of its guards stays true.
LEMMA LoadUnitStays ==
  ASSUME AllStable, NEW u, NEW n, LoadUnitOK(u, n)
  PROVE  LoadUnitOK(u, n)'
<1>1. PICK k \in Nat :
        /\ Guarded(u, k)
        /\ \A i \in 1..(k - 1) : n \notin DOMAIN maps[u.guards[i]].table
        /\ n \in DOMAIN maps[u.guards[k]].table
        /\ maps[u.guards[k]].table[n].attributes.type = "data"
        /\ maps[u.guards[k]].table[n].offset = u.offset
  BY DEF LoadUnitOK
<1>2. Guarded(u, k)' /\ \A i \in 1..(k - 1) : maps'[u.guards[i]].table = maps[u.guards[i]].table
  BY <1>1, GuardedStays
<1>3. u.guards[k] \in LiveMaps
  BY <1>1 DEF Guarded
<1>4. /\ n \in DOMAIN maps'[u.guards[k]].table
      /\ maps'[u.guards[k]].table[n] = maps[u.guards[k]].table[n]
  BY <1>1, <1>3 DEF AllStable, Lasting, Stable
<1> QED BY <1>1, <1>2, <1>4 DEF LoadUnitOK

-----------------------------------------------------------------------------
(* Units as they are generated                                             *)

\* A path is a chain of prototypes from its object to the set.
LEMMA PathLinked ==
  ASSUME HeapInv, NEW o \in Objects, NEW p, NEW T, IsPath(p, o, T)
  PROVE  /\ Linked(p, Len(p)) /\ p \in Seq(Objects)
         /\ Len(p) = 0 => o \in T
         /\ Len(p) > 0 => p[1] = o /\ PrototypeOf(p[Len(p)]) \in T
<1>1. p \in Seq(Objects) /\ Len(p) \in Nat
  BY LenProperties DEF IsPath
<1>2. \A i \in 1..Len(p) : p[i] \in Objects
  BY <1>1, LenProperties
<1>3. ASSUME NEW i \in 1..(Len(p) - 1) PROVE PrototypeOf(p[i]) = p[i + 1]
  <2>1. i + 1 \in 1..Len(p) /\ i + 1 # 1 /\ i + 1 - 1 = i
    BY <1>1
  <2> QED BY <2>1 DEF IsPath
<1>4. Len(p) = 0 => o \in T
  BY DEF IsPath
<1>5. Len(p) > 0 => p[1] = o /\ PrototypeOf(p[Len(p)]) \in T
  BY <1>1 DEF IsPath
<1> QED BY <1>1, <1>2, <1>3, <1>4, <1>5 DEF Linked

\* On the way from o to the holder of n no object has n, and with the holder
\* the objects are linked.
LEMMA LookupPath ==
  ASSUME HeapInv, Acyclic, NEW o \in Objects, NEW n, NEW h, h = Holder(o, n), h # NoObject,
         NEW p, p = Path(o, h)
  PROVE  /\ h \in Objects /\ HasOwn(h, n)
         /\ p \in Seq(Objects) /\ \A i \in 1..Len(p) : ~HasOwn(p[i], n)
         /\ Linked(Append(p, h), Len(p) + 1)
<1>1. h \in Objects /\ HasOwn(h, n) /\ o \in Chain /\ o # NoObject
  BY HolderHas, HeapAssumption DEF Chain
<1> DEFINE T == {h, NoObject}
<1>2. IsPath(p, o, T)
  BY <1>1, PathIsPath
<1>3. /\ Linked(p, Len(p)) /\ p \in Seq(Objects)
      /\ Len(p) = 0 => o \in T
      /\ Len(p) > 0 => p[1] = o /\ PrototypeOf(p[Len(p)]) \in T
  <2> HIDE DEF T
  <2> QED BY <1>2, PathLinked
<1>4. Len(p) \in Nat /\ \A i \in 1..Len(p) : p[i] \in Objects /\ p[i] \in Chain /\ p[i] # h
  BY <1>2, <1>3, LenProperties DEF IsPath, Chain, Linked
<1>5. \A i \in 1..Len(p) : ~HasOwn(p[i], n)
  <2> SUFFICES ASSUME NEW i \in 1..Len(p), HasOwn(p[i], n),
                      \A j \in 1..(i - 1) : ~HasOwn(p[j], n)
               PROVE  FALSE
    BY <1>4, FirstOwner
  <2>1. Holder(p[1], n) = Holder(p[i], n)
    BY <1>3, LookupPasses
  <2>2. Holder(p[i], n) = p[i] /\ p[1] = o
    BY <1>3, <1>4, HolderSearch
  <2> QED BY <1>4, <2>1, <2>2
<1>6. Len(p) > 0 => PrototypeOf(p[Len(p)]) = h
  <2> SUFFICES ASSUME Len(p) > 0 PROVE PrototypeOf(p[Len(p)]) = h
    OBVIOUS
  <2>1. Len(p) \in 1..Len(p) /\ \A j \in 1..(Len(p) - 1) : ~HasOwn(p[j], n)
    BY <1>4, <1>5
  <2>2. Holder(p[1], n) = Holder(p[Len(p)], n)
    BY <1>3, <2>1, LookupPasses
  <2>3. Holder(p[Len(p)], n) = Holder(PrototypeOf(p[Len(p)]), n)
    BY <1>4, <1>5, <2>1, HolderSearch, HeapAssumption
  <2>4. Holder(NoObject, n) = NoObject
    BY HolderSearch DEF Chain
  <2> QED BY <1>3, <2>2, <2>3, <2>4
<1>7. /\ \A i \in 1..Len(p) : Append(p, h)[i] = p[i]
      /\ Append(p, h)[Len(p) + 1] = h
  BY <1>1, <1>3, AppendProperties
<1>8. \A i \in 1..(Len(p) + 1) : Append(p, h)[i] \in Objects
  <2> SUFFICES ASSUME NEW i \in 1..(Len(p) + 1) PROVE Append(p, h)[i] \in Objects
    OBVIOUS
  <2>1. i \in 1..Len(p) \/ i = Len(p) + 1
    BY <1>4
  <2> QED BY <1>1, <1>4, <1>7, <2>1
<1>9. ASSUME NEW i \in 1..Len(p) PROVE PrototypeOf(Append(p, h)[i]) = Append(p, h)[i + 1]
  <2>1. CASE i = Len(p)
    <3>1. Len(p) > 0
      BY <1>4
    <3> QED BY <1>6, <1>7, <2>1, <3>1
  <2>2. CASE i # Len(p)
    <3>1. i \in 1..(Len(p) - 1) /\ i + 1 \in 1..Len(p)
      BY <1>4, <2>2
    <3> QED BY <1>3, <1>7, <3>1 DEF Linked
  <2> QED BY <2>1, <2>2
<1>10. Len(p) + 1 \in Nat /\ Len(p) + 1 - 1 = Len(p)
  BY <1>4
<1> QED BY <1>1, <1>3, <1>5, <1>8, <1>9, <1>10 DEF Linked

\* Map::Flatten changes the flag alone, and fixes the map.
LEMMA FlattenedFixes ==
  ASSUME NEW h, Typed(h), NEW ms, NEW m \in Ids(h)
  PROVE  /\ \A f \in MapFields \ {"flattened"} : Flattened(h, ms)[m][f] = h[m][f]
         /\ m \in ms => Fixed(Flattened(h, ms)[m])
<1>1. m \in DOMAIN h /\ DOMAIN h[m] = MapFields
  BY SequenceIsHeap DEF Typed, Heap, IsMap
<1>2. Flattened(h, ms)[m] = IF m \in ms /\ h[m].unique /\ ~h[m].flattened
                            THEN [h[m] EXCEPT !.flattened = TRUE] ELSE h[m]
  BY <1>1 DEF Flattened
<1> QED BY <1>1, <1>2 DEF Fixed, MapFields

\* A map that can gain nothing but transitions after the step, and keeps its
\* prototype in it.
KeptLink(m) == Fixed(maps'[m]) /\ maps'[m].prototype = maps[m].prototype

\* A unit made of the maps of linked objects guards them, if these are the
\* maps' prototypes after the step and the maps are flattened by then.
LEMMA UnitGuarded ==
  ASSUME HeapInv, AllStable, NEW s \in Seq(Objects), Len(s) # 0, Linked(s, Len(s)), NEW u,
         u.guards = MapsOf(s), u.via = Tail(s),
         \A i \in 1..(Len(s) - 1) : KeptLink(MapOf(s[i]))
  PROVE  Guarded(u, Len(s))' /\ \A i \in 1..Len(s) : u.guards[i] = MapOf(s[i])
<1>0. PICK k : k = Len(s)
  OBVIOUS
<1>1. k \in Nat \ {0} /\ DOMAIN s = 1..k /\ \A i \in 1..k : s[i] \in Objects
  BY <1>0, LenProperties DEF Linked
<1>2. s # <<>>
  BY <1>0, <1>1, EmptySeq
<1>3. u.via \in Seq(Objects) /\ Len(u.via) = k - 1
      /\ \A i \in 1..(k - 1) : u.via[i] = s[i + 1]
  BY <1>0, <1>2, HeadTailProperties
<1>4. DOMAIN u.guards = 1..k /\ \A i \in 1..k : u.guards[i] = MapOf(s[i])
  BY <1>1 DEF MapsOf
<1>5. \A i \in 1..k : u.guards[i] \in LiveMaps'
  BY <1>1, <1>4, MapAtIsMap DEF AllStable
<1>6. ASSUME NEW i \in 1..(k - 1)
      PROVE  Fixed(maps'[u.guards[i]]) /\ maps'[u.guards[i]].prototype = u.via[i]
  <2>1. i \in 1..k
    BY <1>1
  <2> QED BY <1>0, <1>3, <1>4, <2>1 DEF Linked, PrototypeOf, Proto, KeptLink
<1>7. Guarded(u, k)'
  BY <1>1, <1>3, <1>4, <1>5, <1>6 DEF Guarded, Fixed
<1> QED BY <1>0, <1>4, <1>7

\* The unit that a load generates.
LEMMA LoadMakesUnit ==
  ASSUME HeapInv, Acyclic, NEW o \in Objects, NEW n, NEW h, h = Holder(o, n), h # NoObject,
         Entry(MapOf(h), n).attributes.type = "data",
         NEW p, p = Path(o, h), NEW u, u = LoadUnit(p, h, n),
         maps' = ChainFlattened(maps, p), objs' = objs
  PROVE  HeapInv' /\ AllStable /\ LoadUnitOK(u, n)'
<1> DEFINE ms == {MapOf(p[i]) : i \in DOMAIN p}
           s == Append(p, h)
           k == Len(p) + 1
<1>1. /\ h \in Objects /\ HasOwn(h, n)
      /\ p \in Seq(Objects) /\ \A i \in 1..Len(p) : ~HasOwn(p[i], n)
      /\ Linked(s, k)
  BY LookupPath
<1>2. HeapOK /\ IInv /\ Exact(maps) /\ \A x \in Objects : MapOf(x) \in LiveMaps
  BY InvariantGivesHeap DEF HeapInv
<1>3. Flattening(ms) /\ maps' = Flattened(maps, ms)
  BY DEF Flattening, ChainFlattened
<1>4. Len(p) \in Nat /\ DOMAIN p = 1..Len(p) /\ \A i \in 1..Len(p) : p[i] \in Objects
  BY <1>1, LenProperties
<1>5. /\ s \in Seq(Objects) /\ k = Len(s) /\ k # 0
      /\ \A i \in 1..Len(p) : s[i] = p[i]
      /\ s[k] = h
  BY <1>1, <1>4, AppendProperties
<1>6. \A i \in 1..Len(p) : MapOf(s[i]) \in ms /\ MapOf(s[i]) \in LiveMaps
  BY <1>2, <1>4, <1>5
<1>7. u.guards = MapsOf(s) /\ u.via = Tail(s) /\ u.offset = Entry(MapOf(h), n).offset
  BY DEF LoadUnit
<1> HIDE DEF ms, s
<1>8. IInv' /\ AllStable
  BY <1>2, <1>3, FlattenKeeps
<1>9. Exact(maps')
  BY <1>2, <1>3, FlattenedExact DEF HeapOK
<1>10. ASSUME NEW m \in LiveMaps
       PROVE  /\ \A f \in MapFields \ {"flattened"} : maps'[m][f] = maps[m][f]
              /\ m \in ms => Fixed(maps'[m])
  BY <1>2, <1>3, FlattenedFixes DEF HeapOK, Ids, LiveMaps
<1>11. \A i \in 1..(k - 1) :
         /\ Fixed(maps'[MapOf(s[i])])
         /\ maps'[MapOf(s[i])].prototype = maps[MapOf(s[i])].prototype
         /\ maps'[MapOf(s[i])].table = maps[MapOf(s[i])].table
  BY <1>4, <1>6, <1>10 DEF MapFields
<1>12. Guarded(u, k)' /\ \A i \in 1..k : u.guards[i] = MapOf(s[i])
  <2>1. \A i \in 1..(Len(s) - 1) : KeptLink(MapOf(s[i]))
    BY <1>5, <1>11 DEF KeptLink
  <2>2. Len(s) # 0 /\ Linked(s, Len(s)) /\ s \in Seq(Objects)
    BY <1>1, <1>5
  <2>3. PICK q : q = s
    BY DEF s
  <2>4. Guarded(u, Len(q))' /\ \A i \in 1..Len(q) : u.guards[i] = MapOf(q[i])
    BY <1>7, <1>8, <2>1, <2>2, <2>3, UnitGuarded
  <2> QED BY <1>5, <2>3, <2>4
<1>13. \A i \in 1..(k - 1) : n \notin DOMAIN maps'[u.guards[i]].table
  BY <1>1, <1>4, <1>5, <1>11, <1>12 DEF HasOwn, Has
<1>14. u.guards[k] = MapOf(h) /\ maps'[MapOf(h)].table = maps[MapOf(h)].table
  BY <1>1, <1>2, <1>4, <1>5, <1>10, <1>12 DEF MapFields
<1>15. /\ n \in DOMAIN maps'[u.guards[k]].table
       /\ maps'[u.guards[k]].table[n].attributes.type = "data"
       /\ maps'[u.guards[k]].table[n].offset = u.offset
  BY <1>1, <1>7, <1>14 DEF HasOwn, Has, Entry
<1>16. k \in Nat
  BY <1>4
<1> HIDE DEF k
<1>17. LoadUnitOK(u, n)'
  BY <1>12, <1>13, <1>15, <1>16 DEF LoadUnitOK
<1> QED BY <1>8, <1>9, <1>17 DEF HeapInv

-----------------------------------------------------------------------------
(* Objects that are not extensible                                         *)

\* Only JSObject::ChangeExtensible closes an object, and it gives it a map of
\* its own; from then on it has a unique one.
Opened == \A o \in Objects : objs[o].extensible \/ MapAt(o).unique

\* A step of one object keeps every shared map for extensible objects only.
LEMMA OthersOpened ==
  ASSUME HeapInv, Opened, AllStable, NEW o \in Objects, Others(o),
         objs'[o].extensible \/ MapAt(o)'.unique
  PROVE  Opened'
<1>1. ASSUME NEW x \in Objects, x # o PROVE objs'[x].extensible \/ MapAt(x)'.unique
  <2>1. objs'[x] = objs[x] /\ MapOf(x) \in LiveMaps
    BY <1>1, MapAtIsMap DEF Others, Untouched
  <2>2. maps'[MapOf(x)].unique = maps[MapOf(x)].unique
    BY <2>1 DEF AllStable, Lasting, Stable
  <2>3. MapAt(x)' = maps'[MapOf(x)]
    BY <2>1 DEF MapAt, MapOf
  <2> QED BY <2>1, <2>2, <2>3 DEF Opened, MapAt
<1> QED BY <1>1 DEF Opened

\* The map that a transition makes for one object is unique.
LEMMA TransitionUnique ==
  ASSUME HeapInv, NEW o \in Objects, NEW n, NEW a
  PROVE  LET Alone(moved) == moved.maps[moved.map].unique
             m == MapOf(o)
         IN /\ Alone(ChangeAttributesTransition(m, n, a))
            /\ Alone(DeletePropertyTransition(m, n))
            /\ Alone(ChangeIndexedTransition(m))
            /\ Alone(ChangeExtensibleTransition(m))
<1> DEFINE m == MapOf(o)
<1>1. Heap(maps) /\ m \in LiveMaps /\ DOMAIN maps[m] = MapFields /\ Len(maps) \in Nat
      /\ m \in DOMAIN maps
  BY InvariantGivesHeap, MapAtIsMap, SequenceIsHeap
     DEF HeapInv, HeapOK, Typed, Heap, Ids, LiveMaps, IsMap, MapAt
<1>2. \A r : Appended(r).maps[Appended(r).map] = r
  BY <1>1, AppendHeap DEF Appended, Moved
<1>3. \A r : Uniquely(m, r).maps[Uniquely(m, r).map] = r
  BY <1>1, <1>2 DEF Uniquely, Moved
<1>4. DOMAIN Derived(maps[m], TRUE) = MapFields /\ Derived(maps[m], TRUE).unique = TRUE
  BY <1>1 DEF Derived, MapFields
<1> DEFINE d == Derived(maps[m], TRUE)
<1>5. /\ [d EXCEPT !.table[n].attributes = a].unique = TRUE
      /\ Shrink(d, n).unique = TRUE
      /\ [d EXCEPT !.indexed = TRUE].unique = TRUE
  BY <1>4 DEF Shrink, MapFields
<1>6. /\ ChangeAttributesTransition(m, n, a) = Appended([d EXCEPT !.table[n].attributes = a])
      /\ DeletePropertyTransition(m, n) = Appended(Shrink(d, n))
      /\ ChangeIndexedTransition(m) = Uniquely(m, [d EXCEPT !.indexed = TRUE])
      /\ ChangeExtensibleTransition(m) = Appended(d)
  BY DEF ChangeAttributesTransition, DeletePropertyTransition, ChangeIndexedTransition,
         ChangeExtensibleTransition
<1> HIDE DEF d
<1>7. d.unique = TRUE
  BY <1>4 DEF d
<1> QED BY <1>2, <1>3, <1>5, <1>6, <1>7

\* Every step of the heap keeps shared maps for extensible objects only.
LEMMA StepOpened ==
  ASSUME HeapInv, Opened, [Next]_hvars
  PROVE  Opened'
<1>1. IInv /\ AllStable
  BY StepKeeps DEF HeapInv
<1>2. CASE UNCHANGED hvars
  BY <1>2 DEF hvars, Opened, MapAt, MapOf
<1>3. ASSUME NEW o \in Objects, NEW n \in Names, NEW d \in Descriptors,
             DefineOwnProperty(o, n, d)
      PROVE  Opened'
  <2>1. CASE DefineFound(o, n, d)
    <3>1. Others(o) /\ objs'[o].extensible = objs[o].extensible
      BY <2>1, DefineFoundEffect
    <3>2. \/ maps' = maps /\ objs'[o].map = MapOf(o)
          \/ \E a : LET moved == ChangeAttributesTransition(MapOf(o), n, a)
                    IN maps' = moved.maps /\ objs'[o].map = moved.map
      <4>1. DOMAIN objs = Objects /\ DOMAIN objs[o] = {"map", "slots", "extensible"}
        BY <1>1 DEF IInv, TypeOK
      <4> QED BY <2>1, <4>1 DEF DefineFound, Become, Redefined, Moved
    <3>3. MapAt(o)' = MapAt(o) \/ MapAt(o)'.unique
      BY <3>2, TransitionUnique DEF MapAt, MapOf
    <3> QED BY <1>1, <3>1, <3>3, OthersOpened DEF Opened
  <2>2. CASE DefineNotFound(o, n, d)
    BY <1>1, <2>2, DefineNotFoundEffect, OthersOpened DEF AddedTo
  <2> QED BY <1>3, <2>1, <2>2 DEF DefineOwnProperty
<1>4. ASSUME NEW o \in Objects, NEW n \in Names, NamedStep(o, n)
      PROVE  Opened'
  <2>1. CASE Get(o, n)
    BY <1>2, <2>1 DEF Get
  <2>2. ASSUME NEW d \in Inputs, DefineOwnProperty(o, n, d)
        PROVE  Opened'
    BY <1>3, <2>2, HeapAssumption
  <2>3. ASSUME NEW v \in PutValues, Put(o, n, v)
        PROVE  Opened'
    BY <1>3, <2>3, HeapAssumption, PutIsDefine
  <2>4. CASE Delete(o, n)
    <3>1. Others(o)
      BY <2>4, DeleteEffect
    <3>2. DOMAIN objs = Objects /\ DOMAIN objs[o] = {"map", "slots", "extensible"}
      BY <1>1 DEF IInv, TypeOK
    <3>3. MapAt(o)'.unique
      BY <2>4, <3>2, TransitionUnique DEF Delete, Become, MapAt, MapOf
    <3> QED BY <1>1, <3>1, <3>3, OthersOpened
  <2> QED BY <1>4, <2>1, <2>2, <2>3, <2>4 DEF NamedStep
<1>5. ASSUME NEW o \in Objects, ObjectStep(o)
      PROVE  Opened'
  <2>1. DOMAIN objs = Objects /\ DOMAIN objs[o] = {"map", "slots", "extensible"}
    BY <1>1 DEF IInv, TypeOK
  <2>2. ASSUME NEW p \in Prototypes, ChangePrototype(o, p)
        PROVE  Opened'
    BY <1>1, <2>2, ChangePrototypeEffect, OthersOpened
  <2>3. CASE BecomeIndexed(o)
    <3>1. MapAt(o)'.unique
      BY <2>1, <2>3, TransitionUnique DEF BecomeIndexed, Become, MapAt, MapOf
    <3> QED BY <1>1, <2>3, <3>1, BecomeIndexedEffect, OthersOpened
  <2>4. CASE PreventExtensions(o)
    <3>1. MapAt(o)'.unique
      BY <2>1, <2>4, TransitionUnique DEF PreventExtensions, MapAt, MapOf
    <3> QED BY <1>1, <2>4, <3>1, PreventExtensionsEffect, OthersOpened
  <2>5. CASE FlattenMap(o)
    <3>1. \A x \in Objects : Untouched(x)
      BY <2>5, FlattenEffect DEF FlattenMap, Flattening
    <3>2. objs' = objs /\ MapOf(o) \in LiveMaps
      BY <2>5, MapAtIsMap DEF FlattenMap
    <3>3. MapAt(o)'.unique = MapAt(o).unique
      BY <1>1, <3>2 DEF AllStable, Lasting, Stable, MapAt, MapOf
    <3> QED BY <1>1, <3>1, <3>2, <3>3, OthersOpened DEF Others, Opened
  <2> QED BY <1>5, <2>2, <2>3, <2>4, <2>5 DEF ObjectStep
<1> QED BY <1>2, <1>4, <1>5 DEF Next

-----------------------------------------------------------------------------
(* Store units                                                             *)

\* What obj.name = v gives a new property.
DefaultAttributes == [type |-> "data", writable |-> TRUE, enumerable |-> TRUE,
                      configurable |-> TRUE]

\* The property a [[Put]] adds is a data property with all attributes.
LEMMA DefaultSlot ==
  ASSUME NEW v \in Values
  PROVE  /\ NewSlot(DefaultData(v)).attributes = DefaultAttributes
         /\ NewSlot(DefaultData(v)).value = v
         /\ DefaultData(v) \in Descriptors
<1>1. v # Absent
  BY DescriptorAssumption
<1>2. DefaultData(v) \in Descriptors
  BY DescriptorAssumption DEF DefaultData, Descriptors, DataDescriptors, Flag
<1> QED BY <1>1, <1>2, DescriptorAssumption DEF NewSlot, DefaultData, Or, DefaultAttributes

Writable(a) == a.type = "data" /\ a.writable

\* A unit that replaces the value of an own property.
ReplaceUnit(u, n) ==
  /\ Guarded(u, 1)
  /\ u.guards[1] = u.map /\ ~u.grow
  /\ n \in DOMAIN maps[u.map].table
  /\ Writable(maps[u.map].table[n].attributes)
  /\ u.offset = maps[u.map].table[n].offset

\* A unit that adds a property: the whole chain is fixed, the first object that
\* has the name has it writable, and the object's own map, which is shared, has
\* the transition that the unit takes.
NewUnit(u, n) ==
  \E k \in Nat :
    /\ Guarded(u, k)
    /\ Fixed(maps[u.guards[k]]) /\ maps[u.guards[k]].prototype = NoObject
    /\ \A i \in 1..k :
         n \in DOMAIN maps[u.guards[i]].table
         => \/ \E j \in 1..(i - 1) : n \in DOMAIN maps[u.guards[j]].table
            \/ Writable(maps[u.guards[i]].table[n].attributes)
    /\ LET from == maps[u.guards[1]]
           to   == maps[u.map]
           key  == <<n, DefaultAttributes>>
       IN /\ ~from.unique /\ n \notin DOMAIN from.table
          /\ key \in DOMAIN from.transitions /\ from.transitions[key] = u.map
          /\ u.offset = to.table[n].offset
          /\ u.grow <=> StorageCapacity(from) # StorageCapacity(to)

StoreUnitOK(u, n) == ReplaceUnit(u, n) \/ NewUnit(u, n)

\* The map a transition leads to is shared and has the property.
LEMMA TransitionAdds ==
  ASSUME HeapInv, NEW m \in LiveMaps, NEW n, NEW a, <<n, a>> \in DOMAIN maps[m].transitions
  PROVE  LET t == maps[m].transitions[<<n, a>>]
         IN /\ t \in LiveMaps /\ ~maps[t].unique
            /\ n \in DOMAIN maps[t].table /\ IsMap(maps[t], LiveMaps) /\ Placed(maps[t])
<1>1. /\ HeapOK /\ Exact(maps)
  BY InvariantGivesHeap DEF HeapInv
<1>2. maps[m].transitions[<<n, a>>] \in LiveMaps
  BY <1>1 DEF HeapOK, Typed, IsMap, Ids, LiveMaps
<1>3. AddsOne(maps[m], <<n, a>>, maps[maps[m].transitions[<<n, a>>]])
  BY <1>1 DEF Exact, TransitionsExact, Ids, LiveMaps
<1> QED BY <1>1, <1>2, <1>3 DEF AddsOne, HeapOK, Typed, Exact, Ids, LiveMaps

\* What a store unit says of its guards stays true.
LEMMA StoreUnitStays ==
  ASSUME HeapInv, AllStable, NEW u, NEW n, StoreUnitOK(u, n)
  PROVE  StoreUnitOK(u, n)'
<1>1. CASE ReplaceUnit(u, n)
  <2>1. Guarded(u, 1) /\ u.guards[1] = u.map
    BY <1>1 DEF ReplaceUnit
  <2>2. Guarded(u, 1)' /\ u.map \in LiveMaps
    <3>1. u.map \in LiveMaps
      BY <2>1 DEF Guarded
    <3>2. Guarded(u, 1)'
      BY <2>1, GuardedStays
    <3> QED BY <3>1, <3>2
  <2>3. n \in DOMAIN maps'[u.map].table /\ maps'[u.map].table[n] = maps[u.map].table[n]
    BY <1>1, <2>2 DEF AllStable, Lasting, Stable, ReplaceUnit
  <2> QED BY <1>1, <2>2, <2>3 DEF StoreUnitOK, ReplaceUnit
<1>2. CASE NewUnit(u, n)
  <2> DEFINE key == <<n, DefaultAttributes>>
  <2>1. PICK k \in Nat :
          /\ Guarded(u, k)
          /\ Fixed(maps[u.guards[k]]) /\ maps[u.guards[k]].prototype = NoObject
          /\ \A i \in 1..k :
               n \in DOMAIN maps[u.guards[i]].table
               => \/ \E j \in 1..(i - 1) : n \in DOMAIN maps[u.guards[j]].table
                  \/ Writable(maps[u.guards[i]].table[n].attributes)
          /\ ~maps[u.guards[1]].unique /\ n \notin DOMAIN maps[u.guards[1]].table
          /\ key \in DOMAIN maps[u.guards[1]].transitions
          /\ maps[u.guards[1]].transitions[key] = u.map
          /\ u.offset = maps[u.map].table[n].offset
          /\ u.grow <=> StorageCapacity(maps[u.guards[1]]) # StorageCapacity(maps[u.map])
    BY <1>2 DEF NewUnit
  <2>2. /\ Guarded(u, k)'
        /\ \A i \in 1..(k - 1) : maps'[u.guards[i]].table = maps[u.guards[i]].table
    BY <2>1, GuardedStays
  <2>3. 1 \in 1..k /\ k \in 1..k /\ \A i \in 1..k : u.guards[i] \in LiveMaps
    BY <2>1 DEF Guarded
  <2>4. /\ u.map \in LiveMaps /\ ~maps[u.map].unique /\ n \in DOMAIN maps[u.map].table
    BY <2>1, <2>3, TransitionAdds
  <2>5. ASSUME NEW m \in LiveMaps, Fixed(maps[m])
        PROVE  /\ maps'[m].table = maps[m].table /\ maps'[m].deleted = maps[m].deleted
               /\ maps'[m].prototype = maps[m].prototype /\ Fixed(maps'[m])
               /\ maps'[m].unique = maps[m].unique
    <3>1. \A f \in MapFields \ {"transitions"} : maps'[m][f] = maps[m][f]
      BY <2>5, FixedStays
    <3> QED BY <2>5, <3>1 DEF Fixed, MapFields
  <2>6. /\ Fixed(maps'[u.guards[k]]) /\ maps'[u.guards[k]].prototype = NoObject
        /\ maps'[u.guards[k]].table = maps[u.guards[k]].table
    BY <2>1, <2>3, <2>5
  <2>7. \A i \in 1..k : maps'[u.guards[i]].table = maps[u.guards[i]].table
    <3> SUFFICES ASSUME NEW i \in 1..k
                 PROVE  maps'[u.guards[i]].table = maps[u.guards[i]].table
      OBVIOUS
    <3>1. i \in 1..(k - 1) \/ i = k
      BY <2>1
    <3> QED BY <2>2, <2>6, <3>1
  <2>8. \A i \in 1..k : \A j \in 1..(i - 1) : j \in 1..k
    BY <2>1
  <2>9. \A i \in 1..k :
          n \in DOMAIN maps'[u.guards[i]].table
          => \/ \E j \in 1..(i - 1) : n \in DOMAIN maps'[u.guards[j]].table
             \/ Writable(maps'[u.guards[i]].table[n].attributes)
    BY <2>1, <2>7, <2>8
  <2>10. /\ maps'[u.guards[1]].unique = maps[u.guards[1]].unique
         /\ maps'[u.guards[1]].table = maps[u.guards[1]].table
         /\ maps'[u.guards[1]].deleted = maps[u.guards[1]].deleted
         /\ maps'[u.map].table = maps[u.map].table
         /\ maps'[u.map].deleted = maps[u.map].deleted
    BY <2>1, <2>3, <2>4, <2>5 DEF Fixed
  <2>11. key \in DOMAIN maps'[u.guards[1]].transitions
         /\ maps'[u.guards[1]].transitions[key] = u.map
    BY <2>1, <2>3 DEF AllStable, Lasting
  <2>12. /\ StorageCapacity(maps'[u.guards[1]]) = StorageCapacity(maps[u.guards[1]])
         /\ StorageCapacity(maps'[u.map]) = StorageCapacity(maps[u.map])
    BY <2>10 DEF StorageCapacity, GetSlotsSize
  <2>13. NewUnit(u, n)'
    BY <2>1, <2>2, <2>6, <2>9, <2>10, <2>11, <2>12 DEF NewUnit, StorageCapacity, GetSlotsSize
  <2> QED BY <2>13 DEF StoreUnitOK
<1> QED BY <1>1, <1>2 DEF StoreUnitOK

\* What a unit that replaces a value does is what the put does.
LEMMA ReplaceUnitSound ==
  ASSUME SlotInv, NEW n, NEW u, ReplaceUnit(u, n), NEW o \in Objects, Matches(u, o)
  PROVE  /\ HasOwn(o, n) /\ Holder(o, n) = o /\ CanPutData(o, n)
         /\ u.map = MapOf(o) /\ u.offset = Entry(MapOf(o), n).offset
         /\ u.offset \in DOMAIN Slots(o)
         /\ \A v : Stored(u, o, v) = [Slots(o) EXCEPT ![u.offset] = v]
<1>1. /\ 1 \in DOMAIN u.guards /\ u.guards[1] = u.map /\ ~u.grow
      /\ n \in DOMAIN maps[u.map].table /\ Writable(maps[u.map].table[n].attributes)
      /\ u.offset = maps[u.map].table[n].offset
  BY DEF ReplaceUnit, Guarded
<1>2. MapOf(o) = u.map
  BY <1>1 DEF Matches
<1>3. HasOwn(o, n) /\ o # NoObject
  BY <1>1, <1>2, HeapAssumption DEF HasOwn, Has
<1>4. Holder(o, n) = o
  BY <1>3, HolderSearch DEF SlotInv, Chain
<1>5. CanPutData(o, n)
  BY <1>1, <1>2, <1>3, <1>4 DEF CanPutData, OwnSlot, Entry, Writable
<1>6. u.offset \in DOMAIN Slots(o)
  BY <1>1, <1>2, SlotFacts, OffsetInStorage DEF MapAt
<1>7. \A v : Stored(u, o, v) = [Slots(o) EXCEPT ![u.offset] = v]
  BY <1>1 DEF Stored
<1> QED BY <1>1, <1>2, <1>3, <1>4, <1>5, <1>6, <1>7 DEF Entry

\* A storage with room for every slot of from has room for those of to, when
\* both ask for one capacity; otherwise the unit resizes it.
LEMMA GrownStorage ==
  ASSUME NEW from, NEW ids, IsMap(from, ids), NEW to, NEW jds, IsMap(to, jds),
         NEW slots, Fits(from, slots), NEW grow \in BOOLEAN,
         grow <=> StorageCapacity(from) # StorageCapacity(to)
  PROVE  (IF grow THEN Resized(slots, GetSlotsSize(to)) ELSE slots)
           = Resized(slots, GetSlotsSize(to))
<1> DEFINE size == GetSlotsSize(to)
<1>1. size \in Nat /\ GetSlotsSize(from) \in Nat
  BY SlotsSizeNat
<1>2. PICK c \in Nat : IsStorage(slots, c) /\ GetSlotsSize(from) <= c
  BY DEF Fits
<1>3. Cardinality(DOMAIN slots) = c /\ Roomy(c)
  BY <1>2, StorageSize DEF IsStorage
<1>4. ASSUME ~grow PROVE size <= c
  <2>1. NextCapacity(size) = NextCapacity(GetSlotsSize(from))
    BY <1>4 DEF StorageCapacity
  <2>2. NextCapacity(GetSlotsSize(from)) <= c
    BY <1>1, <1>2, <1>3 DEF Roomy
  <2>3. NextCapacity(size) \in Nat /\ NextCapacity(size) >= size
    BY <1>1, NextCapacityIsEnough
  <2> QED BY <1>1, <1>2, <2>1, <2>2, <2>3
<1> HIDE DEF size
<1>5. ~grow => Resized(slots, size) = slots
  BY <1>3, <1>4 DEF Resized
<1> QED BY <1>5 DEF size

\* What a unit that adds a property does is what the put does.
LEMMA NewUnitSound ==
  ASSUME SlotInv, Opened, NEW n, NEW u, NewUnit(u, n), u.grow \in BOOLEAN,
         NEW o \in Objects, Matches(u, o)
  PROVE  /\ ~HasOwn(o, n) /\ CanPutData(o, n) /\ objs[o].extensible
         /\ AddPropertyTransition(MapOf(o), n, DefaultAttributes) = Moved(maps, u.map)
         /\ u.offset = Entry(u.map, n).offset
         /\ u.offset \in DOMAIN Resized(Slots(o), GetSlotsSize(maps[u.map]))
         /\ \A v : Stored(u, o, v) = [Resized(Slots(o), GetSlotsSize(maps[u.map]))
                                        EXCEPT ![u.offset] = v]
<1> DEFINE s == Visited(u, o)
           key == <<n, DefaultAttributes>>
<1>1. PICK k \in Nat :
        /\ Guarded(u, k)
        /\ Fixed(maps[u.guards[k]]) /\ maps[u.guards[k]].prototype = NoObject
        /\ \A i \in 1..k :
             n \in DOMAIN maps[u.guards[i]].table
             => \/ \E j \in 1..(i - 1) : n \in DOMAIN maps[u.guards[j]].table
                \/ Writable(maps[u.guards[i]].table[n].attributes)
        /\ ~maps[u.guards[1]].unique /\ n \notin DOMAIN maps[u.guards[1]].table
        /\ key \in DOMAIN maps[u.guards[1]].transitions
        /\ maps[u.guards[1]].transitions[key] = u.map
        /\ u.offset = maps[u.map].table[n].offset
        /\ u.grow <=> StorageCapacity(maps[u.guards[1]]) # StorageCapacity(maps[u.map])
  BY DEF NewUnit
<1>2. /\ Linked(s, k) /\ s[1] = o /\ \A i \in 1..k : MapOf(s[i]) = u.guards[i]
  BY <1>1, GuardsLink DEF SlotInv
<1> HIDE DEF s
<1>3. 1 \in 1..k /\ k \in 1..k /\ \A i \in 1..k : \A j \in 1..(i - 1) : j \in 1..k
  BY <1>1 DEF Guarded
<1>4. MapOf(o) = u.guards[1] /\ MapOf(o) \in LiveMaps /\ HeapInv
  BY <1>2, <1>3, MapAtIsMap DEF SlotInv
<1>5. ~HasOwn(o, n) /\ objs[o].extensible
  BY <1>1, <1>4 DEF HasOwn, Has, Opened, MapAt
<1>6. CanPutData(o, n)
  <2>1. ASSUME NEW i \in 1..k, HasOwn(s[i], n), \A j \in 1..(i - 1) : ~HasOwn(s[j], n)
        PROVE  CanPutData(o, n)
    <3>1. Holder(o, n) = s[i] /\ s[i] \in Objects /\ s[i] # NoObject
      <4>1. Holder(s[1], n) = Holder(s[i], n)
        BY <1>2, <1>4, <2>1, LookupPasses
      <4>2. s[i] \in Objects /\ s[i] # NoObject
        BY <1>2, HeapAssumption DEF Linked
      <4>3. Holder(s[i], n) = s[i]
        BY <1>4, <2>1, <4>2, HolderSearch DEF Chain
      <4> QED BY <1>2, <4>1, <4>2, <4>3
    <3>2. Writable(maps[u.guards[i]].table[n].attributes)
      BY <1>1, <1>2, <1>3, <2>1 DEF HasOwn, Has
    <3> QED BY <1>2, <3>1, <3>2 DEF CanPutData, OwnSlot, Entry, Writable
  <2>2. ASSUME \A j \in 1..k : ~HasOwn(s[j], n) PROVE CanPutData(o, n)
    <3>1. \A j \in 1..(k - 1) : ~HasOwn(s[j], n)
      BY <1>3, <2>2
    <3>2. Holder(s[1], n) = Holder(s[k], n)
      BY <1>2, <1>3, <1>4, <3>1, LookupPasses
    <3>3. s[k] \in Objects /\ s[k] # NoObject /\ ~HasOwn(s[k], n)
      BY <1>2, <1>3, <2>2, HeapAssumption DEF Linked
    <3>4. PrototypeOf(s[k]) = NoObject
      BY <1>1, <1>2, <1>3 DEF PrototypeOf, Proto
    <3>5. Holder(s[k], n) = Holder(NoObject, n) /\ Holder(NoObject, n) = NoObject
      BY <1>4, <3>3, <3>4, HolderSearch DEF Chain
    <3> QED BY <1>2, <1>5, <3>2, <3>5 DEF CanPutData
  <2> QED BY <1>1, <2>1, <2>2, FirstOwner
<1>7. /\ u.map \in LiveMaps /\ n \in DOMAIN maps[u.map].table
      /\ IsMap(maps[u.map], LiveMaps) /\ Placed(maps[u.map])
  BY <1>1, <1>4, TransitionAdds
<1>8. AddPropertyTransition(MapOf(o), n, DefaultAttributes) = Moved(maps, u.map)
  BY <1>1, <1>4 DEF AddPropertyTransition
<1> DEFINE w == Resized(Slots(o), GetSlotsSize(maps[u.map]))
<1>9. Fits(MapAt(o), Slots(o)) /\ IsMap(MapAt(o), LiveMaps) /\ MapAt(o) = maps[u.guards[1]]
  BY <1>4, SlotFacts DEF MapAt
<1>10. (IF u.grow THEN w ELSE Slots(o)) = w
  BY <1>1, <1>7, <1>9, GrownStorage
<1>11. u.offset \in DOMAIN w
  <2>1. GetSlotsSize(maps[u.map]) \in Nat /\ u.offset \in 0..(GetSlotsSize(maps[u.map]) - 1)
    BY <1>1, <1>7, SlotsSizeNat DEF Placed, Offsets
  <2>2. PICK c \in Nat : IsStorage(Slots(o), c)
    BY <1>9 DEF Fits
  <2>3. \E j \in Nat : IsStorage(w, j) /\ j >= GetSlotsSize(maps[u.map])
    BY <2>1, <2>2, ResizedKeeps
  <2> QED BY <2>1, <2>3 DEF IsStorage
<1>12. \A v : Stored(u, o, v) = [w EXCEPT ![u.offset] = v]
  <2> HIDE DEF w
  <2>1. \A v : Stored(u, o, v) = [(IF u.grow THEN w ELSE Slots(o)) EXCEPT ![u.offset] = v]
    BY DEF Stored, w
  <2> QED BY <1>10, <2>1
<1> QED BY <1>1, <1>5, <1>6, <1>8, <1>11, <1>12 DEF Entry

\* A value is stored where it is already.
Rewritten(o) ==
  /\ IInv' /\ AllStable /\ maps' = maps
  /\ Others(o) /\ MapAt(o)' = MapAt(o)
  /\ DOMAIN objs'[o].slots = DOMAIN Slots(o)
  /\ \A i \in DOMAIN Slots(o) : objs'[o].slots[i] = Slots(o)[i]
  /\ objs'[o].extensible = objs[o].extensible

\* A value merged into a data property changes the value alone.
LEMMA ValueMerge ==
  ASSUME NEW a, NEW w, NEW e, NEW c, NEW x, NEW v \in Values,
         a = [type |-> "data", writable |-> w, enumerable |-> e, configurable |-> c]
  PROVE  Merge([attributes |-> a, value |-> x], ValueOnly(v)) = [attributes |-> a, value |-> v]
<1>1. Or(v, x) = v /\ \A y : Or(Absent, y) = y
  BY DescriptorAssumption DEF Or
<1>2. PICK s : s = [attributes |-> a, value |-> x]
  OBVIOUS
<1>3. PICK d : d = ValueOnly(v)
  OBVIOUS
<1>4. /\ d.type = "data" /\ d.configurable = Absent /\ d.enumerable = Absent
      /\ d.writable = Absent /\ d.value = v
  BY <1>3 DEF ValueOnly
<1>5. /\ s.attributes = a /\ s.value = x
      /\ a.configurable = c /\ a.enumerable = e /\ a.writable = w
  BY ONLY <1>2, a = [type |-> "data", writable |-> w, enumerable |-> e, configurable |-> c]
<1>6. Merge(s, d) = [attributes |-> [type |-> "data", writable |-> Or(d.writable, w),
                                     enumerable |-> Or(d.enumerable, e),
                                     configurable |-> Or(d.configurable, c)],
                     value |-> Or(d.value, x)]
  BY ONLY ZenonT(60), <1>2, <1>4, <1>5, a = [type |-> "data", writable |-> w, enumerable |-> e, configurable |-> c]
  DEF Merge
<1>7. Merge(s, d) = [attributes |-> a, value |-> v]
  BY ONLY <1>1, <1>4, <1>6, a = [type |-> "data", writable |-> w, enumerable |-> e, configurable |-> c]
<1> QED BY ONLY <1>2, <1>3, <1>7

\* A store that hits is a put, or stores what is there already, which a put
\* does not do.
LEMMA HitIsPut ==
  ASSUME SlotInv, Opened, NEW n \in Names, NEW u, StoreUnitOK(u, n), u.grow \in BOOLEAN,
         NEW o \in Objects, Matches(u, o), NEW v \in Values,
         Become(o, Moved(maps, u.map), Stored(u, o, v))
  PROVE  Put(o, n, v) \/ Rewritten(o)
<1>1. CASE ReplaceUnit(u, n)
  <2>1. /\ HasOwn(o, n) /\ Holder(o, n) = o /\ CanPutData(o, n)
        /\ u.map = MapOf(o) /\ u.offset = Entry(MapOf(o), n).offset
        /\ Stored(u, o, v) = [Slots(o) EXCEPT ![u.offset] = v]
        /\ u.offset \in DOMAIN Slots(o)
    BY <1>1, ReplaceUnitSound
  <2> DEFINE s == OwnSlot(o, n)
  <2>2. s.attributes \in StoredAttributes /\ s.attributes.type = "data" /\ s.attributes.writable
    <3>1. o # NoObject
      BY HeapAssumption
    <3>2. n \in DOMAIN MapAt(o).table
      BY <2>1 DEF HasOwn, Has, MapAt
    <3> QED BY <2>1, <3>1, <3>2, SlotFacts DEF CanPutData
  <2>3. s = [attributes |-> s.attributes, value |-> s.value] /\ s.value = Slots(o)[u.offset]
    BY <2>1 DEF OwnSlot
  <2>4. CASE v = s.value
    <3>1. HeapInv /\ IInv /\ HeapOK /\ MapOf(o) \in LiveMaps
      BY MapAtIsMap, InvariantGivesHeap DEF SlotInv, HeapInv
    <3>2. Evolves(MapOf(o), Moved(maps, MapOf(o)))
      BY <3>1, StayingEvolves
    <3>3. Become(o, Moved(maps, MapOf(o)), [Slots(o) EXCEPT ![u.offset] = v])
      BY <2>1
    <3>4. /\ Others(o) /\ MapAt(o)' = MapAt(o)
          /\ objs'[o].slots = [Slots(o) EXCEPT ![u.offset] = v]
          /\ objs'[o].extensible = objs[o].extensible
      BY <3>1, <3>2, <3>3, BecomeEffect DEF Moved, MapAt
    <3>5. maps' = maps /\ IInv' /\ AllStable
      BY <3>1, <3>2, <3>3, BecomeMoves, MovesKeepsInvariant DEF Become, Moved
    <3> HIDE DEF s
    <3>6. /\ DOMAIN objs'[o].slots = DOMAIN Slots(o)
          /\ \A i \in DOMAIN Slots(o) : objs'[o].slots[i] = Slots(o)[i]
      BY <2>1, <2>3, <2>4, <3>4
    <3> QED BY <3>4, <3>5, <3>6 DEF Rewritten
  <2>5. CASE v # s.value
    <3>1. Merge(s, ValueOnly(v)) = [attributes |-> s.attributes, value |-> v]
      <4>1. s.attributes = [type |-> "data", writable |-> s.attributes.writable,
                            enumerable |-> s.attributes.enumerable,
                            configurable |-> s.attributes.configurable]
        BY <2>2 DEF StoredAttributes
      <4>2. PICK a, x, w, e, c : /\ a = s.attributes /\ x = s.value
                                 /\ w = a.writable /\ e = a.enumerable /\ c = a.configurable
        OBVIOUS
      <4>4. a = [type |-> "data", writable |-> w, enumerable |-> e, configurable |-> c]
        BY <4>1, <4>2
      <4>3. s = [attributes |-> a, value |-> x]
        BY <2>3, <4>2
      <4> HIDE DEF s
      <4> QED BY <4>2, <4>3, <4>4, ValueMerge
    <3>2. IsDefineOwnPropertyAccepted(s, ValueOnly(v))
      <4>1. v # Absent
        BY DescriptorAssumption
      <4> HIDE DEF s
      <4>2. ~Unchanged(s, ValueOnly(v))
        BY <2>5, <4>1 DEF Unchanged, IsAbsent, MergeWithNoEffect, Agrees, ValueOnly
      <4>3. ~Rejected(s, ValueOnly(v))
        BY <2>2, DescriptorAssumption DEF Rejected, Agrees, ValueOnly
      <4> QED BY <4>2, <4>3 DEF IsDefineOwnPropertyAccepted
    <3>3. Redefined(o, n, ValueOnly(v)) = [moved |-> Moved(maps, MapOf(o)),
                                           slots |-> [Slots(o) EXCEPT ![u.offset] = v]]
      BY <2>1, <3>1 DEF Redefined
    <3>4. DefineFound(o, n, ValueOnly(v))
      BY <2>1, <3>2, <3>3 DEF DefineFound
    <3> QED BY <2>1, <3>4 DEF Put
  <2> QED BY <2>4, <2>5
<1>2. CASE NewUnit(u, n)
  <2>1. /\ ~HasOwn(o, n) /\ CanPutData(o, n) /\ objs[o].extensible
        /\ AddPropertyTransition(MapOf(o), n, DefaultAttributes) = Moved(maps, u.map)
        /\ u.offset = Entry(u.map, n).offset
        /\ Stored(u, o, v) = [Resized(Slots(o), GetSlotsSize(maps[u.map])) EXCEPT ![u.offset] = v]
    BY <1>2, NewUnitSound
  <2>2. /\ NewSlot(DefaultData(v)).attributes = DefaultAttributes
        /\ NewSlot(DefaultData(v)).value = v
    BY DefaultSlot
  <2>3. Added(o, n, DefaultData(v)) = [moved |-> Moved(maps, u.map), slots |-> Stored(u, o, v)]
    BY SMTT(60), <2>1, <2>2 DEF Added, Moved, Entry
  <2>4. DefineNotFound(o, n, DefaultData(v))
    BY <2>1, <2>3 DEF DefineNotFound
  <2> QED BY <2>1, <2>4 DEF Put
<1> QED BY <1>1, <1>2 DEF StoreUnitOK

\* Storing what is there already shows nothing.
LEMMA RewrittenKeeps ==
  ASSUME RefInv, Opened, NEW o \in Objects, Rewritten(o)
  PROVE  RefInv' /\ Opened' /\ Steps
<1>1. SlotInv /\ HeapInv /\ Acyclic /\ Exact(maps)
  BY DEF RefInv, SlotInv, HeapInv
<1>2. HeapInv'
  BY <1>1 DEF Rewritten, HeapInv
<1> DEFINE r == MapAt(o)
           w == objs'[o].slots
<1>3. IsMap(r, LiveMaps) /\ Placed(r) /\ Fits(r, Slots(o))
  BY <1>1, SlotFacts
<1>4. /\ DOMAIN w = DOMAIN Slots(o) /\ \A i \in DOMAIN Slots(o) : w[i] = Slots(o)[i]
      /\ Others(o) /\ MapAt(o)' = r /\ objs'[o].extensible = objs[o].extensible
  BY DEF Rewritten
<1>5. \A n \in DOMAIN r.table : r.table[n].offset \in DOMAIN Slots(o)
  BY <1>3, OffsetInStorage
<1> HIDE DEF r, w
<1>6. Fits(r, w)
  BY <1>3, <1>4, <1>5 DEF Fits, IsStorage
<1>7. SlotInv'
  <2>1. Fits(MapAt(o)', Slots(o)')
    BY <1>4, <1>6 DEF Slots, w
  <2> QED BY <1>1, <1>2, <1>4, <2>1, OthersFit
<1>8. MapAt(o)'.prototype = MapAt(o).prototype
  BY <1>4 DEF r
<1>9. Acyclic'
  BY <1>1, <1>2, <1>4, <1>8, SamePrototypes
<1>10. Opened'
  <2>1. objs'[o].extensible \/ MapAt(o)'.unique
    BY <1>4 DEF Opened, r
  <2> QED BY <1>1, <1>4, <2>1, OthersOpened DEF Rewritten
<1>11. Properties' = Properties
  <2>1. View(r, w) = View(r, Slots(o))
    BY <1>4, <1>5 DEF View
  <2>2. View(MapAt(o)', Slots(o)') = View(MapAt(o), Slots(o))
    BY <1>4, <2>1 DEF Slots, r, w
  <2> QED BY <1>4, <2>2, OtherViews DEF Properties
<1>12. Links' = Links /\ Opens' = Opens
  BY <1>4, <1>8, SameLinks, SameOpens
<1> QED BY <1>7, <1>9, <1>10, <1>11, <1>12 DEF RefInv, Steps

\* A put, by whatever code.
LEMMA PutStepKeeps ==
  ASSUME RefInv, Opened, NEW n \in Names, NEW o \in Objects, NEW v \in PutValues,
         Put(o, n, v)
  PROVE  RefInv' /\ Opened' /\ AllStable /\ Steps
<1>1. SlotInv /\ HeapInv /\ IInv /\ Acyclic /\ v \in Values
  BY HeapAssumption DEF RefInv, SlotInv, HeapInv
<1>2. [Next]_hvars
  BY DEF Next, NamedStep
<1>3. RefInv' /\ Opened' /\ AllStable
  BY <1>1, <1>2, StepAcyclic, StepOpened, StepKeeps
<1>4. Model!Assign(o, n, v)
  BY <1>1, <1>3, PutImplements DEF RefInv, SlotInv
<1> QED BY <1>3, <1>4 DEF Steps, Model!ONext

\* What a store unit does.
LEMMA HitKeeps ==
  ASSUME RefInv, Opened, NEW n \in Names, NEW u, StoreUnitOK(u, n), u.grow \in BOOLEAN,
         NEW o \in Objects, Matches(u, o), NEW v \in PutValues,
         Become(o, Moved(maps, u.map), Stored(u, o, v))
  PROVE  RefInv' /\ Opened' /\ AllStable /\ Steps
<1>1. SlotInv /\ HeapInv /\ IInv /\ Acyclic /\ v \in Values
  BY HeapAssumption DEF RefInv, SlotInv, HeapInv
<1>2. CASE Rewritten(o)
  BY <1>2, RewrittenKeeps DEF Rewritten
<1>3. CASE Put(o, n, v)
  BY <1>1, <1>3, PutStepKeeps
<1> QED BY <1>1, <1>2, <1>3, HitIsPut

\* The unit that a replacement generates.
LEMMA ReplaceMakesUnit ==
  ASSUME RefInv, Opened, NEW n \in Names, NEW o \in Objects, NEW v \in PutValues,
         CanPutData(o, n), DefineFound(o, n, ValueOnly(v)), NEW u,
         u = [guards |-> MapsOf(<<o>>), via |-> Tail(<<o>>), map |-> MapOf(o),
              offset |-> Entry(MapOf(o), n).offset, grow |-> FALSE]
  PROVE  RefInv' /\ Opened' /\ AllStable /\ Steps /\ StoreUnitOK(u, n)'
<1> DEFINE m == MapOf(o)
<1>1. HeapInv /\ IInv /\ m \in LiveMaps /\ o # NoObject
  BY MapAtIsMap, HeapAssumption DEF RefInv, SlotInv, HeapInv
<1>2. RefInv' /\ Opened' /\ AllStable /\ Steps
  <2>1. Put(o, n, v)
    BY DEF Put
  <2> QED BY <2>1, PutStepKeeps
<1>3. n \in DOMAIN maps[m].table /\ HasOwn(o, n)
  BY DEF DefineFound, HasOwn, Has
<1>4. Holder(o, n) = o
  BY <1>1, <1>3, HolderSearch DEF Chain
<1>5. Writable(maps[m].table[n].attributes)
  BY <1>1, <1>4 DEF CanPutData, OwnSlot, Entry, Writable
<1>6. n \in DOMAIN maps'[m].table /\ maps'[m].table[n] = maps[m].table[n] /\ m \in LiveMaps'
  BY <1>1, <1>2, <1>3 DEF AllStable, Lasting, Stable
<1>7. /\ u.guards = [i \in 1..1 |-> m] /\ u.map = m /\ u.grow = FALSE
      /\ u.offset = maps[m].table[n].offset
  BY DEF MapsOf, Entry
<1>8. u.via \in Seq(Objects) /\ Len(u.via) = 0
  BY HeadTailProperties
<1> HIDE DEF m
<1>9. Guarded(u, 1)'
  BY <1>6, <1>7, <1>8 DEF Guarded
<1> QED BY <1>2, <1>5, <1>6, <1>7, <1>9 DEF StoreUnitOK, ReplaceUnit

\* A transition between shared maps is recorded in the first one.
LEMMA RecordedTransition ==
  ASSUME HeapOK, NEW m \in LiveMaps, NEW n \in Names, NEW a \in StoredAttributes,
         ~maps[m].unique, NEW moved, moved = AddPropertyTransition(m, n, a),
         ~moved.maps[moved.map].unique
  PROVE  /\ <<n, a>> \in DOMAIN moved.maps[m].transitions
         /\ moved.maps[m].transitions[<<n, a>>] = moved.map
<1> DEFINE r == maps[m]
           key == <<n, a>>
<1>1. Heap(maps) /\ IsMap(r, LiveMaps) /\ Len(maps) \in Nat /\ DOMAIN maps = Ids(maps)
      /\ m \in DOMAIN maps /\ m \in Ids(maps)
  BY SequenceIsHeap DEF HeapOK, Typed, Heap, Ids, LiveMaps
<1>2. CASE key \in DOMAIN r.transitions
  BY <1>2 DEF AddPropertyTransition, Moved
<1>3. CASE key \notin DOMAIN r.transitions /\ r.transitCount <= MaxTransition
  <2> DEFINE next == [Extend(Derived(r, FALSE), n, a) EXCEPT !.transitCount = r.transitCount + 1]
             parent == [r EXCEPT !.transitions = With(@, key, Len(maps) + 1)]
             g == [maps EXCEPT ![m] = parent]
             h == Append(g, next)
  <2>1. moved.maps = h /\ moved.map = Len(maps) + 1
    BY <1>3 DEF AddPropertyTransition, Moved
  <2> HIDE DEF next
  <2>2. parent.transitions = With(r.transitions, key, Len(maps) + 1)
    BY <1>1 DEF IsMap, MapFields
  <2> HIDE DEF parent
  <2>3. Heap(g) /\ Len(g) = Len(maps) /\ g[m] = parent
    <3>1. Heap(maps) /\ m \in Ids(maps)
      BY <1>1
    <3> HIDE DEF r, key
    <3> QED BY SMTT(30), <3>1, UpdateHeap
  <2> HIDE DEF g
  <2>4. h[m] = g[m]
    <3>1. m \in Ids(g) /\ Heap(g)
      BY <1>1, <2>3 DEF Ids
    <3> HIDE DEF r, key
    <3>2. \A i \in Ids(g) : h[i] = g[i]
      BY <3>1, AppendHeap DEF Ids
    <3> QED BY <3>1, <3>2
  <2> HIDE DEF h
  <2>5. /\ key \in DOMAIN parent.transitions
        /\ parent.transitions[key] = Len(maps) + 1
    BY <2>2 DEF With
  <2> QED BY <2>1, <2>3, <2>4, <2>5
<1>4. CASE key \notin DOMAIN r.transitions /\ ~(r.transitCount <= MaxTransition)
  <2> DEFINE e == Extend(Derived(r, TRUE), n, a)
  <2>1. moved = Appended(e)
    BY <1>4 DEF AddPropertyTransition, Uniquely
  <2>2. e.unique = TRUE
    BY <1>1, DerivedIsMap, ExtendIsMap
  <2> HIDE DEF e
  <2>3. moved.maps[moved.map] = e
    BY <1>1, <2>1, AppendHeap DEF Appended, Moved
  <2> QED BY <2>2, <2>3
<1> QED BY <1>2, <1>3, <1>4

\* The maps after an addition: those the transition made, the maps ms fixed.
Recorded(moved, ms) ==
  /\ moved.map \in LiveMaps'
  /\ \A m \in LiveMaps :
       /\ m \in ms => Fixed(maps'[m])
       /\ \A f \in MapFields \ {"flattened", "transitions"} : maps'[m][f] = maps[m][f]
  /\ \A m \in LiveMaps' : \A f \in MapFields \ {"flattened"} :
       m \in DOMAIN moved.maps /\ maps'[m][f] = moved.maps[m][f]

\* A store that adds a property and records how: the step, with the flags of
\* the chain's maps set.
LEMMA NewKeeps ==
  ASSUME RefInv, Opened, NEW n \in Names, NEW o \in Objects, NEW v \in PutValues,
         CanPutData(o, n), ~HasOwn(o, n), objs[o].extensible, NEW ms,
         NEW moved, moved = AddPropertyTransition(MapOf(o), n, DefaultAttributes),
         NEW g, g = Flattened(moved.maps, ms),
         ~maps[MapOf(o)].unique,
         Become(o, Moved(g, moved.map), Added(o, n, DefaultData(v)).slots)
  PROVE  RefInv' /\ Opened' /\ AllStable /\ Steps /\ Recorded(moved, ms)
<1> DEFINE m == MapOf(o)
           d == DefaultData(v)
           heap == moved.maps
<1>1. /\ SlotInv /\ HeapInv /\ IInv /\ Acyclic /\ v \in Values /\ HeapOK /\ Exact(maps)
      /\ m \in LiveMaps
  BY MapAtIsMap, InvariantGivesHeap, HeapAssumption DEF RefInv, SlotInv, HeapInv
<1>2. /\ NewSlot(d).attributes = DefaultAttributes /\ NewSlot(d).value = v
      /\ d \in Descriptors
  BY <1>1, DefaultSlot
<1>3. n \in Names \ DOMAIN maps[m].table /\ DefaultAttributes \in StoredAttributes
  BY DEF HasOwn, Has, DefaultAttributes, StoredAttributes
<1>4. Added(o, n, d).moved = moved
  BY <1>2 DEF Added
<1>5. Evolves(m, moved)
  BY <1>1, <1>3, AddPropertyEvolves
<1>6. Exact(heap) /\ Typed(heap) /\ moved.map \in Ids(heap)
  <2>1. Exact(heap)
    BY <1>1, <1>3, AddPropertyExact
  <2> QED BY <1>5, <2>1 DEF Evolves
<1>7. Evolves(m, Moved(g, moved.map)) /\ Len(g) = Len(heap)
  BY <1>1, <1>5, FlattenedEvolves
<1> HIDE DEF d, m
<1>8. maps' = g /\ IInv' /\ AllStable
  <2>1. Become(o, Moved(g, moved.map), Added(o, n, d).slots)
    BY DEF d
  <2>2. Moves(o, Moved(g, moved.map))
    BY <1>1, <1>7, <2>1, BecomeMoves DEF m
  <2>3. maps' = g
    BY <2>1 DEF Become, Moved
  <2> QED BY <1>1, <2>2, <2>3, MovesKeepsInvariant
<1>9. HeapInv'
  <2>1. Exact(g)
    BY <1>6, FlattenedExact
  <2> QED BY <1>8, <2>1 DEF HeapInv
<1>10. \A k \in Ids(heap) :
         /\ \A f \in MapFields \ {"flattened"} : g[k][f] = heap[k][f]
         /\ k \in ms => Fixed(g[k])
  BY <1>6, FlattenedFixes
<1>11. LiveMaps' = Ids(heap) /\ DOMAIN heap = Ids(heap) /\ LiveMaps \subseteq Ids(heap)
  <2>1. LiveMaps' = Ids(heap)
    BY <1>7, <1>8 DEF LiveMaps, Ids
  <2>2. DOMAIN heap = Ids(heap)
    BY <1>6, SequenceIsHeap DEF Typed, Heap
  <2> QED BY <1>8, <2>1, <2>2 DEF AllStable
<1>12. AddedTo(o, n, d)
  <2>1. Evolves(MapOf(o), Moved(g, Added(o, n, d).moved.map))
    BY <1>4, <1>7 DEF m
  <2>2. \A f \in {"table", "deleted", "prototype"} :
          g[Added(o, n, d).moved.map][f]
            = Added(o, n, d).moved.maps[Added(o, n, d).moved.map][f]
    BY <1>4, <1>6, <1>10 DEF MapFields
  <2>3. Become(o, Moved(g, Added(o, n, d).moved.map), Added(o, n, d).slots)
    BY <1>4 DEF d
  <2> QED BY <1>1, <1>2, <2>1, <2>2, <2>3, AddedEffect
<1>13. SlotInv'
  BY <1>1, <1>2, <1>9, <1>12, AddedFits
<1>14. /\ Others(o) /\ MapAt(o)'.prototype = MapAt(o).prototype
       /\ objs'[o].extensible
  BY <1>12 DEF AddedTo
<1>15. Acyclic'
  BY <1>1, <1>9, <1>14, SamePrototypes
<1>16. Opened'
  BY <1>1, <1>8, <1>14, OthersOpened
<1>17. Model!Assign(o, n, v)
  BY <1>1, <1>9, <1>12, AssignImplements DEF d
<1>18. Steps
  BY <1>1, <1>17 DEF Steps, Model!ONext
<1>19. RefInv'
  BY <1>13, <1>15 DEF RefInv
<1>20. ASSUME NEW k \in LiveMaps
       PROVE  \A f \in MapFields \ {"flattened", "transitions"} : maps'[k][f] = maps[k][f]
  <2>1. IsMap(maps[k], LiveMaps) /\ k \in Ids(heap)
    BY <1>1, <1>11 DEF HeapOK, Typed, Ids, LiveMaps
  <2>2. \A f \in MapFields \ {"flattened", "transitions"} : heap[k][f] = maps[k][f]
    <3>1. CASE k = m
      BY <1>5, <3>1 DEF Evolves, Lasting, Stable, m
    <3>2. CASE k # m
      <4>1. Kept(maps[k], heap[k])
        BY <1>5, <3>2 DEF Evolves
      <4> QED BY <2>1, <4>1, KeptLasts
    <3> QED BY <3>1, <3>2
  <2> QED BY <1>8, <1>10, <2>1, <2>2
<1>21. Recorded(moved, ms)
  BY <1>6, <1>8, <1>10, <1>11, <1>20 DEF Recorded
<1> QED BY <1>8, <1>16, <1>18, <1>19, <1>21

\* The chain of an object, all of it.
LEMMA WholePath ==
  ASSUME HeapInv, Acyclic, NEW o \in Objects, NEW p, p = Path(o, NoObject)
  PROVE  /\ p \in Seq(Objects) /\ Len(p) # 0 /\ Linked(p, Len(p)) /\ p[1] = o
         /\ PrototypeOf(p[Len(p)]) = NoObject
<1> DEFINE T == {NoObject}
<1>1. o \in Chain /\ o \notin T /\ {NoObject, NoObject} = T
  BY HeapAssumption DEF Chain
<1>2. IsPath(p, o, T)
  BY <1>1, PathIsPath
<1>3. /\ Linked(p, Len(p)) /\ p \in Seq(Objects)
      /\ Len(p) = 0 => o \in T
      /\ Len(p) > 0 => p[1] = o /\ PrototypeOf(p[Len(p)]) \in T
  <2> HIDE DEF T
  <2> QED BY <1>2, PathLinked
<1> QED BY <1>1, <1>3 DEF Linked

\* What a put may do: the first object of the chain that has the name has it
\* writable.
LEMMA FirstIsWritable ==
  ASSUME HeapInv, NEW n, NEW s, NEW k, Linked(s, k), NEW i \in 1..k, HasOwn(s[i], n),
         \A j \in 1..(i - 1) : ~HasOwn(s[j], n), CanPutData(s[1], n)
  PROVE  Writable(maps[MapOf(s[i])].table[n].attributes)
<1>1. s[i] \in Objects /\ s[i] \in Chain /\ s[i] # NoObject
  BY HeapAssumption DEF Linked, Chain
<1>2. Holder(s[1], n) = s[i]
  <2>1. Holder(s[1], n) = Holder(s[i], n)
    BY LookupPasses
  <2> QED BY <1>1, <2>1, HolderSearch
<1> QED BY <1>1, <1>2 DEF CanPutData, OwnSlot, Entry, Writable

\* The unit that an addition generates.
LEMMA NewMakesUnit ==
  ASSUME RefInv, Opened, NEW n \in Names, NEW o \in Objects, NEW v \in PutValues,
         CanPutData(o, n), ~HasOwn(o, n), objs[o].extensible,
         NEW p, p = Path(o, NoObject),
         NEW moved, moved = AddPropertyTransition(MapOf(o), n, DefaultAttributes),
         NEW to, to = moved.maps[moved.map],
         ~maps[MapOf(o)].unique, ~to.unique,
         Become(o, Moved(ChainFlattened(moved.maps, p), moved.map),
                Added(o, n, DefaultData(v)).slots),
         NEW u,
         u = [guards |-> MapsOf(p), via |-> Tail(p), map |-> moved.map,
              offset |-> to.table[n].offset,
              grow |-> StorageCapacity(maps[MapOf(o)]) # StorageCapacity(to)]
  PROVE  RefInv' /\ Opened' /\ AllStable /\ Steps /\ StoreUnitOK(u, n)'
<1> DEFINE m == MapOf(o)
           ms == {MapOf(p[i]) : i \in DOMAIN p}
           k == Len(p)
           key == <<n, DefaultAttributes>>
           heap == moved.maps
<1>1. HeapInv /\ Acyclic /\ HeapOK /\ m \in LiveMaps /\ \A x \in Objects : MapOf(x) \in LiveMaps
  BY InvariantGivesHeap DEF RefInv, SlotInv, HeapInv
<1>2. /\ p \in Seq(Objects) /\ k # 0 /\ Linked(p, k) /\ p[1] = o
      /\ PrototypeOf(p[k]) = NoObject
  BY <1>1, WholePath
<1>3. k \in Nat /\ DOMAIN p = 1..k /\ \A i \in 1..k : p[i] \in Objects
  BY <1>2, LenProperties
<1>4. 1 \in 1..k /\ k \in 1..k /\ \A i \in 1..k : \A j \in 1..(i - 1) : j \in 1..k
  BY <1>2, <1>3
<1>5. Become(o, Moved(Flattened(heap, ms), moved.map), Added(o, n, DefaultData(v)).slots)
  BY DEF ChainFlattened
<1>6. \A i \in 1..k : MapOf(p[i]) \in ms /\ MapOf(p[i]) \in LiveMaps
  BY <1>1, <1>3
<1> HIDE DEF ms
<1>7. /\ RefInv' /\ Opened' /\ AllStable /\ Steps
      /\ moved.map \in LiveMaps'
      /\ \A x \in LiveMaps :
           /\ x \in ms => Fixed(maps'[x])
           /\ \A f \in MapFields \ {"flattened", "transitions"} : maps'[x][f] = maps[x][f]
      /\ \A x \in LiveMaps' : \A f \in MapFields \ {"flattened"} :
           x \in DOMAIN heap /\ maps'[x][f] = heap[x][f]
  <2>1. PICK S : S = ms
    OBVIOUS
  <2>2. PICK g : g = Flattened(heap, S)
    OBVIOUS
  <2>3. Become(o, Moved(g, moved.map), Added(o, n, DefaultData(v)).slots)
    BY <1>5, <2>1, <2>2
  <2>4. RefInv' /\ Opened' /\ AllStable /\ Steps /\ Recorded(moved, S)
    BY <2>2, <2>3, NewKeeps
  <2> HIDE DEF heap
  <2>5. Recorded(moved, ms)
    BY <2>1, <2>4
  <2> QED BY <2>4, <2>5 DEF Recorded, heap
<1>8. /\ key \in DOMAIN heap[m].transitions
      /\ heap[m].transitions[key] = moved.map
  <2>1. DefaultAttributes \in StoredAttributes
    BY DEF DefaultAttributes, StoredAttributes
  <2> QED BY <1>1, <2>1, RecordedTransition
<1> HIDE DEF heap
<1>9. /\ \A x \in LiveMaps :
           /\ maps'[x].prototype = maps[x].prototype
           /\ maps'[x].table = maps[x].table
           /\ maps'[x].deleted = maps[x].deleted
           /\ maps'[x].unique = maps[x].unique
      /\ maps'[moved.map].table = to.table
      /\ maps'[moved.map].deleted = to.deleted
      /\ \A x \in LiveMaps' : maps'[x].transitions = heap[x].transitions
  BY <1>7 DEF MapFields, heap
<1>10. /\ StorageCapacity(maps'[m]) = StorageCapacity(maps[m])
       /\ StorageCapacity(maps'[moved.map]) = StorageCapacity(to)
  BY <1>1, <1>9 DEF StorageCapacity, GetSlotsSize
<1>11. \A i \in 1..k : /\ Fixed(maps'[MapOf(p[i])])
                       /\ maps'[MapOf(p[i])].prototype = maps[MapOf(p[i])].prototype
                       /\ maps'[MapOf(p[i])].table = maps[MapOf(p[i])].table
  BY <1>6, <1>7, <1>9
<1>12. u.guards = MapsOf(p) /\ u.via = Tail(p) /\ u.map = moved.map
       /\ u.offset = to.table[n].offset
       /\ u.grow = (StorageCapacity(maps[m]) # StorageCapacity(to))
  OBVIOUS
<1>13. Guarded(u, k)' /\ \A i \in 1..k : u.guards[i] = MapOf(p[i])
  <2>1. \A i \in 1..(Len(p) - 1) : KeptLink(MapOf(p[i]))
    BY <1>3, <1>11 DEF KeptLink
  <2>2. Len(p) # 0 /\ Linked(p, Len(p)) /\ p \in Seq(Objects)
    BY <1>2
  <2>3. HeapInv /\ AllStable
    BY <1>1, <1>7
  <2>4. u.guards = MapsOf(p) /\ u.via = Tail(p)
    BY <1>12
  <2>5. Guarded(u, Len(p))' /\ \A i \in 1..Len(p) : u.guards[i] = MapOf(p[i])
    BY ONLY <2>1, <2>2, <2>3, <2>4, UnitGuarded
  <2> QED BY <2>5
<1>14. \A i \in 1..k : HasOwn(p[i], n) <=> n \in DOMAIN maps'[u.guards[i]].table
  BY SMTT(30), <1>11, <1>13 DEF HasOwn, Has
<1>15. ASSUME NEW i \in 1..k, n \in DOMAIN maps'[u.guards[i]].table,
              \A j \in 1..(i - 1) : n \notin DOMAIN maps'[u.guards[j]].table
       PROVE  Writable(maps'[u.guards[i]].table[n].attributes)
  <2>1. HasOwn(p[i], n) /\ \A j \in 1..(i - 1) : ~HasOwn(p[j], n)
    BY <1>4, <1>14, <1>15
  <2>2. Writable(maps[MapOf(p[i])].table[n].attributes)
    BY <1>1, <1>2, <2>1, FirstIsWritable
  <2> QED BY <1>11, <1>13, <2>2
<1>16. u.guards[1] = m /\ u.guards[k] = MapOf(p[k])
  BY <1>2, <1>4, <1>13
<1>17. /\ Fixed(maps'[u.guards[k]]) /\ maps'[u.guards[k]].prototype = NoObject
  BY <1>2, <1>4, <1>11, <1>16 DEF PrototypeOf, Proto
<1>18. /\ ~maps'[u.guards[1]].unique /\ n \notin DOMAIN maps'[u.guards[1]].table
       /\ key \in DOMAIN maps'[u.guards[1]].transitions
       /\ maps'[u.guards[1]].transitions[key] = u.map
  <2>1. m \in LiveMaps'
    BY <1>1, <1>7 DEF AllStable
  <2> QED BY <1>1, <1>8, <1>9, <1>12, <1>16, <2>1 DEF HasOwn, Has
<1>19. /\ u.offset = maps'[u.map].table[n].offset
       /\ u.grow <=> StorageCapacity(maps'[u.guards[1]]) # StorageCapacity(maps'[u.map])
  BY ZenonT(60), <1>9, <1>10, <1>12, <1>16
<1> HIDE DEF k, m
<1>20. NewUnit(u, n)'
  BY <1>3, <1>13, <1>15, <1>17, <1>18, <1>19 DEF NewUnit, StorageCapacity, GetSlotsSize
<1> QED BY <1>7, <1>20 DEF StoreUnitOK

-----------------------------------------------------------------------------
(* The invariant                                                           *)

Units(s) == {s[i] : i \in DOMAIN s}

\* What every unit of every site says.
LoadsOK ==
  /\ DOMAIN loadIC = LoadSites
  /\ \A n \in LoadSites : /\ loadIC[n] \in Seq(Units(loadIC[n]))
                          /\ \A u \in Units(loadIC[n]) : LoadUnitOK(u, n)

StoresOK ==
  /\ DOMAIN storeIC = StoreSites
  /\ \A n \in StoreSites :
       /\ storeIC[n] \in Seq(Units(storeIC[n]))
       /\ \A u \in Units(storeIC[n]) : StoreUnitOK(u, n) /\ u.grow \in BOOLEAN

ICInv == RefInv /\ Opened /\ LoadsOK /\ StoresOK

\* Chaining a unit.
LEMMA AppendUnits ==
  ASSUME NEW s, s \in Seq(Units(s)), NEW u
  PROVE  LET t == Append(s, u)
         IN t \in Seq(Units(t)) /\ Units(t) = Units(s) \cup {u}
<1> DEFINE S == Units(s) \cup {u}
           t == Append(s, u)
<1>1. s \in Seq(S)
  <2>1. Units(s) \subseteq S
    OBVIOUS
  <2> HIDE DEF S
  <2> QED BY <2>1, SeqDef
<1>2. /\ t \in Seq(S) /\ Len(t) = Len(s) + 1 /\ Len(s) \in Nat
      /\ DOMAIN s = 1..Len(s) /\ DOMAIN t = 1..(Len(s) + 1)
      /\ \A i \in 1..Len(s) : t[i] = s[i]
      /\ t[Len(s) + 1] = u
  <2>1. u \in S
    OBVIOUS
  <2> HIDE DEF S
  <2> QED BY <1>1, <2>1, AppendProperties, LenProperties
<1> HIDE DEF t
<1>3. Units(t) = S
  <2>1. \A i \in 1..(Len(s) + 1) : i \in 1..Len(s) \/ i = Len(s) + 1
    BY <1>2
  <2>2. \A i \in 1..Len(s) : i \in 1..(Len(s) + 1)
    BY <1>2
  <2>3. Len(s) + 1 \in 1..(Len(s) + 1)
    BY <1>2
  <2> QED BY <1>2, <2>1, <2>2, <2>3 DEF Units
<1> QED BY <1>2, <1>3 DEF t

\* Units stay what they are while others are made.
LEMMA LoadsStay ==
  ASSUME AllStable, LoadsOK, loadIC' = loadIC
  PROVE  LoadsOK'
<1>1. ASSUME NEW n \in LoadSites, NEW u \in Units(loadIC[n]) PROVE LoadUnitOK(u, n)'
  BY LoadUnitStays DEF LoadsOK
<1> QED BY <1>1 DEF LoadsOK, Units

\* The store units of all sites stay true across a step of the heap.
LEMMA StoresStay ==
  ASSUME HeapInv, AllStable, StoresOK, storeIC' = storeIC
  PROVE  StoresOK'
<1>1. ASSUME NEW n \in StoreSites, NEW u \in Units(storeIC[n]) PROVE StoreUnitOK(u, n)'
  BY StoreUnitStays DEF StoresOK
<1> QED BY <1>1 DEF StoresOK, Units

\* A site gets one more.
LEMMA LoadsGrow ==
  ASSUME AllStable, LoadsOK, NEW n \in LoadSites, NEW u, LoadUnitOK(u, n)',
         loadIC' = [loadIC EXCEPT ![n] = Append(@, u)]
  PROVE  LoadsOK'
<1>1. /\ DOMAIN loadIC' = LoadSites
      /\ loadIC'[n] = Append(loadIC[n], u)
      /\ \A x \in LoadSites \ {n} : loadIC'[x] = loadIC[x]
  BY DEF LoadsOK
<1>2. /\ loadIC'[n] \in Seq(Units(loadIC'[n]))
      /\ Units(loadIC'[n]) = Units(loadIC[n]) \cup {u}
  BY <1>1, AppendUnits DEF LoadsOK
<1>3. ASSUME NEW x \in LoadSites, NEW w \in Units(loadIC[x]) PROVE LoadUnitOK(w, x)'
  BY LoadUnitStays DEF LoadsOK
<1>4. ASSUME NEW x \in LoadSites, NEW w \in Units(loadIC'[x]) PROVE LoadUnitOK(w, x)'
  <2>1. w \in Units(loadIC[x]) \/ (x = n /\ w = u)
    BY <1>1, <1>2, <1>4
  <2> QED BY <1>3, <2>1
<1>5. \A x \in LoadSites : loadIC'[x] \in Seq(Units(loadIC'[x]))
  BY <1>1, <1>2 DEF LoadsOK
<1> QED BY <1>1, <1>4, <1>5 DEF LoadsOK, Units

\* They stay true when a site is given a unit that is.
LEMMA StoresGrow ==
  ASSUME HeapInv, AllStable, StoresOK, NEW n \in StoreSites, NEW u, StoreUnitOK(u, n)',
         u.grow \in BOOLEAN, storeIC' = [storeIC EXCEPT ![n] = Append(@, u)]
  PROVE  StoresOK'
<1>1. /\ DOMAIN storeIC' = StoreSites
      /\ storeIC'[n] = Append(storeIC[n], u)
      /\ \A x \in StoreSites \ {n} : storeIC'[x] = storeIC[x]
  BY DEF StoresOK
<1>2. /\ storeIC'[n] \in Seq(Units(storeIC'[n]))
      /\ Units(storeIC'[n]) = Units(storeIC[n]) \cup {u}
  BY <1>1, AppendUnits DEF StoresOK
<1>3. ASSUME NEW x \in StoreSites, NEW w \in Units(storeIC[x])
      PROVE  StoreUnitOK(w, x)' /\ w.grow \in BOOLEAN
  BY StoreUnitStays DEF StoresOK
<1>4. ASSUME NEW x \in StoreSites, NEW w \in Units(storeIC'[x])
      PROVE  StoreUnitOK(w, x)' /\ w.grow \in BOOLEAN
  <2>1. w \in Units(storeIC[x]) \/ (x = n /\ w = u)
    BY <1>1, <1>2, <1>4
  <2> QED BY <1>3, <2>1
<1>5. \A x \in StoreSites : storeIC'[x] \in Seq(Units(storeIC'[x]))
  BY <1>1, <1>2 DEF StoresOK
<1> QED BY <1>1, <1>4, <1>5 DEF StoresOK, Units

\* At first no site has a unit, and every object is open.
LEMMA InitCaches ==
  ASSUME ICInit
  PROVE  ICInv /\ Model!OInit
<1>1. RefInv /\ Model!OInit /\ Opened
  BY InitImplements DEF ICInit, Init, Opened
<1> DEFINE none == <<>>
<1>2. Units(none) = {} /\ none \in Seq({})
  BY EmptySeq DEF Units
<1>3. loadIC = [n \in LoadSites |-> none] /\ storeIC = [n \in StoreSites |-> none]
  BY DEF ICInit
<1> HIDE DEF none
<1> QED BY <1>1, <1>2, <1>3 DEF ICInv, LoadsOK, StoresOK

\* A load that is cached shows nothing.
LEMMA LoadKeeps ==
  ASSUME ICInv, NEW n \in LoadSites, NEW o \in Objects, Load(n, o)
  PROVE  ICInv' /\ AllStable /\ Steps
<1> DEFINE h == Holder(o, n)
           p == Path(o, h)
<1>1. /\ RefInv /\ SlotInv /\ HeapInv /\ Acyclic /\ Opened /\ LoadsOK /\ StoresOK
  BY DEF ICInv, RefInv, SlotInv
<1>2. /\ h # NoObject /\ Entry(MapOf(h), n).attributes.type = "data"
      /\ loadIC' = [loadIC EXCEPT ![n] = Append(@, LoadUnit(p, h, n))]
      /\ maps' = ChainFlattened(maps, p) /\ objs' = objs /\ storeIC' = storeIC
  BY DEF Load
<1> HIDE DEF h, p
<1>3. PICK H : H = h
  OBVIOUS
<1>4. PICK P : P = p
  OBVIOUS
<1>5. PICK u : u = LoadUnit(P, H, n)
  OBVIOUS
<1>6. HeapInv' /\ AllStable /\ LoadUnitOK(u, n)'
  <2>1. /\ H = Holder(o, n) /\ H # NoObject /\ P = Path(o, H)
        /\ Entry(MapOf(H), n).attributes.type = "data" /\ maps' = ChainFlattened(maps, P)
    BY <1>2, <1>3, <1>4 DEF h, p
  <2> QED BY <1>1, <1>2, <1>5, <2>1, LoadMakesUnit
<1>7. LoadsOK'
  BY <1>1, <1>2, <1>3, <1>4, <1>5, <1>6, LoadsGrow
<1>8. StoresOK'
  BY <1>1, <1>2, <1>6, StoresStay
<1> DEFINE ms == {MapOf(p[i]) : i \in DOMAIN p}
<1>9. PICK S : S = ms
  OBVIOUS
<1>10. Flattening(S)
  BY <1>2, <1>9 DEF Flattening, ChainFlattened
<1>11. /\ \A x \in Objects : Untouched(x)
       /\ Properties' = Properties /\ Links' = Links /\ Opens' = Opens
  BY <1>1, <1>10, FlattenEffect, HiddenSteps
<1>12. SlotInv'
  BY <1>1, <1>6, <1>11, UntouchedFits DEF SlotInv
<1>13. Acyclic'
  <2>1. \A x \in Objects : PrototypeOf(x)' = PrototypeOf(x)
    BY <1>11 DEF Links
  <2> QED BY <1>1, <2>1 DEF Acyclic
<1>14. Opened'
  <2>1. Others(o) /\ objs'[o].extensible = objs[o].extensible
    BY <1>2, <1>11 DEF Others
  <2>2. MapAt(o)'.unique = MapAt(o).unique
    BY <1>1, <1>2, <1>6, MapAtIsMap DEF AllStable, Lasting, Stable, MapAt, MapOf
  <2> QED BY <1>1, <1>6, <2>1, <2>2, OthersOpened DEF Opened
<1> QED BY <1>6, <1>7, <1>8, <1>11, <1>12, <1>13, <1>14 DEF ICInv, RefInv, Steps

\* A store, whether a unit does it or one is made of it, is an assignment.
LEMMA StoreKeeps ==
  ASSUME ICInv, NEW n \in StoreSites, NEW o \in Objects, NEW v \in PutValues,
         StoreHit(n, o, v) \/ StoreReplace(n, o, v) \/ StoreNew(n, o, v)
  PROVE  ICInv' /\ AllStable /\ Steps
<1>1. /\ RefInv /\ HeapInv /\ Opened /\ LoadsOK /\ StoresOK /\ n \in Names
  BY SiteAssumption DEF ICInv, RefInv, SlotInv
<1>2. CASE StoreHit(n, o, v)
  <2>1. PICK i \in Hits(storeIC[n], o) :
          /\ Become(o, Moved(maps, storeIC[n][i].map), Stored(storeIC[n][i], o, v))
          /\ loadIC' = loadIC /\ storeIC' = storeIC
    BY <1>2 DEF StoreHit
  <2>2. PICK u : u = storeIC[n][i]
    OBVIOUS
  <2>3. u \in Units(storeIC[n]) /\ Matches(u, o)
    BY <2>2 DEF Hits, Units
  <2>4. StoreUnitOK(u, n) /\ u.grow \in BOOLEAN
    BY <1>1, <2>3 DEF StoresOK
  <2>5. RefInv' /\ Opened' /\ AllStable /\ Steps
    BY <1>1, <2>1, <2>2, <2>3, <2>4, HitKeeps
  <2> QED BY <1>1, <2>1, <2>5, LoadsStay, StoresStay DEF ICInv
<1>3. CASE StoreReplace(n, o, v)
  <2>1. PICK u : u = [guards |-> MapsOf(<<o>>), via |-> Tail(<<o>>), map |-> MapOf(o),
                      offset |-> Entry(MapOf(o), n).offset, grow |-> FALSE]
    OBVIOUS
  <2>2. /\ CanPutData(o, n) /\ DefineFound(o, n, ValueOnly(v))
        /\ storeIC' = [storeIC EXCEPT ![n] = Append(@, u)] /\ loadIC' = loadIC
    BY <1>3, <2>1 DEF StoreReplace, AddStoreUnit
  <2>3. RefInv' /\ Opened' /\ AllStable /\ Steps /\ StoreUnitOK(u, n)'
    BY <1>1, <2>1, <2>2, ReplaceMakesUnit
  <2>4. u.grow \in BOOLEAN
    BY <2>1
  <2> QED BY <1>1, <2>2, <2>3, <2>4, LoadsStay, StoresGrow DEF ICInv
<1>4. CASE StoreNew(n, o, v)
  <2> DEFINE added == Added(o, n, DefaultData(v))
  <2>1. PICK moved : moved = AddPropertyTransition(MapOf(o), n, DefaultAttributes)
    OBVIOUS
  <2>2. PICK p : p = Path(o, NoObject)
    OBVIOUS
  <2>3. added.moved = moved
    BY <2>1, HeapAssumption, DefaultSlot DEF Added
  <2>4. PICK to : to = moved.maps[moved.map]
    OBVIOUS
  <2>5. PICK u : u = [guards |-> MapsOf(p), via |-> Tail(p), map |-> moved.map,
                      offset |-> to.table[n].offset,
                      grow |-> StorageCapacity(maps[MapOf(o)]) # StorageCapacity(to)]
    OBVIOUS
  <2>6. /\ CanPutData(o, n) /\ ~HasOwn(o, n) /\ objs[o].extensible
        /\ ~maps[MapOf(o)].unique /\ ~to.unique
        /\ Become(o, Moved(ChainFlattened(moved.maps, p), moved.map), added.slots)
        /\ storeIC' = [storeIC EXCEPT ![n] = Append(@, u)] /\ loadIC' = loadIC
    BY <1>4, <2>2, <2>3, <2>4, <2>5 DEF StoreNew, AddStoreUnit
  <2>7. RefInv' /\ Opened' /\ AllStable /\ Steps /\ StoreUnitOK(u, n)'
    BY <1>1, <2>1, <2>2, <2>4, <2>5, <2>6, NewMakesUnit
  <2>8. u.grow \in BOOLEAN
    BY <2>5
  <2> QED BY <1>1, <2>6, <2>7, <2>8, LoadsStay, StoresGrow DEF ICInv
<1> QED BY <1>2, <1>3, <1>4

\* Every step keeps what units say and every map stable; and with descriptors
\* that carry values it is one of ECMAScript's.
LEMMA CacheStep ==
  ASSUME ICInv, [ICNext]_ivars
  PROVE  ICInv' /\ AllStable /\ (InputsCarryValues => Steps)
<1>1. /\ RefInv /\ HeapInv /\ IInv /\ Opened /\ LoadsOK /\ StoresOK
  BY DEF ICInv, RefInv, SlotInv, HeapInv
<1>2. ASSUME [Next]_hvars, loadIC' = loadIC, storeIC' = storeIC
      PROVE  ICInv' /\ AllStable /\ (InputsCarryValues => Steps)
  <2>1. RefInv' /\ Opened' /\ AllStable
    BY <1>1, <1>2, StepAcyclic, StepOpened, StepKeeps
  <2>2. InputsCarryValues => Steps
    BY <1>1, <1>2, StepImplements
  <2> QED BY <1>1, <1>2, <2>1, <2>2, LoadsStay, StoresStay DEF ICInv
<1>3. CASE UNCHANGED ivars
  BY <1>2, <1>3 DEF ivars, hvars
<1>4. CASE Next /\ UNCHANGED <<loadIC, storeIC>>
  BY <1>2, <1>4
<1> QED BY <1>3, <1>4, LoadKeeps, StoreKeeps DEF ICNext

\* The invariant of the inline caches holds of every reachable state.
LEMMA CacheInvariance == ICSpec => []ICInv
<1>1. ICInit => ICInv
  BY InitCaches
<1>2. ICInv /\ [ICNext]_ivars => ICInv'
  BY CacheStep
<1> QED BY <1>1, <1>2, PTL DEF ICSpec

-----------------------------------------------------------------------------
(* What compiled code does                                                 *)

\* Whatever happened since a load unit was generated, an object it lets through
\* has the property where the unit reads it: the object, the objects it shares
\* its map with and every prototype on the way may have changed in any way.
THEOREM LoadUnitsAnswer == ICSpec => []LoadICSound
<1>1. ICInv => LoadICSound
  <2> SUFFICES ASSUME ICInv, NEW n \in LoadSites, NEW o \in Objects,
                      NEW i \in Hits(loadIC[n], o)
               PROVE  LET u == loadIC[n][i]
                          h == Holder(o, n)
                      IN /\ h = Reached(u, o)
                         /\ Entry(MapOf(h), n).attributes.type = "data"
                         /\ Entry(MapOf(h), n).offset = u.offset
    BY DEF LoadICSound
  <2>1. PICK u : u = loadIC[n][i]
    OBVIOUS
  <2>2. u \in Units(loadIC[n]) /\ Matches(u, o)
    BY <2>1 DEF Hits, Units
  <2>3. LoadUnitOK(u, n) /\ HeapInv
    BY <2>2 DEF ICInv, LoadsOK, RefInv, SlotInv
  <2> QED BY <2>1, <2>2, <2>3, LoadUnitSound
<1> QED BY <1>1, CacheInvariance, PTL

\* A store unit does what the assignment would: it writes into the object's
\* storage, at the place of the property, and adds a property only to an object
\* that may get it.
THEOREM StoreUnitsPut == ICSpec => []StoreICSound
<1>1. ICInv => StoreICSound
  <2> SUFFICES ASSUME ICInv, NEW n \in StoreSites, NEW o \in Objects,
                      NEW i \in Hits(storeIC[n], o), NEW u, u = storeIC[n][i]
               PROVE  LET m == MapOf(o)
                          added == AddPropertyTransition(m, n,
                                     NewSlot(DefaultData(Undefined)).attributes)
                      IN /\ CanPutData(o, n)
                         /\ u.offset \in DOMAIN Stored(u, o, Undefined)
                         /\ IF HasOwn(o, n)
                            THEN u.map = m /\ u.offset = Entry(m, n).offset
                            ELSE /\ objs[o].extensible
                                 /\ added = Moved(maps, u.map)
                                 /\ u.offset = Entry(u.map, n).offset
    BY DEF StoreICSound
  <2>1. u \in Units(storeIC[n]) /\ Matches(u, o)
    BY DEF Hits, Units
  <2>2. StoreUnitOK(u, n) /\ u.grow \in BOOLEAN /\ SlotInv /\ Opened
    BY <2>1 DEF ICInv, StoresOK, RefInv
  <2>3. NewSlot(DefaultData(Undefined)).attributes = DefaultAttributes
    BY DefaultSlot, DescriptorAssumption
  <2>4. CASE ReplaceUnit(u, n)
    <3>1. /\ HasOwn(o, n) /\ CanPutData(o, n)
          /\ u.map = MapOf(o) /\ u.offset = Entry(MapOf(o), n).offset
          /\ u.offset \in DOMAIN Slots(o)
          /\ Stored(u, o, Undefined) = [Slots(o) EXCEPT ![u.offset] = Undefined]
      BY <2>1, <2>2, <2>4, ReplaceUnitSound
    <3> QED BY <3>1
  <2>5. CASE NewUnit(u, n)
    <3> DEFINE w == Resized(Slots(o), GetSlotsSize(maps[u.map]))
    <3>1. /\ ~HasOwn(o, n) /\ CanPutData(o, n) /\ objs[o].extensible
          /\ AddPropertyTransition(MapOf(o), n, DefaultAttributes) = Moved(maps, u.map)
          /\ u.offset = Entry(u.map, n).offset
          /\ u.offset \in DOMAIN w
          /\ Stored(u, o, Undefined) = [w EXCEPT ![u.offset] = Undefined]
      BY <2>1, <2>2, <2>5, NewUnitSound
    <3> HIDE DEF w
    <3> QED BY <2>3, <3>1
  <2> QED BY <2>2, <2>4, <2>5 DEF StoreUnitOK
<1> QED BY <1>1, CacheInvariance, PTL

\* What units rely on holds although they change flags and take transitions
\* themselves.
THEOREM CachedMapsStayStable == ICSpec => GuardedMapsStable
<1>1. ICInv /\ [ICNext]_ivars
      => [\A m \in LiveMaps : InUse(m) /\ InUse(m)' => Stable(maps[m], maps'[m])]_hvars
  BY CacheStep DEF AllStable, Lasting
<1> QED BY <1>1, CacheInvariance, PTL DEF ICSpec, GuardedMapsStable

\* Code with inline caches still implements the objects of ECMAScript 5: no
\* sequence of hits, misses and changes in between shows a step that is not one
\* of theirs; given that no descriptor makes a data property of an accessor
\* without a value (README, section 6).
THEOREM CachesImplementObjects == InputsCarryValues => (ICSpec => ImplementsObjects)
<1> SUFFICES ASSUME InputsCarryValues PROVE ICSpec => ImplementsObjects
  OBVIOUS
<1>1. ICInit => ICInv /\ Model!OInit
  BY InitCaches
<1>2. ICInv /\ [ICNext]_ivars => ICInv' /\ [Model!ONext]_(Model!ovars)
  <2> SUFFICES ASSUME ICInv, [ICNext]_ivars
               PROVE  ICInv' /\ [Model!ONext]_(Model!ovars)
    OBVIOUS
  <2>1. ICInv' /\ Steps
    BY CacheStep
  <2>2. Properties' = Properties /\ Links' = Links /\ Opens' = Opens
        => UNCHANGED Model!ovars
    BY MappedProperties DEF Model!ovars, Links, Opens
  <2> QED BY <2>1, <2>2 DEF Steps
<1> QED BY <1>1, <1>2, PTL DEF ICSpec, ImplementsObjects, Model!OSpec
=============================================================================
