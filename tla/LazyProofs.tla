----------------------------- MODULE LazyProofs -----------------------------
(***************************************************************************)
(* The tables of hidden classes that are built when they are asked for     *)
(* (TablesAnswer of LazyTables), for chains of any length and any number   *)
(* of maps that have one table.                                            *)
(*                                                                         *)
(* The steps of LazyTables are steps of InlineCache, so the invariant of   *)
(* CacheProofs holds beside the one here, which relates the tables to the  *)
(* maps.  It is stated of any tables h, maps g and set U of maps that      *)
(* objects have, as a transition goes through several of them.             *)
(***************************************************************************)
EXTENDS LazyTables, CacheProofs

-----------------------------------------------------------------------------
(* Tables beside maps                                                      *)

\* The same entries.
Same(t, u) == DOMAIN t = DOMAIN u /\ \A x \in DOMAIN u : t[x] = u[x]

\* A unique map that no object has is never looked at again.
Used(g, U, k) == ~g[k].unique \/ k \in U

\* One record of tables for each map.
Laid(h, g) ==
  /\ DOMAIN h = {"lazy", "tables"} /\ Heap(h.lazy) /\ Heap(h.tables)
  /\ Len(h.lazy) = Len(g) /\ Len(g) \in Nat
  /\ \A k \in Ids(g) :
       /\ DOMAIN h.lazy[k] = {"table", "previous", "added", "calculated"}
       /\ h.lazy[k].table \in 0..Len(h.tables)
       /\ h.lazy[k].previous \in 0..(k - 1)

\* A map without a table is the one before it plus what it adds.  That one cannot
\* change: it is shared, or an object has left it before it had a table.
Continues(h, g, U, k) ==
  LET p == h.lazy[k].previous
      d == h.lazy[k].added
  IN /\ h.lazy[k].calculated = GetSlotsSize(g[k])
     /\ p = 0 => Same(d, g[k].table)
     /\ p # 0 =>
          /\ DOMAIN g[k].table = DOMAIN g[p].table \cup DOMAIN d
          /\ \A x \in DOMAIN g[p].table : g[k].table[x] = g[p].table[x]
          /\ \A x \in DOMAIN d : x \notin DOMAIN g[p].table /\ g[k].table[x] = d[x]
          /\ g[p].unique => ~HasTable(h, p) /\ p \notin U

\* What the tables say of the maps: those that are used have a table of the same
\* entries, which no other map that is used has, or continue such a map.
Sides(h, g, U) ==
  /\ Laid(h, g)
  /\ \A k \in Ids(g) : HasTable(h, k) /\ Used(g, U, k) => Same(TableOf(h, k), g[k].table)
  /\ \A k \in Ids(g) : ~HasTable(h, k) => Continues(h, g, U, k)
  /\ \A k, l \in Ids(g) :
       k # l /\ Used(g, U, k) /\ Used(g, U, l) /\ HasTable(h, k)
         => h.lazy[k].table # h.lazy[l].table

\* A sequence that is changed at one place.
Replaced(z, m, r) == [z EXCEPT ![m] = r]

\* It keeps the others.
LEMMA ReplacedAt ==
  ASSUME NEW z, Heap(z), NEW m \in Ids(z), NEW r, NEW y, y = Replaced(z, m, r)
  PROVE  /\ Heap(y) /\ Len(y) = Len(z) /\ y[m] = r
         /\ \A k \in Ids(z) : k # m => y[k] = z[k]
<1> DEFINE S == {z[k] : k \in Ids(z)} \cup {r}
<1>1. z \in Seq(S) /\ r \in S
  BY DEF Heap, Ids
<1>2. y \in Seq(S) /\ Len(y) = Len(z)
  BY <1>1, ExceptSeq DEF Ids, Replaced
<1>3. Heap(y)
  BY <1>2, SequenceIsHeap
<1>4. DOMAIN z = Ids(z)
  BY <1>1 DEF Ids
<1> QED BY <1>2, <1>3, <1>4 DEF Replaced

\* AllocateTable builds the table that the map has.
LEMMA AllocateIs ==
  ASSUME NEW h, NEW g, NEW U, Sides(h, g, U), NEW m \in Ids(g), ~HasTable(h, m)
  PROVE  \E t : /\ Same(t, g[m].table)
                /\ AllocateTable(h, m) =
                     [lazy |-> [h.lazy EXCEPT ![m].table = Len(h.tables) + 1, ![m].previous = 0],
                      tables |-> Append(h.tables, t)]
<1> DEFINE Entries(k) == [x \in DOMAIN g[k].table |-> g[k].table[x]]
           Built(k) == IF k = 0 THEN <<>> ELSE IF HasTable(h, k) THEN TableOf(h, k) ELSE Entries(k)
           Step(f, k) == IF k = 0 THEN <<>>
                         ELSE IF HasTable(h, k) THEN TableOf(h, k)
                         ELSE Inserted(f[h.lazy[k].previous], h.lazy[k].added)
<1>1. Laid(h, g) /\ m \in Nat \ {0} /\ 0..m \subseteq 0..Len(g) /\ Len(g) \in Nat
  BY DEF Sides, Laid, Ids
<1>2. PICK f : f = [k \in 0..m |-> Built(k)]
  OBVIOUS
<1>3. ASSUME NEW k \in 1..m, ~HasTable(h, k)
      PROVE  /\ h.lazy[k].previous \in 0..(k - 1)
             /\ Inserted(f[h.lazy[k].previous], h.lazy[k].added) = Entries(k)
  <2>1. k \in Ids(g) /\ Continues(h, g, U, k)
    BY <1>1, <1>3 DEF Sides, Ids
  <2>2. PICK p, d : p = h.lazy[k].previous /\ d = h.lazy[k].added
    OBVIOUS
  <2>3. p \in 0..(k - 1) /\ p \in 0..m
    BY <1>1, <2>1, <2>2 DEF Laid
  <2>4. f[p] = Built(p)
    BY <1>2, <2>3
  <2>5. CASE p = 0
    <3>1. Same(d, g[k].table)
      BY <2>1, <2>2, <2>5 DEF Continues
    <3>2. f[p] = <<>> /\ DOMAIN f[p] = {}
      BY <2>4, <2>5
    <3>3. Inserted(f[p], d) = Entries(k)
      BY <3>1, <3>2 DEF Inserted, Same
    <3> QED BY <2>2, <2>3, <3>3
  <2>6. CASE p # 0
    <3>1. /\ DOMAIN g[k].table = DOMAIN g[p].table \cup DOMAIN d
          /\ \A x \in DOMAIN g[p].table : g[k].table[x] = g[p].table[x]
          /\ \A x \in DOMAIN d : x \notin DOMAIN g[p].table /\ g[k].table[x] = d[x]
          /\ g[p].unique => ~HasTable(h, p)
      BY <2>1, <2>2, <2>6 DEF Continues
    <3>2. p \in Ids(g)
      BY <1>1, <2>3, <2>6 DEF Ids
    <3>3. Same(f[p], g[p].table)
      <4>1. CASE HasTable(h, p)
        <5>1. Same(TableOf(h, p), g[p].table)
          BY <3>1, <3>2, <4>1 DEF Sides, Used
        <5> QED BY <2>4, <2>6, <4>1, <5>1
      <4>2. CASE ~HasTable(h, p)
        <5>1. f[p] = Entries(p)
          BY <2>4, <2>6, <4>2
        <5> QED BY <5>1 DEF Same
      <4> QED BY <4>1, <4>2
    <3>4. Inserted(f[p], d) = Entries(k)
      BY <3>1, <3>3 DEF Inserted, Same
    <3> QED BY <2>2, <2>3, <3>4
  <2> QED BY <2>5, <2>6
<1>4. ASSUME NEW k \in 0..m PROVE f[k] = Step(f, k)
  <2>1. f[k] = Built(k)
    BY <1>2
  <2>2. CASE k = 0 \/ HasTable(h, k)
    BY <2>1, <2>2
  <2>3. CASE k # 0 /\ ~HasTable(h, k)
    <3>1. Inserted(f[h.lazy[k].previous], h.lazy[k].added) = Entries(k)
      BY <1>1, <1>3, <2>3
    <3>2. f[k] = Entries(k)
      BY <2>1, <2>3
    <3> HIDE DEF Entries
    <3> QED BY <2>3, <3>1, <3>2
  <2> QED BY <2>2, <2>3
<1>5. f = [k \in 0..m |-> Step(f, k)]
  <2>1. f = [k \in 0..m |-> f[k]]
    <3> HIDE DEF Built
    <3> QED BY <1>2
  <2> HIDE DEF Step
  <2> QED BY <1>4, <2>1
<1>6. PICK e : e = CHOOSE x : x = [k \in 0..m |-> Step(x, k)]
  OBVIOUS
<1>7. e = [k \in 0..m |-> Step(e, k)]
  <2> HIDE DEF Step
  <2> QED BY <1>5, <1>6
<1>8. AllocateTable(h, m) =
        [lazy |-> [h.lazy EXCEPT ![m].table = Len(h.tables) + 1, ![m].previous = 0],
         tables |-> Append(h.tables, e[m])]
  BY ZenonT(60), <1>6 DEF AllocateTable
<1>9. \A k \in 0..m : e[k] = f[k]
  <2> DEFINE Wrong == {k \in 0..m : e[k] # f[k]}
  <2>1. SUFFICES ASSUME Wrong # {} PROVE FALSE
    OBVIOUS
  <2>2. Wrong \subseteq Nat
    BY <1>1
  <2>3. PICK k \in Wrong : \A q \in Wrong : k <= q
    <3> HIDE DEF Wrong
    <3> QED BY <2>1, <2>2, LeastNatural
  <2>4. k \in 0..m /\ e[k] # f[k] /\ k \in Nat
    BY <1>1, <2>3
  <2>5. e[k] = Step(e, k) /\ f[k] = Step(f, k)
    <3> HIDE DEF Step
    <3> QED BY <1>5, <1>7, <2>4
  <2>6. k # 0 /\ ~HasTable(h, k)
    BY <2>4, <2>5
  <2>7. h.lazy[k].previous \in 0..(k - 1)
    <3>1. k \in 1..m
      BY <1>1, <2>4, <2>6
    <3> QED BY <1>3, <2>6, <3>1
  <2>8. PICK p : p = h.lazy[k].previous
    OBVIOUS
  <2>9. p \in 0..m /\ ~(k <= p)
    BY <1>1, <2>4, <2>7, <2>8
  <2>10. e[p] = f[p]
    BY <2>3, <2>9
  <2> QED BY <2>4, <2>5, <2>6, <2>8, <2>10
<1>10. e[m] = Entries(m)
  <2>1. m \in 0..m /\ m # 0
    BY <1>1
  <2>2. f[m] = Built(m)
    BY <1>2, <2>1
  <2> QED BY <1>9, <2>1, <2>2
<1>11. Same(e[m], g[m].table)
  BY <1>10 DEF Same
<1> QED BY <1>8, <1>11

\* A map that is used gets a table of its own.
LEMMA AllocatedSides ==
  ASSUME NEW h, NEW g, NEW U, Sides(h, g, U), NEW m \in Ids(g), Used(g, U, m),
         ~HasTable(h, m), NEW e, e = AllocateTable(h, m)
  PROVE  Sides(e, g, U) /\ HasTable(e, m)
<1>1. PICK t : /\ Same(t, g[m].table)
               /\ e = [lazy |-> [h.lazy EXCEPT ![m].table = Len(h.tables) + 1, ![m].previous = 0],
                       tables |-> Append(h.tables, t)]
  BY AllocateIs
<1>2. PICK n : n = Len(h.tables) + 1
  OBVIOUS
<1>3. /\ Laid(h, g) /\ m \in Nat \ {0} /\ Len(g) \in Nat /\ Ids(h.lazy) = Ids(g)
      /\ Heap(h.lazy) /\ Heap(h.tables)
  BY DEF Sides, Laid, Ids
<1>4. PICK r : r = [h.lazy[m] EXCEPT !.table = n, !.previous = 0]
  OBVIOUS
<1>5. e.lazy = [h.lazy EXCEPT ![m] = r]
  <2>1. e.lazy = [h.lazy EXCEPT ![m].table = n, ![m].previous = 0]
    BY <1>1, <1>2
  <2>2. DOMAIN h.lazy = Ids(g)
    BY <1>3, SequenceIsHeap DEF Heap
  <2> QED BY <1>4, <2>1, <2>2
<1>6. e.tables = Append(h.tables, t) /\ DOMAIN e = {"lazy", "tables"}
  BY <1>1
<1>7. /\ Heap(e.lazy) /\ Len(e.lazy) = Len(g) /\ e.lazy[m] = r
      /\ \A k \in Ids(g) : k # m => e.lazy[k] = h.lazy[k]
  <2>1. PICK z : z = h.lazy
    OBVIOUS
  <2>2. Heap(z) /\ m \in Ids(z) /\ e.lazy = Replaced(z, m, r)
    BY <1>3, <1>5, <2>1 DEF Replaced
  <2>3. /\ Heap(e.lazy) /\ Len(e.lazy) = Len(z) /\ e.lazy[m] = r
        /\ \A k \in Ids(z) : k # m => e.lazy[k] = z[k]
    BY <2>2, ReplacedAt
  <2>4. Len(z) = Len(g) /\ Ids(z) = Ids(g)
    BY <1>3, <2>1 DEF Laid
  <2> QED BY <2>1, <2>3, <2>4
<1>8. /\ Heap(e.tables) /\ Len(h.tables) \in Nat /\ Len(e.tables) = n /\ e.tables[n] = t
      /\ \A i \in 1..Len(h.tables) : e.tables[i] = h.tables[i]
  BY <1>2, <1>3, <1>6, AppendHeap DEF Ids
<1>9. /\ DOMAIN r = {"table", "previous", "added", "calculated"}
      /\ r.table = n /\ r.previous = 0
  BY <1>3, <1>4 DEF Laid
<1>10. HasTable(e, m) /\ TableOf(e, m) = t
  BY <1>7, <1>8, <1>9, <1>2 DEF HasTable, TableOf
<1>11. ASSUME NEW k \in Ids(g), k # m
       PROVE  /\ e.lazy[k] = h.lazy[k] /\ HasTable(e, k) = HasTable(h, k)
              /\ HasTable(h, k) => TableOf(e, k) = TableOf(h, k)
  <2>1. e.lazy[k] = h.lazy[k] /\ h.lazy[k].table \in 0..Len(h.tables)
    BY <1>3, <1>7, <1>11 DEF Laid
  <2> QED BY <1>8, <2>1 DEF HasTable, TableOf
<1>12. Laid(e, g)
  <2>1. ASSUME NEW k \in Ids(g)
        PROVE  /\ DOMAIN e.lazy[k] = {"table", "previous", "added", "calculated"}
               /\ e.lazy[k].table \in 0..Len(e.tables)
               /\ e.lazy[k].previous \in 0..(k - 1)
    <3>1. CASE k = m
      BY <1>2, <1>3, <1>7, <1>8, <1>9, <3>1
    <3>2. CASE k # m
      BY <1>2, <1>3, <1>7, <1>8, <3>2 DEF Laid
    <3> QED BY <3>1, <3>2
  <2> QED BY <1>3, <1>6, <1>7, <1>8, <2>1 DEF Laid
<1>13. ASSUME NEW k \in Ids(g), HasTable(e, k), Used(g, U, k)
       PROVE  Same(TableOf(e, k), g[k].table)
  BY <1>1, <1>10, <1>11, <1>13 DEF Sides
<1>14. ASSUME NEW k \in Ids(g), ~HasTable(e, k) PROVE Continues(e, g, U, k)
  <2>1. k # m /\ ~HasTable(h, k) /\ e.lazy[k] = h.lazy[k]
    BY <1>10, <1>11, <1>14
  <2>2. Continues(h, g, U, k)
    BY <2>1 DEF Sides
  <2>3. PICK p : p = h.lazy[k].previous
    OBVIOUS
  <2>4. p # 0 => p \in Ids(g)
    BY <1>3, <2>3 DEF Laid, Ids
  <2>5. p # 0 /\ g[p].unique => ~HasTable(e, p) /\ p \notin U
    BY <1>11, <2>2, <2>3, <2>4 DEF Continues, Used
  <2> QED BY <2>1, <2>2, <2>3, <2>5 DEF Continues
<1>15. ASSUME NEW k \in Ids(g), NEW l \in Ids(g), k # l, Used(g, U, k), Used(g, U, l), HasTable(e, k)
       PROVE  e.lazy[k].table # e.lazy[l].table
  <2> DEFINE Old(j) == e.lazy[j].table <= Len(h.tables) /\ e.lazy[j].table \in Nat
  <2>4. ASSUME NEW j \in Ids(g), j # m PROVE Old(j)
    <3>1. e.lazy[j] = h.lazy[j] /\ h.lazy[j].table \in 0..Len(h.tables)
      BY <1>3, <1>7, <2>4 DEF Laid
    <3> QED BY <1>8, <3>1
  <2>5. e.lazy[m].table = n /\ ~(n <= Len(h.tables))
    BY <1>2, <1>7, <1>8, <1>9
  <2>1. CASE k = m
    BY <1>15, <2>1, <2>4, <2>5
  <2>2. CASE l = m
    BY <1>15, <2>2, <2>4, <2>5
  <2>3. CASE k # m /\ l # m
    BY <1>11, <1>15, <2>3 DEF Sides
  <2> QED BY <2>1, <2>2, <2>3
<1> QED BY <1>10, <1>12, <1>13, <1>14, <1>15 DEF Sides

\* So it does when it may have one already.
LEMMA WithTableSides ==
  ASSUME NEW h, NEW g, NEW U, Sides(h, g, U), NEW m \in Ids(g), Used(g, U, m),
         NEW e, e = WithTable(h, m)
  PROVE  Sides(e, g, U) /\ HasTable(e, m)
<1>1. CASE HasTable(h, m)
  BY <1>1 DEF WithTable
<1>2. CASE ~HasTable(h, m)
  <2>1. e = AllocateTable(h, m)
    BY <1>2 DEF WithTable
  <2> QED BY <1>2, <2>1, AllocatedSides
<1> QED BY <1>1, <1>2

\* Map::Get and Map::GetOwnPropertyNames build the table if they need it.
LEMMA LookedSides ==
  ASSUME NEW h, NEW g, NEW U, Sides(h, g, U), NEW m \in Ids(g), Used(g, U, m), NEW n
  PROVE  Sides(Looked(h, m, n), g, U) /\ Sides(Listed(h, m), g, U)
<1>1. ~HasTable(h, m) => Sides(AllocateTable(h, m), g, U)
  <2>1. PICK e : e = AllocateTable(h, m)
    OBVIOUS
  <2> QED BY <2>1, AllocatedSides
<1> QED BY <1>1 DEF Looked, Listed, Needs

\* A map that is used counts its slots, by its table or as it was made.
LEMMA SlotsCounted ==
  ASSUME NEW h, NEW g, NEW U, Sides(h, g, U), NEW m \in Ids(g), Used(g, U, m)
  PROVE  SlotsSize(h, m, g[m].deleted) = GetSlotsSize(g[m])
<1>1. CASE HasTable(h, m)
  <2>1. DOMAIN TableOf(h, m) = DOMAIN g[m].table
    BY <1>1 DEF Sides, Same
  <2> QED BY <1>1, <2>1 DEF SlotsSize, GetSlotsSize
<1>2. CASE ~HasTable(h, m)
  BY <1>2 DEF Sides, Continues, SlotsSize
<1> QED BY <1>1, <1>2

\* What the tables depend on.
Alike(r, s) == s.table = r.table /\ s.unique = r.unique /\ GetSlotsSize(s) = GetSlotsSize(r)

\* No object gets a unique map that it did not have.
Left(g, U, V) == \A k \in Ids(g) : k \in V /\ g[k].unique => k \in U

\* Flattening, prototypes, flags and transitions do not show in the tables.
LEMMA AlikeSides ==
  ASSUME NEW h, NEW g, NEW U, Sides(h, g, U), NEW f, Len(f) = Len(g),
         \A k \in Ids(g) : Alike(g[k], f[k]), NEW V, Left(g, U, V)
  PROVE  Sides(h, f, V)
<1>1. Ids(f) = Ids(g)
  BY DEF Ids
<1>2. \A k \in Ids(g) : Used(f, V, k) => Used(g, U, k)
  BY DEF Used, Left, Alike
<1>3. Laid(h, f)
  BY <1>1 DEF Sides, Laid
<1>4. ASSUME NEW k \in Ids(g), ~HasTable(h, k) PROVE Continues(h, f, V, k)
  <2>1. Continues(h, g, U, k)
    BY <1>4 DEF Sides
  <2>2. PICK p : p = h.lazy[k].previous
    OBVIOUS
  <2>3. p # 0 => p \in Ids(g)
    BY <2>2 DEF Sides, Laid, Ids
  <2>4. Alike(g[k], f[k]) /\ (p # 0 => Alike(g[p], f[p]))
    BY <2>3
  <2>5. p # 0 /\ f[p].unique => ~HasTable(h, p) /\ p \notin V
    BY <2>1, <2>2, <2>3, <2>4 DEF Continues, Alike, Left
  <2> QED BY <2>1, <2>2, <2>4, <2>5 DEF Continues, Alike
<1> QED BY <1>1, <1>2, <1>3, <1>4 DEF Sides, Alike

\* One record more, for a new map.
Lengthened(h, b) == [h EXCEPT !.lazy = Append(@, b)]

\* The others are as they were.
LEMMA AppendedEntry ==
  ASSUME NEW h, NEW g, Laid(h, g), NEW b, NEW n, n = Len(g) + 1,
         NEW e, e = Lengthened(h, b)
  PROVE  /\ e.lazy = Append(h.lazy, b) /\ e.tables = h.tables /\ DOMAIN e = {"lazy", "tables"}
         /\ Heap(e.lazy) /\ Len(e.lazy) = n /\ e.lazy[n] = b
         /\ \A k \in Ids(g) : e.lazy[k] = h.lazy[k]
<1>1. e.lazy = Append(h.lazy, b) /\ e.tables = h.tables /\ DOMAIN e = {"lazy", "tables"}
  BY DEF Laid, Lengthened
<1>2. /\ Heap(e.lazy) /\ Len(e.lazy) = n /\ e.lazy[n] = b
      /\ \A k \in Ids(g) : e.lazy[k] = h.lazy[k]
  <2>1. PICK z : z = h.lazy
    OBVIOUS
  <2>2. Heap(z) /\ e.lazy = Append(z, b) /\ Len(z) = Len(g) /\ Ids(z) = Ids(g)
    BY <1>1, <2>1 DEF Laid, Ids
  <2>3. PICK y : y = e.lazy
    OBVIOUS
  <2>4. /\ Heap(y) /\ Len(y) = Len(z) + 1 /\ y[Len(z) + 1] = b
        /\ \A k \in Ids(z) : y[k] = z[k]
    <3>1. y = Append(z, b) /\ Heap(z)
      BY <2>2, <2>3
    <3> QED BY ONLY <3>1, AppendHeap
  <2> QED BY <2>1, <2>2, <2>3, <2>4
<1> QED BY <1>1, <1>2

\* A map that is appended, and has no table or that of a map that is left.
LEMMA AppendedSides ==
  ASSUME NEW h, NEW g, NEW U, Sides(h, g, U), NEW m \in Ids(g), Used(g, U, m),
         NEW f, Len(f) = Len(g) + 1, \A k \in Ids(g) : Alike(g[k], f[k]),
         NEW V, Left(g, U, V), NEW n, n = Len(g) + 1,
         NEW b, DOMAIN b = {"table", "previous", "added", "calculated"}, b.previous = m,
         NEW e, e = Lengthened(h, b),
         b.table = 0 => Continues(e, f, V, n),
         b.table # 0 => /\ b.table = h.lazy[m].table /\ g[m].unique /\ m \notin V
                        /\ f[n].table = g[m].table
  PROVE  Sides(e, f, V) /\ e.lazy[n] = b /\ e.tables = h.tables
<1>1. /\ Laid(h, g) /\ Len(g) \in Nat /\ n \in Nat /\ m \in 1..(n - 1)
      /\ Ids(f) = Ids(g) \cup {n} /\ n \notin Ids(g)
  <2>1. Laid(h, g)
    BY DEF Sides
  <2>2. Len(g) \in Nat
    BY <2>1 DEF Laid
  <2> QED BY <2>1, <2>2 DEF Ids
<1>2. e.lazy = Append(h.lazy, b) /\ e.tables = h.tables /\ DOMAIN e = {"lazy", "tables"}
  BY <1>1, AppendedEntry
<1>3. /\ Heap(e.lazy) /\ Len(e.lazy) = n /\ e.lazy[n] = b
      /\ \A k \in Ids(g) : e.lazy[k] = h.lazy[k]
  BY <1>1, AppendedEntry
<1>4. \A k \in Ids(g) : HasTable(e, k) = HasTable(h, k) /\ TableOf(e, k) = TableOf(h, k)
  BY <1>2, <1>3 DEF HasTable, TableOf
<1>5. \A k \in Ids(g) : Used(f, V, k) => Used(g, U, k)
  BY DEF Used, Left, Alike
<1>6. b.table # 0 => /\ HasTable(h, m) /\ TableOf(e, n) = TableOf(h, m)
                     /\ Same(TableOf(e, n), f[n].table)
  BY <1>2, <1>3 DEF HasTable, TableOf, Sides
<1>7. Laid(e, f)
  <2>1. ASSUME NEW k \in Ids(f)
        PROVE  /\ DOMAIN e.lazy[k] = {"table", "previous", "added", "calculated"}
               /\ e.lazy[k].table \in 0..Len(e.tables)
               /\ e.lazy[k].previous \in 0..(k - 1)
    <3>1. CASE k = n
      <4>1. h.lazy[m].table \in 0..Len(h.tables) /\ 0 \in 0..Len(h.tables)
        BY <1>1, SequenceIsHeap DEF Laid, Heap
      <4> QED BY <1>1, <1>2, <1>3, <3>1, <4>1
    <3>2. CASE k # n
      BY <1>1, <1>2, <1>3, <3>2 DEF Laid
    <3> QED BY <3>1, <3>2
  <2> QED BY <1>1, <1>2, <1>3, <2>1 DEF Laid
<1>8. ASSUME NEW k \in Ids(f), HasTable(e, k), Used(f, V, k)
      PROVE  Same(TableOf(e, k), f[k].table)
  <2>1. CASE k = n
    BY <1>3, <1>6, <1>8, <2>1 DEF HasTable
  <2>2. CASE k # n
    BY <1>1, <1>4, <1>5, <1>8, <2>2 DEF Sides, Alike
  <2> QED BY <2>1, <2>2
<1>9. ASSUME NEW k \in Ids(f), ~HasTable(e, k) PROVE Continues(e, f, V, k)
  <2>1. CASE k = n
    BY <1>3, <1>9, <2>1 DEF HasTable
  <2>2. CASE k # n
    <3>1. k \in Ids(g) /\ Continues(h, g, U, k) /\ e.lazy[k] = h.lazy[k]
      BY <1>1, <1>3, <1>4, <1>9, <2>2 DEF Sides
    <3>2. PICK p : p = h.lazy[k].previous
      OBVIOUS
    <3>3. p # 0 => p \in Ids(g)
      BY <1>1, <3>1, <3>2 DEF Laid, Ids
    <3>4. Alike(g[k], f[k]) /\ (p # 0 => Alike(g[p], f[p]))
      BY <3>1, <3>3
    <3>5. p # 0 /\ f[p].unique => ~HasTable(e, p) /\ p \notin V
      BY <1>4, <3>1, <3>2, <3>3, <3>4 DEF Continues, Alike, Left
    <3>6. PICK d : d = h.lazy[k].added
      OBVIOUS
    <3>7. /\ h.lazy[k].calculated = GetSlotsSize(f[k])
          /\ p = 0 => Same(d, f[k].table)
      BY <3>1, <3>2, <3>4, <3>6 DEF Continues, Alike
    <3>8. p # 0 =>
            /\ DOMAIN f[k].table = DOMAIN f[p].table \cup DOMAIN d
            /\ \A x \in DOMAIN f[p].table : f[k].table[x] = f[p].table[x]
            /\ \A x \in DOMAIN d : x \notin DOMAIN f[p].table /\ f[k].table[x] = d[x]
      BY <3>1, <3>2, <3>4, <3>6 DEF Continues, Alike
    <3> QED BY ONLY <3>1, <3>2, <3>5, <3>6, <3>7, <3>8 DEF Continues
  <2> QED BY <2>1, <2>2
<1>10. ASSUME NEW k \in Ids(g), Used(f, V, k), b.table # 0 PROVE h.lazy[k].table # b.table
  <2>1. k # m
    BY <1>10 DEF Used, Alike
  <2> QED BY <1>5, <1>6, <1>10, <2>1 DEF Sides
<1>11. ASSUME NEW k \in Ids(f), NEW l \in Ids(f), k # l, Used(f, V, k), Used(f, V, l), HasTable(e, k)
       PROVE  e.lazy[k].table # e.lazy[l].table
  <2>1. CASE k = n
    BY <1>1, <1>3, <1>10, <1>11, <2>1 DEF HasTable
  <2>2. CASE l = n
    BY <1>1, <1>3, <1>10, <1>11, <2>2 DEF HasTable
  <2>3. CASE k # n /\ l # n
    <3>1. k \in Ids(g) /\ l \in Ids(g) /\ e.lazy[k] = h.lazy[k] /\ e.lazy[l] = h.lazy[l]
      BY <1>1, <1>3, <1>11, <2>3
    <3>2. Used(g, U, k) /\ Used(g, U, l) /\ HasTable(h, k)
      BY <1>4, <1>5, <1>11, <3>1
    <3> QED BY <1>11, <3>1, <3>2 DEF Sides
  <2> QED BY <2>1, <2>2, <2>3
<1> QED BY <1>2, <1>3, <1>7, <1>8, <1>9, <1>11 DEF Sides

\* Another table in the place of a map's.
WithEntries(h, m, t) == [h EXCEPT !.tables[h.lazy[m].table] = t]

\* A unique map that is used has its table to itself, so it can change.
LEMMA WrittenSides ==
  ASSUME NEW h, NEW g, NEW U, Sides(h, g, U), NEW m \in Ids(g), Used(g, U, m),
         g[m].unique, HasTable(h, m),
         NEW f, Len(f) = Len(g), f[m].unique, \A k \in Ids(g) : k # m => f[k] = g[k],
         NEW t, Same(t, f[m].table),
         NEW e, e = WithEntries(h, m, t)
  PROVE  Sides(e, f, U)
<1>1. Laid(h, g) /\ Ids(f) = Ids(g)
  BY DEF Sides, Laid, Ids
<1>2. PICK n : n = h.lazy[m].table
  OBVIOUS
<1>3. n \in Ids(h.tables)
  BY <1>1, <1>2, SequenceIsHeap DEF HasTable, Laid, Heap, Ids
<1>4. e.lazy = h.lazy /\ e.tables = [h.tables EXCEPT ![n] = t] /\ DOMAIN e = {"lazy", "tables"}
  BY <1>1, <1>2 DEF Laid, WithEntries
<1>5. /\ Heap(e.tables) /\ Len(e.tables) = Len(h.tables) /\ e.tables[n] = t
      /\ \A i \in Ids(h.tables) : i # n => e.tables[i] = h.tables[i]
  <2>1. PICK z : z = h.tables
    OBVIOUS
  <2>2. Heap(z) /\ n \in Ids(z) /\ e.tables = [z EXCEPT ![n] = t]
    BY <1>1, <1>3, <1>4, <2>1 DEF Laid
  <2>3. PICK y : y = e.tables
    OBVIOUS
  <2>4. y = Replaced(z, n, t) /\ Heap(z) /\ n \in Ids(z)
    BY <2>2, <2>3 DEF Replaced
  <2>5. /\ Heap(y) /\ Len(y) = Len(z) /\ y[n] = t
        /\ \A i \in Ids(z) : i # n => y[i] = z[i]
    BY ONLY <2>4, ReplacedAt
  <2> QED BY <2>1, <2>3, <2>5
<1>6. Laid(e, f)
  BY <1>1, <1>4, <1>5 DEF Laid
<1>7. \A k \in Ids(g) : HasTable(e, k) = HasTable(h, k) /\ (Used(f, U, k) <=> Used(g, U, k))
  BY <1>4 DEF HasTable, Used
<1>8. ASSUME NEW k \in Ids(g), HasTable(e, k), Used(f, U, k)
      PROVE  Same(TableOf(e, k), f[k].table)
  <2>1. CASE k = m
    BY <1>2, <1>4, <1>5, <2>1 DEF TableOf
  <2>2. CASE k # m
    <3>1. HasTable(h, k) /\ Used(g, U, k) /\ f[k] = g[k]
      BY <1>7, <1>8, <2>2
    <3>2. h.lazy[k].table # n /\ h.lazy[k].table \in Ids(h.tables)
      BY <1>1, <1>2, <2>2, <3>1 DEF Sides, Laid, HasTable, Ids
    <3>3. TableOf(e, k) = TableOf(h, k)
      BY <1>4, <1>5, <3>2 DEF TableOf
    <3> QED BY <3>1, <3>3 DEF Sides
  <2> QED BY <2>1, <2>2
<1>9. ASSUME NEW k \in Ids(g), ~HasTable(e, k) PROVE Continues(e, f, U, k)
  <2>1. Continues(h, g, U, k) /\ k # m
    BY <1>7, <1>9 DEF Sides
  <2>2. PICK p : p = h.lazy[k].previous
    OBVIOUS
  <2>3. p # 0 => p \in Ids(g) /\ p # m
    BY <1>1, <2>1, <2>2 DEF Laid, Ids, Continues
  <2>4. f[k] = g[k] /\ (p # 0 => f[p] = g[p] /\ HasTable(e, p) = HasTable(h, p))
    BY <1>7, <2>1, <2>3
  <2> QED BY <1>4, <2>1, <2>2, <2>4 DEF Continues
<1> QED BY <1>1, <1>4, <1>6, <1>7, <1>8, <1>9 DEF Sides

-----------------------------------------------------------------------------
(* Transitions                                                             *)

\* The objects that keep a unique map after a move from m to another map: none
\* has m, if m was unique.
Departs(m, U, V) == Left(maps, U, V) /\ (maps[m].unique => m \notin V)

\* A new unique map, and what it starts with.
NewTables(h, m) == Fresh(h, m, TRUE)
NewMap(m) == Derived(maps[m], TRUE)

\* Map::NewUniqueMap(previous): the table is that of a unique map before it.
LEMMA FreshSides ==
  ASSUME NEW h, NEW U, Sides(h, maps, U), NEW m \in LiveMaps, Used(maps, U, m),
         NEW V, Departs(m, U, V), NEW n, n = Len(maps) + 1,
         NEW f, Len(f) = n, \A k \in LiveMaps : Alike(maps[k], f[k]),
         f[n].unique, f[n].table = maps[m].table, GetSlotsSize(f[n]) = GetSlotsSize(maps[m]),
         NEW e, e = NewTables(h, m)
  PROVE  Sides(e, f, V) /\ Newest(h) + 1 = n /\ Newest(e) = n
<1>1. Laid(h, maps) /\ LiveMaps = Ids(maps) /\ Len(maps) \in Nat /\ n \in Nat
  BY DEF Sides, Laid, Ids, LiveMaps
<1>2. PICK b : b = [table |-> IF maps[m].unique THEN h.lazy[m].table ELSE 0,
                    previous |-> m, added |-> <<>>,
                    calculated |-> SlotsSize(h, m, maps[m].deleted)]
  OBVIOUS
<1>3. e = Lengthened(h, b)
  BY <1>2 DEF NewTables, Fresh, Lengthened
<1>4. /\ DOMAIN b = {"table", "previous", "added", "calculated"} /\ b.previous = m
      /\ b.table = (IF maps[m].unique THEN h.lazy[m].table ELSE 0) /\ b.added = <<>>
      /\ b.calculated = GetSlotsSize(f[n])
  <2>1. SlotsSize(h, m, maps[m].deleted) = GetSlotsSize(maps[m])
    BY <1>1, SlotsCounted
  <2> QED BY <1>2, <2>1
<1>5. /\ e.tables = h.tables /\ Len(e.lazy) = n /\ e.lazy[n] = b
      /\ \A k \in LiveMaps : e.lazy[k] = h.lazy[k]
  <2>1. Laid(h, maps) /\ LiveMaps = Ids(maps) /\ n = Len(maps) + 1
    BY <1>1
  <2> QED BY ONLY <1>3, <2>1, AppendedEntry
<1>6. ASSUME b.table = 0 PROVE Continues(e, f, V, n)
  <2>1. m # 0 /\ Alike(maps[m], f[m]) /\ e.lazy[m] = h.lazy[m]
    <3>1. m # 0
      BY <1>1 DEF Ids
    <3> QED BY <1>5, <3>1
  <2>2. f[m].unique => ~HasTable(e, m) /\ m \notin V
    BY <1>4, <1>6, <2>1 DEF Departs, Alike, HasTable
  <2>3. DOMAIN b.added = {}
    BY <1>4
  <2> QED BY <1>4, <1>5, <2>1, <2>2, <2>3 DEF Continues, Alike
<1>7. b.table # 0 => /\ b.table = h.lazy[m].table /\ maps[m].unique /\ m \notin V
                     /\ f[n].table = maps[m].table
  BY <1>4 DEF Departs
<1>8. Sides(e, f, V)
  <2>1. m \in Ids(maps) /\ Left(maps, U, V) /\ Len(f) = Len(maps) + 1
        /\ \A k \in Ids(maps) : Alike(maps[k], f[k])
    BY <1>1 DEF Departs
  <2>2. /\ Sides(h, maps, U) /\ Used(maps, U, m) /\ n = Len(maps) + 1
        /\ b.table = 0 => Continues(e, f, V, n)
    BY <1>6
  <2> QED BY ONLY <1>3, <1>4, <1>7, <2>1, <2>2, AppendedSides
<1>9. Newest(h) = Len(maps) /\ Newest(e) = n
  BY <1>1, <1>5 DEF Newest, Laid
<1> QED BY <1>8, <1>9

\* A map that is asked for a transition, and that its object leaves for the next.
Asked(h, U, m) == HeapOK /\ Sides(h, maps, U) /\ m \in LiveMaps /\ Used(maps, U, m)
NextId == Len(maps) + 1
Renews(m, U, V) == Departs(m, U, V) /\ NextId \in V

\* The heap of maps with it, and the tables with one for it.
NewHeap(m) == Append(maps, NewMap(m))
NewTabled(h, m) == WithTable(NewTables(h, m), NextId)

\* The heap of maps with one more.
Longer(f, r) ==
  /\ Heap(f) /\ Len(f) = NextId /\ NextId \in Ids(f) /\ NextId \notin LiveMaps
  /\ Ids(f) = LiveMaps \cup {NextId} /\ f[NextId] = r
  /\ \A k \in LiveMaps : f[k] = maps[k]

\* A map at the end of the heap leaves the others.
LEMMA HeapAppended ==
  ASSUME HeapOK, NEW r
  PROVE  Longer(Append(maps, r), r)
<1> DEFINE f == Append(maps, r)
<1>1. Heap(maps)
  BY DEF HeapOK, Typed
<1>2. /\ Heap(f) /\ Len(f) = Len(maps) + 1 /\ Len(maps) \in Nat /\ f[Len(maps) + 1] = r
      /\ \A k \in LiveMaps : f[k] = maps[k]
  BY <1>1, AppendHeap DEF LiveMaps, Ids
<1> HIDE DEF f
<1>3. Longer(f, r)
  BY <1>2 DEF Longer, NextId, LiveMaps, Ids
<1> QED BY <1>3 DEF f

\* A new unique map with the table of the one before it.
LEMMA RenewedSides ==
  ASSUME NEW h, NEW U, NEW m, Asked(h, U, m), NEW V, Renews(m, U, V), NEW r, r.unique,
         r.table = maps[m].table, r.deleted = maps[m].deleted
  PROVE  /\ Sides(NewTables(h, m), Append(maps, r), V)
         /\ Newest(h) + 1 = NextId /\ Newest(NewTables(h, m)) = NextId
<1>1. PICK f, n, e : f = Append(maps, r) /\ n = Len(maps) + 1 /\ e = NewTables(h, m)
  OBVIOUS
<1>2. n = NextId
  BY <1>1 DEF NextId
<1>3. /\ HeapOK /\ Sides(h, maps, U) /\ m \in LiveMaps /\ Used(maps, U, m) /\ Departs(m, U, V)
  BY DEF Asked, Renews
<1>4. Len(f) = n /\ f[n] = r /\ \A k \in LiveMaps : f[k] = maps[k]
  <2>1. Longer(f, r)
    BY <1>1, <1>3, HeapAppended
  <2> QED BY <1>2, <2>1 DEF Longer
<1>5. \A k \in LiveMaps : Alike(maps[k], f[k])
  BY <1>4 DEF Alike
<1>6. f[n].unique /\ f[n].table = maps[m].table /\ GetSlotsSize(f[n]) = GetSlotsSize(maps[m])
  BY <1>4 DEF GetSlotsSize
<1>7. n = Len(maps) + 1 /\ e = NewTables(h, m) /\ Len(f) = n
  BY <1>1, <1>4
<1>8. Sides(e, f, V)
  BY ONLY <1>3, <1>5, <1>6, <1>7, FreshSides
<1>9. Newest(h) + 1 = n /\ Newest(e) = n
  BY ONLY <1>3, <1>5, <1>6, <1>7, FreshSides
<1> QED BY <1>1, <1>2, <1>8, <1>9

\* What the map made by it has.
LEMMA NewMapIs ==
  ASSUME HeapOK, NEW m \in LiveMaps
  PROVE  /\ DOMAIN NewMap(m) = MapFields /\ NewMap(m).unique
         /\ \A x \in {"table", "deleted", "prototype", "indexed"} : NewMap(m)[x] = maps[m][x]
<1>1. DOMAIN maps[m] = MapFields
  BY DEF HeapOK, Typed, LiveMaps, Ids, IsMap
<1> QED BY <1>1 DEF NewMap, Derived, MapFields

\* The new unique map of a transition that changes entries gets a table.
LEMMA NewTableIs ==
  ASSUME NEW h, NEW U, NEW m, Asked(h, U, m), NEW V, Renews(m, U, V)
  PROVE  /\ Newest(h) + 1 = NextId /\ Newest(NewTables(h, m)) = NextId
         /\ Newest(NewTabled(h, m)) = NextId
         /\ Sides(NewTabled(h, m), NewHeap(m), V)
         /\ HasTable(NewTabled(h, m), NextId)
         /\ Same(TableOf(NewTabled(h, m), NextId), maps[m].table)
         /\ SlotsSize(NewTabled(h, m), NextId, maps[m].deleted) = GetSlotsSize(maps[m])
<1>1. PICK f, d, x, r : /\ r = NewMap(m) /\ f = Append(maps, r) /\ d = NewTables(h, m)
                        /\ x = WithTable(d, NextId)
  OBVIOUS
<1>2. HeapOK /\ m \in LiveMaps
  BY DEF Asked
<1>3. r.unique /\ r.table = maps[m].table /\ r.deleted = maps[m].deleted
  BY <1>1, <1>2, NewMapIs
<1>4. Sides(d, f, V) /\ Newest(h) + 1 = NextId /\ Newest(d) = NextId
  BY <1>1, <1>3, RenewedSides
<1>5. Len(f) = NextId /\ NextId \in Ids(f) /\ f[NextId] = r
  <2>1. Longer(f, r)
    BY <1>1, <1>2, HeapAppended
  <2> QED BY <2>1 DEF Longer
<1>6. Used(f, V, NextId)
  BY DEF Used, Renews
<1>7. Sides(x, f, V) /\ HasTable(x, NextId)
  BY <1>1, <1>4, <1>5, <1>6, WithTableSides
<1>8. Same(TableOf(x, NextId), maps[m].table)
  BY <1>3, <1>5, <1>6, <1>7 DEF Sides
<1>9. SlotsSize(x, NextId, maps[m].deleted) = GetSlotsSize(maps[m])
  <2>1. SlotsSize(x, NextId, f[NextId].deleted) = GetSlotsSize(f[NextId])
    BY <1>5, <1>6, <1>7, SlotsCounted
  <2>2. GetSlotsSize(f[NextId]) = GetSlotsSize(maps[m])
    BY <1>3, <1>5 DEF GetSlotsSize
  <2> QED BY <1>3, <1>5, <2>1, <2>2
<1>10. Newest(x) = NextId
  BY <1>5, <1>7 DEF Sides, Laid, Newest
<1>11. x = NewTabled(h, m) /\ f = NewHeap(m) /\ d = NewTables(h, m)
  BY <1>1 DEF NewTabled, NewHeap
<1> QED BY <1>4, <1>7, <1>8, <1>9, <1>10, <1>11

\* It is the new map that is changed, and the table that goes with it.
LEMMA ChangedSides ==
  ASSUME NEW h, NEW U, NEW m, Asked(h, U, m), NEW V, Renews(m, U, V),
         NEW r, r.unique, NEW t, Same(t, r.table)
  PROVE  Sides(WithEntries(NewTabled(h, m), NextId, t), Append(maps, r), V)
<1>1. PICK f, g, x, e : /\ f = NewHeap(m) /\ g = Append(maps, r) /\ x = NewTabled(h, m)
                        /\ e = WithEntries(x, NextId, t)
  OBVIOUS
<1>2. Sides(x, f, V) /\ HasTable(x, NextId)
  BY <1>1, NewTableIs
<1>3. HeapOK /\ m \in LiveMaps
  BY DEF Asked
<1>4. /\ Len(f) = NextId /\ NextId \in Ids(f) /\ Ids(f) = LiveMaps \cup {NextId}
      /\ f[NextId] = NewMap(m) /\ \A k \in LiveMaps : f[k] = maps[k]
  <2>1. Longer(f, NewMap(m))
    BY <1>1, <1>3, HeapAppended DEF NewHeap
  <2> QED BY <2>1 DEF Longer
<1>5. Len(g) = NextId /\ g[NextId] = r /\ \A k \in LiveMaps : g[k] = maps[k]
  <2>1. Longer(g, r)
    BY <1>1, <1>3, HeapAppended
  <2> QED BY <2>1 DEF Longer
<1>6. f[NextId].unique
  BY <1>3, <1>4, NewMapIs
<1>7. Len(g) = Len(f) /\ g[NextId].unique /\ Same(t, g[NextId].table)
      /\ \A k \in Ids(f) : k # NextId => g[k] = f[k]
  BY <1>4, <1>5
<1>8. Used(f, V, NextId)
  BY DEF Used, Renews
<1>9. Sides(e, g, V)
  BY ONLY <1>1, <1>2, <1>4, <1>6, <1>7, <1>8, WrittenSides
<1> QED BY <1>1, <1>9

\* A unique map that its object keeps is changed where it is.
LEMMA InPlaceSides ==
  ASSUME HeapOK, NEW h, NEW U, Sides(h, maps, U), NEW m \in LiveMaps, HasTable(h, m),
         maps[m].unique, NEW V, Left(maps, U, V), m \in V,
         NEW r, r.unique, NEW t, Same(t, r.table), NEW g, g = [maps EXCEPT ![m] = r],
         NEW e, e = WithEntries(h, m, t)
  PROVE  Sides(e, g, V)
<1>1. Heap(maps) /\ m \in Ids(maps)
  BY DEF HeapOK, Typed, LiveMaps, Ids
<1>2. g = Replaced(maps, m, r)
  BY DEF Replaced
<1>3. Len(g) = Len(maps) /\ g[m] = r
  BY ONLY <1>1, <1>2, ReplacedAt
<1>4. \A k \in Ids(maps) : k # m => g[k] = maps[k]
  BY ONLY <1>1, <1>2, ReplacedAt
<1>5. Sides(h, maps, V)
  <2>1. \A k \in Ids(maps) : Alike(maps[k], maps[k])
    BY DEF Alike
  <2>2. Sides(h, maps, U) /\ Left(maps, U, V) /\ Len(maps) = Len(maps)
    OBVIOUS
  <2> QED BY ONLY <2>1, <2>2, AlikeSides
<1>6. Used(maps, V, m) /\ maps[m].unique /\ HasTable(h, m) /\ g[m].unique /\ Same(t, g[m].table)
  BY <1>3 DEF Used
<1>7. e = WithEntries(h, m, t)
  OBVIOUS
<1> QED BY ONLY <1>1, <1>3, <1>4, <1>5, <1>6, <1>7, WrittenSides

\* The newest map's table without a name, and with other attributes of it.
Cut(x, n) ==
  [x EXCEPT !.tables[x.lazy[Newest(x)].table] = [y \in DOMAIN @ \ {n} |-> @[y]]]
Marked(x, n, a) ==
  [x EXCEPT !.tables[x.lazy[Newest(x)].table][n].attributes = a]

\* DeletePropertyTransition
LEMMA DeletedSides ==
  ASSUME NEW h, NEW U, NEW m, Asked(h, U, m), NEW V, Renews(m, U, V),
         NEW n \in DOMAIN maps[m].table
  PROVE  Sides(DeleteFrom(h, m, n), DeletePropertyTransition(m, n).maps, V)
<1>1. PICK x, r, t : /\ x = NewTabled(h, m) /\ r = Shrink(NewMap(m), n)
                     /\ t = [y \in DOMAIN TableOf(x, NextId) \ {n} |-> TableOf(x, NextId)[y]]
  OBVIOUS
<1>2. /\ Newest(h) + 1 = NextId /\ Newest(x) = NextId
      /\ Same(TableOf(x, NextId), maps[m].table)
  BY <1>1, NewTableIs
<1>3. DeleteFrom(h, m, n) = WithEntries(x, NextId, t)
  <2>1. DeleteFrom(h, m, n) = Cut(x, n)
    BY <1>1, <1>2 DEF DeleteFrom, Cut, NewTables, NewTabled
  <2> QED BY <1>1, <1>2, <2>1 DEF Cut, WithEntries, TableOf
<1>4. r.unique /\ Same(t, r.table)
  <2>1. HeapOK /\ m \in LiveMaps
    BY DEF Asked
  <2>2. DOMAIN NewMap(m) = MapFields /\ NewMap(m).unique /\ NewMap(m).table = maps[m].table
    BY <2>1, NewMapIs
  <2>3. r.unique /\ r.table = [y \in DOMAIN maps[m].table \ {n} |-> maps[m].table[y]]
    BY <1>1, <2>2 DEF Shrink, MapFields
  <2> QED BY <1>1, <1>2, <2>3 DEF Same
<1>5. DeletePropertyTransition(m, n).maps = Append(maps, r)
  BY <1>1 DEF DeletePropertyTransition, Appended, Moved, NewMap
<1>6. Sides(WithEntries(x, NextId, t), Append(maps, r), V)
  BY <1>1, <1>4, ChangedSides
<1> QED BY <1>3, <1>5, <1>6

\* ChangeAttributesTransition
LEMMA AttributesSides ==
  ASSUME NEW h, NEW U, NEW m, Asked(h, U, m), NEW V, Renews(m, U, V),
         NEW n \in DOMAIN maps[m].table, NEW a
  PROVE  Sides(ChangeAttributesIn(h, m, n, a), ChangeAttributesTransition(m, n, a).maps, V)
<1>1. PICK x, r, t : /\ x = NewTabled(h, m) /\ r = [NewMap(m) EXCEPT !.table[n].attributes = a]
                     /\ t = [TableOf(x, NextId) EXCEPT ![n].attributes = a]
  OBVIOUS
<1>2. /\ Newest(h) + 1 = NextId /\ Newest(x) = NextId
      /\ Same(TableOf(x, NextId), maps[m].table)
  BY <1>1, NewTableIs
<1>3. ChangeAttributesIn(h, m, n, a) = WithEntries(x, NextId, t)
  <2>1. ChangeAttributesIn(h, m, n, a) = Marked(x, n, a)
    BY <1>1, <1>2 DEF ChangeAttributesIn, Marked, NewTables, NewTabled
  <2> QED BY <1>1, <1>2, <2>1 DEF Marked, WithEntries, TableOf
<1>4. r.unique /\ Same(t, r.table)
  <2>1. HeapOK /\ m \in LiveMaps
    BY DEF Asked
  <2>2. DOMAIN NewMap(m) = MapFields /\ NewMap(m).unique /\ NewMap(m).table = maps[m].table
    BY <2>1, NewMapIs
  <2>3. r.unique /\ r.table = [maps[m].table EXCEPT ![n].attributes = a]
    BY <1>1, <2>2 DEF MapFields
  <2> QED BY <1>1, <1>2, <2>3 DEF Same
<1>5. ChangeAttributesTransition(m, n, a).maps = Append(maps, r)
  BY <1>1 DEF ChangeAttributesTransition, Appended, Moved, NewMap
<1>6. Sides(WithEntries(x, NextId, t), Append(maps, r), V)
  BY <1>1, <1>4, ChangedSides
<1> QED BY <1>3, <1>5, <1>6

\* A new entry is the same beside any table of the map.
OffsetIn(r) == IF r.deleted # <<>> THEN Head(r.deleted) ELSE GetSlotsSize(r)
EntryFor(r, a) == [offset |-> OffsetIn(r), attributes |-> a]

\* The map with it.
LEMMA ExtendIs ==
  ASSUME NEW r, DOMAIN r = MapFields, NEW n, NEW a
  PROVE  /\ DOMAIN Extend(r, n, a) = MapFields
         /\ Extend(r, n, a).table = With(r.table, n, EntryFor(r, a))
         /\ Extend(r, n, a).deleted = IF r.deleted # <<>> THEN Tail(r.deleted) ELSE r.deleted
         /\ Extend(r, n, a).unique = r.unique
BY DEF Extend, MapFields, EntryFor, OffsetIn

\* An object that has m gets the map t.
Goes(m, t, U, V) == Left(maps, U, V) /\ t \in V /\ (t # m /\ maps[m].unique => m \notin V)

\* The table with it, and the map with it, that a unique map goes on as.
LEMMA EntryAdded ==
  ASSUME NEW h, NEW m \in LiveMaps, HeapOK, NEW x, NEW k, HasTable(x, k),
         Same(TableOf(x, k), maps[m].table),
         SlotsSize(x, k, maps[m].deleted) = GetSlotsSize(maps[m]), NEW n, NEW a
  PROVE  \E t, r : /\ r = Extend(NewMap(m), n, a) /\ r.unique /\ Same(t, r.table)
                   /\ ToTable(x, k, n, [offset |-> Offset(x, k, maps[m].deleted), attributes |-> a])
                        = WithEntries(x, k, t)
<1>1. PICK r, e, u : /\ r = Extend(NewMap(m), n, a) /\ e = EntryFor(NewMap(m), a) /\ u = TableOf(x, k)
  OBVIOUS
<1>2. DOMAIN NewMap(m) = MapFields /\ NewMap(m).unique /\ NewMap(m).table = maps[m].table
      /\ NewMap(m).deleted = maps[m].deleted
  BY NewMapIs
<1>3. r.unique /\ r.table = With(maps[m].table, n, e)
  BY <1>1, <1>2, ExtendIs
<1>4. GetSlotsSize(NewMap(m)) = GetSlotsSize(maps[m])
  BY <1>2 DEF GetSlotsSize
<1>5. e = [offset |-> Offset(x, k, maps[m].deleted), attributes |-> a]
  BY <1>1, <1>2, <1>4 DEF EntryFor, OffsetIn, Offset
<1>6. PICK t : t = With(u, n, e)
  OBVIOUS
<1>7. Same(t, r.table)
  BY <1>1, <1>3, <1>6 DEF With, Same
<1>8. ToTable(x, k, n, e) = WithEntries(x, k, t)
  BY <1>1, <1>6 DEF ToTable, WithEntries, TableOf
<1> QED BY <1>1, <1>3, <1>5, <1>7, <1>8

\* AddPropertyTransition of a map that goes on as a unique map: m itself or one
\* made from it.
LEMMA AddedUniqueSides ==
  ASSUME NEW h, NEW U, NEW m, Asked(h, U, m), NEW n, NEW a, NEW moved,
         moved = Uniquely(m, Extend(NewMap(m), n, a)), NEW V, Goes(m, moved.map, U, V)
  PROVE  Sides(AddToUnique(h, m, n, a), moved.maps, V)
<1>1. HeapOK /\ m \in LiveMaps /\ Sides(h, maps, U) /\ Used(maps, U, m) /\ m \in Ids(maps)
  BY DEF Asked, LiveMaps, Ids
<1>2. PICK w : w = IF maps[m].unique THEN WithTable(h, m) ELSE h
  OBVIOUS
<1>3. Sides(w, maps, U) /\ (maps[m].unique => HasTable(w, m))
  <2>1. CASE maps[m].unique
    BY <1>1, <1>2, <2>1, WithTableSides
  <2>2. CASE ~maps[m].unique
    BY <1>1, <1>2, <2>2
  <2> QED BY <2>1, <2>2
<1>4. CASE maps[m].unique /\ ~maps[m].flattened
  <2>1. moved.map = m /\ moved.maps = [maps EXCEPT ![m] = Extend(NewMap(m), n, a)]
    BY <1>4 DEF Uniquely, Moved
  <2>2. Same(TableOf(w, m), maps[m].table)
    BY <1>1, <1>3, <1>4 DEF Sides
  <2>3. SlotsSize(w, m, maps[m].deleted) = GetSlotsSize(maps[m])
    BY <1>1, <1>3, SlotsCounted
  <2>4. HasTable(w, m)
    BY <1>3, <1>4
  <2>5. PICK t, r : /\ r = Extend(NewMap(m), n, a) /\ r.unique /\ Same(t, r.table)
                    /\ ToTable(w, m, n, [offset |-> Offset(w, m, maps[m].deleted), attributes |-> a])
                         = WithEntries(w, m, t)
    BY <1>1, <2>2, <2>3, <2>4, EntryAdded
  <2>6. AddToUnique(h, m, n, a)
          = ToTable(w, m, n, [offset |-> Offset(w, m, maps[m].deleted), attributes |-> a])
    <3>1. Ours(w, m).h = w /\ Ours(w, m).map = m
      BY <1>4 DEF Ours
    <3>2. WithTable(w, m) = w
      BY <2>4 DEF WithTable
    <3> QED BY <1>2, <3>1, <3>2 DEF AddToUnique
  <2>7. Left(maps, U, V) /\ m \in V /\ maps[m].unique
    BY <1>4, <2>1 DEF Goes
  <2>8. PICK e, g : e = WithEntries(w, m, t) /\ g = [maps EXCEPT ![m] = r]
    OBVIOUS
  <2>9. Sides(e, g, V)
    BY ONLY <1>1, <1>3, <2>4, <2>5, <2>7, <2>8, InPlaceSides
  <2> QED BY <2>1, <2>5, <2>6, <2>8, <2>9
<1>5. CASE ~(maps[m].unique /\ ~maps[m].flattened)
  <2>1. moved.map = NextId /\ moved.maps = Append(maps, Extend(NewMap(m), n, a))
    BY <1>5 DEF Uniquely, Appended, Moved, NextId
  <2>2. Asked(w, U, m)
    BY <1>1, <1>3 DEF Asked
  <2>3. Renews(m, U, V)
    <3>1. NextId # m
      BY <1>1 DEF NextId, LiveMaps, Sides, Laid
    <3> QED BY <2>1, <3>1 DEF Goes, Renews, Departs
  <2>4. PICK x : x = NewTabled(w, m)
    OBVIOUS
  <2>5. HasTable(x, NextId) /\ Newest(w) + 1 = NextId
    BY <2>2, <2>3, <2>4, NewTableIs
  <2>6. /\ Same(TableOf(x, NextId), maps[m].table)
        /\ SlotsSize(x, NextId, maps[m].deleted) = GetSlotsSize(maps[m])
    BY <2>2, <2>3, <2>4, NewTableIs
  <2>7. PICK t, r : /\ r = Extend(NewMap(m), n, a) /\ r.unique /\ Same(t, r.table)
                    /\ ToTable(x, NextId, n, [offset |-> Offset(x, NextId, maps[m].deleted), attributes |-> a])
                         = WithEntries(x, NextId, t)
    BY <1>1, <2>5, <2>6, EntryAdded
  <2>8. AddToUnique(h, m, n, a)
          = ToTable(x, NextId, n, [offset |-> Offset(x, NextId, maps[m].deleted), attributes |-> a])
    <3>1. Ours(w, m).h = NewTables(w, m) /\ Ours(w, m).map = NextId
      BY <1>5, <2>5 DEF Ours, NewTables
    <3>2. WithTable(Ours(w, m).h, NextId) = x
      BY <2>4, <3>1 DEF NewTabled
    <3> QED BY <1>2, <3>1, <3>2 DEF AddToUnique
  <2>9. Sides(WithEntries(x, NextId, t), Append(maps, r), V)
    BY <2>2, <2>3, <2>4, <2>7, ChangedSides
  <2> QED BY <2>1, <2>7, <2>8, <2>9
<1> QED BY <1>4, <1>5

\* The record of tables that a new shared map gets is last.
LEMMA LastReplaced ==
  ASSUME NEW z, Heap(z), NEW b, NEW c
  PROVE  Replaced(Append(z, b), Len(z) + 1, c) = Append(z, c)
<1>1. PICK y, x, n : y = Append(z, b) /\ x = Append(z, c) /\ n = Len(z) + 1
  OBVIOUS
<1>2. /\ Heap(y) /\ Len(z) \in Nat /\ Len(y) = n /\ \A k \in Ids(z) : y[k] = z[k]
  BY <1>1, AppendHeap
<1>3. /\ Heap(x) /\ Len(x) = n /\ x[n] = c /\ \A k \in Ids(z) : x[k] = z[k]
  BY <1>1, AppendHeap
<1>4. PICK w : w = Replaced(y, n, c)
  OBVIOUS
<1>5. n \in Ids(y) /\ Ids(y) = Ids(z) \cup {n} /\ n \notin Ids(z)
  BY <1>1, <1>2 DEF Ids
<1>6. Heap(w) /\ Len(w) = n /\ w[n] = c /\ \A k \in Ids(z) : w[k] = z[k]
  BY <1>2, <1>4, <1>5, ReplacedAt
<1>7. DOMAIN w = Ids(w) /\ DOMAIN x = Ids(x) /\ w = [k \in DOMAIN w |-> w[k]]
      /\ x = [k \in DOMAIN x |-> x[k]]
  BY <1>3, <1>6, SequenceIsHeap, LenProperties DEF Heap
<1>8. Ids(w) = Ids(z) \cup {n} /\ Ids(x) = Ids(z) \cup {n}
  BY <1>3, <1>5, <1>6, <1>2 DEF Ids
<1>9. w = x
  BY <1>3, <1>6, <1>7, <1>8
<1> QED BY <1>1, <1>4, <1>9

\* The record of a new map that is m with an entry for n.
Continued(b, m, n, a) ==
  /\ DOMAIN b = {"table", "previous", "added", "calculated"}
  /\ b.table = 0 /\ b.previous = m
  /\ b.added = [x \in {n} |-> EntryFor(maps[m], a)]
  /\ b.calculated = GetSlotsSize(maps[m]) + (IF maps[m].deleted = <<>> THEN 1 ELSE 0)

\* AddToShared makes one.
LEMMA AddToSharedIs ==
  ASSUME NEW h, NEW U, NEW m, Asked(h, U, m), ~maps[m].unique, NEW n, NEW a
  PROVE  \E b : AddToShared(h, m, n, a) = Lengthened(h, b) /\ Continued(b, m, n, a)
<1>1. /\ HeapOK /\ m \in LiveMaps /\ Sides(h, maps, U) /\ Used(maps, U, m) /\ m \in Ids(maps)
      /\ Laid(h, maps)
  BY DEF Asked, LiveMaps, Ids, Sides
<1>2. SlotsSize(h, m, maps[m].deleted) = GetSlotsSize(maps[m])
  BY <1>1, SlotsCounted
<1>3. PICK z, next, entry, size, c, d :
        /\ z = h.lazy /\ next = Fresh(h, m, FALSE) /\ entry = EntryFor(maps[m], a)
        /\ size = SlotsSize(h, m, maps[m].deleted)
        /\ c = [table |-> 0, previous |-> m, added |-> <<>>, calculated |-> size]
        /\ d = [table |-> 0, previous |-> m, added |-> [x \in {n} |-> entry],
                calculated |-> size + (IF maps[m].deleted = <<>> THEN 1 ELSE 0)]
  OBVIOUS
<1>4. [offset |-> Offset(h, m, maps[m].deleted), attributes |-> a] = entry
  BY <1>2, <1>3 DEF Offset, EntryFor, OffsetIn
<1>5. next = [lazy |-> Append(z, c), tables |-> h.tables]
      /\ Lengthened(h, d) = [lazy |-> Append(z, d), tables |-> h.tables]
  <2>1. next = Lengthened(h, c)
    BY <1>3 DEF Fresh, Lengthened
  <2>2. DOMAIN h = {"lazy", "tables"}
    BY <1>1 DEF Laid
  <2>3. \A b : Lengthened(h, b) = [lazy |-> Append(h.lazy, b), tables |-> h.tables]
    BY <2>2 DEF Lengthened
  <2> QED BY <1>3, <2>1, <2>3
<1>6. Heap(z) /\ Len(z) \in Nat
  BY <1>1, <1>3, SequenceIsHeap DEF Laid, Heap
<1>7. PICK y, k : y = Append(z, c) /\ k = Len(z) + 1
  OBVIOUS
<1>8. Heap(y) /\ Len(y) = k /\ y[k] = c /\ k \in Ids(y) /\ DOMAIN y = Ids(y)
  <2>1. Heap(y) /\ Len(y) = k /\ y[k] = c
    BY <1>6, <1>7, AppendHeap
  <2>2. k \in Ids(y)
    BY <1>6, <1>7, <2>1 DEF Ids
  <2>3. DOMAIN y = Ids(y)
    BY <2>1, SequenceIsHeap DEF Heap
  <2> QED BY <2>1, <2>2, <2>3
<1>9. Newest(next) = k /\ next.lazy = y /\ next.tables = h.tables /\ DOMAIN next = {"lazy", "tables"}
  BY <1>5, <1>7, <1>8 DEF Newest
<1>10. AddToShared(h, m, n, a) = [lazy |-> Replaced(y, k, d), tables |-> h.tables]
  <2>1. AddToShared(h, m, n, a)
          = [next EXCEPT !.lazy[Newest(next)].added = [x \in {n} |-> entry],
                         !.lazy[Newest(next)].calculated
                           = size + (IF maps[m].deleted = <<>> THEN 1 ELSE 0)]
    BY <1>3, <1>4 DEF AddToShared
  <2>2. PICK s, q : s = [x \in {n} |-> entry] /\ q = size + (IF maps[m].deleted = <<>> THEN 1 ELSE 0)
    OBVIOUS
  <2>3. PICK c1, y1, y2, n1 :
          /\ c1 = [table |-> 0, previous |-> m, added |-> s, calculated |-> size]
          /\ y1 = [y EXCEPT ![k].added = s] /\ y2 = [y1 EXCEPT ![k].calculated = q]
          /\ n1 = [next EXCEPT !.lazy[k].added = s]
    OBVIOUS
  <2>4. [c EXCEPT !.added = s] = c1 /\ [c1 EXCEPT !.calculated = q] = d
    BY <1>3, <2>2, <2>3
  <2>5. y1 = [y EXCEPT ![k] = c1] /\ y1[k] = c1 /\ k \in DOMAIN y1
    BY <1>8, <2>3, <2>4
  <2>6. y2 = [y1 EXCEPT ![k] = d]
    BY <2>3, <2>4, <2>5
  <2>7. y2 = Replaced(y, k, d)
    BY <2>5, <2>6 DEF Replaced
  <2>8. next = [lazy |-> y, tables |-> h.tables]
    BY <1>5, <1>7
  <2>9. n1 = [lazy |-> y1, tables |-> h.tables]
    BY <2>3, <2>8
  <2>10. [n1 EXCEPT !.lazy[k].calculated = q] = [lazy |-> y2, tables |-> h.tables]
    <3>1. n1.lazy = y1 /\ n1.tables = h.tables /\ DOMAIN n1 = {"lazy", "tables"}
      BY <2>9
    <3>2. PICK v : v = [n1 EXCEPT !.lazy[k].calculated = q]
      OBVIOUS
    <3>3. v.lazy = [n1.lazy EXCEPT ![k].calculated = q]
      BY <3>1, <3>2
    <3>4. v.lazy = y2
      BY ONLY <2>3, <3>1, <3>3
    <3>5. v = [lazy |-> v.lazy, tables |-> v.tables] /\ v.tables = h.tables
      BY <3>1, <3>2
    <3> QED BY <3>2, <3>4, <3>5
  <2>11. AddToShared(h, m, n, a) = [n1 EXCEPT !.lazy[k].calculated = q]
    BY <1>9, <2>1, <2>2, <2>3
  <2> QED BY <2>7, <2>10, <2>11
<1>11. AddToShared(h, m, n, a) = Lengthened(h, d)
  <2>1. Replaced(y, k, d) = Append(z, d)
    BY <1>6, <1>7, LastReplaced
  <2> QED BY <1>5, <1>10, <2>1
<1>12. /\ DOMAIN d = {"table", "previous", "added", "calculated"}
       /\ d.table = 0 /\ d.previous = m /\ d.added = [x \in {n} |-> entry]
       /\ d.calculated = GetSlotsSize(maps[m]) + (IF maps[m].deleted = <<>> THEN 1 ELSE 0)
  BY <1>2, <1>3
<1>13. Continued(d, m, n, a)
  BY <1>3, <1>12 DEF Continued
<1> QED BY <1>11, <1>13

\* The map that a shared map makes for an addition, and the heap with it.
SharedMap(m) == Derived(maps[m], FALSE)

LEMMA SharedMapIs ==
  ASSUME HeapOK, NEW m \in LiveMaps
  PROVE  /\ DOMAIN SharedMap(m) = MapFields /\ ~SharedMap(m).unique
         /\ SharedMap(m).table = maps[m].table /\ SharedMap(m).deleted = maps[m].deleted
<1>1. DOMAIN maps[m] = MapFields
  BY DEF HeapOK, Typed, LiveMaps, Ids, IsMap
<1> QED BY <1>1 DEF SharedMap, Derived, MapFields

\* It counts one slot more, unless a freed one is used again.
LEMMA SlotsGrow ==
  ASSUME HeapOK, NEW m \in LiveMaps, NEW n, n \notin DOMAIN maps[m].table, NEW s,
         DOMAIN s.table = DOMAIN maps[m].table \cup {n},
         s.deleted = IF maps[m].deleted # <<>> THEN Tail(maps[m].deleted) ELSE maps[m].deleted
  PROVE  GetSlotsSize(s) = GetSlotsSize(maps[m]) + (IF maps[m].deleted = <<>> THEN 1 ELSE 0)
<1>1. IsMap(maps[m], LiveMaps)
  BY DEF HeapOK, Typed, LiveMaps, Ids
<1>2. PICK T, q : T = DOMAIN maps[m].table /\ q = maps[m].deleted
  OBVIOUS
<1>3. q \in Seq(Nat) /\ Len(q) \in Nat
  BY <1>1, <1>2, LenProperties DEF IsMap
<1>4. /\ IsFiniteSet(T) /\ Cardinality(T) \in Nat /\ Cardinality(T \cup {n}) = Cardinality(T) + 1
  <2>1. IsFiniteSet(T)
    BY <1>1, <1>2, HeapAssumption, FS_Subset DEF IsMap
  <2> QED BY <1>2, <2>1, FS_CardinalityType, FS_AddElement
<1>5. /\ GetSlotsSize(maps[m]) = Cardinality(T) + Len(q)
      /\ GetSlotsSize(s) = Cardinality(T \cup {n}) + Len(s.deleted)
  BY <1>2 DEF GetSlotsSize
<1>6. CASE q = <<>>
  BY <1>2, <1>3, <1>4, <1>5, <1>6
<1>7. CASE q # <<>>
  <2>1. Len(Tail(q)) = Len(q) - 1 /\ s.deleted = Tail(q)
    BY <1>2, <1>3, <1>7, HeadTailProperties
  <2> QED BY <1>2, <1>3, <1>4, <1>5, <1>7, <2>1
<1> QED BY <1>6, <1>7

\* What the heap holds after the addition.
LEMMA SharedHeapIs ==
  ASSUME HeapOK, NEW m \in LiveMaps, ~maps[m].unique, NEW n, NEW a,
         n \notin DOMAIN maps[m].table, <<n, a>> \notin DOMAIN maps[m].transitions,
         maps[m].transitCount <= MaxTransition
  PROVE  \E f, s : /\ f = AddPropertyTransition(m, n, a).maps /\ Len(f) = NextId
                   /\ f[NextId] = s /\ ~s.unique
                   /\ s.table = With(maps[m].table, n, EntryFor(maps[m], a))
                   /\ GetSlotsSize(s) = GetSlotsSize(maps[m])
                                          + (IF maps[m].deleted = <<>> THEN 1 ELSE 0)
                   /\ \A k \in LiveMaps : Alike(maps[k], f[k])
<1>1. PICK p, r, s, g, f :
        /\ p = [maps[m] EXCEPT !.transitions = With(@, <<n, a>>, Len(maps) + 1)]
        /\ r = Extend(SharedMap(m), n, a)
        /\ s = [r EXCEPT !.transitCount = maps[m].transitCount + 1]
        /\ g = Replaced(maps, m, p)
        /\ f = Append(g, s)
  OBVIOUS
<1>2. Heap(maps) /\ m \in Ids(maps) /\ IsMap(maps[m], LiveMaps) /\ LiveMaps = Ids(maps)
  BY DEF HeapOK, Typed, LiveMaps, Ids
<1>3. f = AddPropertyTransition(m, n, a).maps
  <2>1. AddPropertyTransition(m, n, a).maps
          = Append([maps EXCEPT ![m].transitions = With(@, <<n, a>>, Len(maps) + 1)],
                   [Extend(Derived(maps[m], FALSE), n, a) EXCEPT
                      !.transitCount = maps[m].transitCount + 1])
    BY DEF AddPropertyTransition, Moved
  <2>2. [maps EXCEPT ![m].transitions = With(@, <<n, a>>, Len(maps) + 1)] = g
    BY <1>1 DEF Replaced
  <2> QED BY <1>1, <2>1, <2>2 DEF SharedMap
<1>4. Heap(g) /\ Len(g) = Len(maps) /\ g[m] = p /\ \A k \in LiveMaps : k # m => g[k] = maps[k]
  BY <1>1, <1>2, ReplacedAt
<1>5. Len(f) = NextId /\ f[NextId] = s /\ \A k \in LiveMaps : f[k] = g[k]
  <2>1. Len(f) = Len(g) + 1 /\ f[Len(g) + 1] = s /\ \A k \in Ids(g) : f[k] = g[k]
    <3>1. f = Append(g, s) /\ Heap(g)
      BY <1>1, <1>4
    <3>2. Len(f) = Len(g) + 1 /\ f[Len(g) + 1] = s
      BY ONLY <3>1, AppendHeap
    <3>3. \A k \in Ids(g) : f[k] = g[k]
      BY ONLY <3>1, AppendHeap
    <3> QED BY <3>2, <3>3
  <2>2. Ids(g) = LiveMaps
    BY <1>2, <1>4 DEF Ids
  <2> QED BY <1>4, <2>1, <2>2 DEF NextId
<1>6. /\ DOMAIN SharedMap(m) = MapFields /\ ~SharedMap(m).unique
      /\ SharedMap(m).table = maps[m].table /\ SharedMap(m).deleted = maps[m].deleted
  BY SharedMapIs
<1>7. EntryFor(SharedMap(m), a) = EntryFor(maps[m], a)
  BY <1>6 DEF EntryFor, OffsetIn, GetSlotsSize
<1>8. /\ ~s.unique /\ s.table = With(maps[m].table, n, EntryFor(maps[m], a))
      /\ s.deleted = IF maps[m].deleted # <<>> THEN Tail(maps[m].deleted) ELSE maps[m].deleted
  <2>1. /\ DOMAIN r = MapFields /\ r.table = With(maps[m].table, n, EntryFor(maps[m], a))
        /\ r.deleted = IF maps[m].deleted # <<>> THEN Tail(maps[m].deleted) ELSE maps[m].deleted
        /\ r.unique = SharedMap(m).unique
    BY <1>1, <1>6, <1>7, ExtendIs
  <2>2. s.unique = r.unique /\ s.table = r.table /\ s.deleted = r.deleted
    BY <1>1, <2>1 DEF MapFields
  <2> QED BY <1>6, <2>1, <2>2
<1>9. GetSlotsSize(s) = GetSlotsSize(maps[m]) + (IF maps[m].deleted = <<>> THEN 1 ELSE 0)
  <2>1. DOMAIN s.table = DOMAIN maps[m].table \cup {n}
    BY <1>8 DEF With
  <2> QED BY <1>8, <2>1, SlotsGrow
<1>10. Alike(maps[m], p)
  <2>1. p.table = maps[m].table /\ p.unique = maps[m].unique /\ p.deleted = maps[m].deleted
    BY <1>1, <1>2 DEF IsMap, MapFields
  <2> QED BY <2>1 DEF Alike, GetSlotsSize
<1>11. \A k \in LiveMaps : Alike(maps[k], f[k])
  <2>1. ASSUME NEW k \in LiveMaps, k # m PROVE Alike(maps[k], f[k])
    BY <1>4, <1>5, <2>1 DEF Alike
  <2>2. Alike(maps[m], f[m])
    BY <1>4, <1>5, <1>10
  <2> QED BY <2>1, <2>2
<1> QED BY <1>3, <1>5, <1>8, <1>9, <1>11

\* AddPropertyTransition of a shared map that makes another one.
LEMMA AddedSharedSides ==
  ASSUME NEW h, NEW U, NEW m, Asked(h, U, m), ~maps[m].unique, NEW n, NEW a,
         n \notin DOMAIN maps[m].table, <<n, a>> \notin DOMAIN maps[m].transitions,
         maps[m].transitCount <= MaxTransition, NEW V, Left(maps, U, V)
  PROVE  Sides(AddToShared(h, m, n, a), AddPropertyTransition(m, n, a).maps, V)
<1>1. /\ HeapOK /\ m \in LiveMaps /\ Sides(h, maps, U) /\ Used(maps, U, m) /\ m \in Ids(maps)
      /\ LiveMaps = Ids(maps)
  BY DEF Asked, LiveMaps, Ids
<1>2. PICK f, s : /\ f = AddPropertyTransition(m, n, a).maps /\ Len(f) = NextId
                  /\ f[NextId] = s /\ ~s.unique
                  /\ s.table = With(maps[m].table, n, EntryFor(maps[m], a))
                  /\ GetSlotsSize(s) = GetSlotsSize(maps[m])
                                         + (IF maps[m].deleted = <<>> THEN 1 ELSE 0)
                  /\ \A k \in LiveMaps : Alike(maps[k], f[k])
  BY <1>1, SharedHeapIs
<1>3. PICK b : AddToShared(h, m, n, a) = Lengthened(h, b) /\ Continued(b, m, n, a)
  BY AddToSharedIs
<1>4. PICK e, k : e = Lengthened(h, b) /\ k = Len(maps) + 1
  OBVIOUS
<1>5. k = NextId
  BY <1>4 DEF NextId
<1>6. e.lazy[k] = b
  <2>1. Laid(h, maps) /\ k = Len(maps) + 1 /\ e = Lengthened(h, b)
    BY <1>1, <1>4 DEF Sides
  <2> QED BY ONLY <2>1, AppendedEntry
<1>7. Continues(e, f, V, k)
  <2>1. f[m].table = maps[m].table /\ ~f[m].unique
    BY <1>1, <1>2 DEF Alike
  <2>2. b.calculated = GetSlotsSize(f[k])
    BY <1>2, <1>3, <1>5 DEF Continued
  <2>3. /\ DOMAIN f[k].table = DOMAIN f[m].table \cup {n}
        /\ \A x \in DOMAIN f[m].table : f[k].table[x] = f[m].table[x]
        /\ f[k].table[n] = EntryFor(maps[m], a)
    BY <1>2, <1>5, <2>1 DEF With
  <2>4. DOMAIN b.added = {n} /\ b.added[n] = EntryFor(maps[m], a)
    BY <1>3 DEF Continued
  <2>5. m # 0
    BY <1>1 DEF Ids, Sides, Laid
  <2>6. \A x \in DOMAIN b.added : x \notin DOMAIN f[m].table /\ f[k].table[x] = b.added[x]
    BY <2>1, <2>3, <2>4
  <2> QED BY <1>3, <1>6, <2>1, <2>2, <2>3, <2>4, <2>5, <2>6 DEF Continues, Continued
<1>8. /\ Sides(h, maps, U) /\ m \in Ids(maps) /\ Used(maps, U, m) /\ Left(maps, U, V)
      /\ Len(f) = Len(maps) + 1 /\ k = Len(maps) + 1 /\ \A i \in Ids(maps) : Alike(maps[i], f[i])
  BY <1>1, <1>2, <1>4, <1>5
<1>9. b.table = 0 /\ b.previous = m /\ DOMAIN b = {"table", "previous", "added", "calculated"}
  BY <1>3 DEF Continued
<1>10. e = Lengthened(h, b)
  BY <1>4
<1>11. Sides(e, f, V)
  BY ONLY <1>7, <1>8, <1>9, <1>10, AppendedSides
<1> QED BY <1>2, <1>3, <1>4, <1>11

\* No transition, or one that shows not in the tables.
LEMMA StaySides ==
  ASSUME NEW h, NEW U, Sides(h, maps, U), NEW V, Left(maps, U, V)
  PROVE  Sides(h, maps, V)
<1>1. \A k \in Ids(maps) : Alike(maps[k], maps[k])
  BY DEF Alike
<1>2. Sides(h, maps, U) /\ Left(maps, U, V) /\ Len(maps) = Len(maps)
  OBVIOUS
<1> QED BY ONLY <1>1, <1>2, AlikeSides

\* AddPropertyTransition, all of it.
LEMMA AddedSides ==
  ASSUME NEW h, NEW U, NEW m, Asked(h, U, m), NEW n, NEW a, n \notin DOMAIN maps[m].table,
         NEW moved, moved = AddPropertyTransition(m, n, a), NEW V, Goes(m, moved.map, U, V)
  PROVE  Sides(AddTo(h, m, n, a), moved.maps, V)
<1>1. Sides(h, maps, U) /\ Left(maps, U, V) /\ IsMap(maps[m], LiveMaps)
  BY DEF Asked, Goes, HeapOK, Typed, LiveMaps, Ids
<1>2. PICK key, d : key = <<n, a>> /\ d = DOMAIN maps[m].transitions
  OBVIOUS
<1>3. CASE ~maps[m].unique /\ key \in d
  <2>1. moved.maps = maps
    BY <1>2, <1>3 DEF AddPropertyTransition, Moved
  <2>2. AddTo(h, m, n, a) = h
    BY <1>2, <1>3 DEF AddTo
  <2> QED BY <1>1, <2>1, <2>2, StaySides
<1>4. CASE ~maps[m].unique /\ key \notin d /\ maps[m].transitCount <= MaxTransition
  <2>1. AddTo(h, m, n, a) = AddToShared(h, m, n, a)
    <3>1. ~(maps[m].transitCount > MaxTransition)
      BY <1>1, <1>4, HeapAssumption DEF IsMap
    <3> QED BY <1>2, <1>4, <3>1 DEF AddTo
  <2>2. Sides(AddToShared(h, m, n, a), AddPropertyTransition(m, n, a).maps, V)
    BY <1>1, <1>2, <1>4, AddedSharedSides
  <2> QED BY <2>1, <2>2
<1>5. CASE maps[m].unique \/ (key \notin d /\ ~(maps[m].transitCount <= MaxTransition))
  <2>1. maps[m].unique \/ (key \notin d /\ maps[m].transitCount > MaxTransition)
    BY <1>1, <1>5, HeapAssumption DEF IsMap
  <2>2. AddTo(h, m, n, a) = AddToUnique(h, m, n, a)
    BY <1>2, <2>1 DEF AddTo
  <2>3. moved = Uniquely(m, Extend(NewMap(m), n, a))
    <3>1. CASE maps[m].unique
      BY <3>1 DEF AddPropertyTransition, NewMap
    <3>2. CASE ~maps[m].unique /\ key \notin d /\ ~(maps[m].transitCount <= MaxTransition)
      BY <1>2, <3>2 DEF AddPropertyTransition, NewMap
    <3> QED BY <1>5, <3>1, <3>2
  <2> QED BY <2>2, <2>3, AddedUniqueSides
<1> QED BY <1>3, <1>4, <1>5

-----------------------------------------------------------------------------
(* Lookups                                                                 *)

\* The maps that objects have, and the objects that a lookup asks.
Worn == {MapOf(x) : x \in Objects}
Way(o, n) ==
  IF Holder(o, n) = NoObject THEN Path(o, NoObject)
  ELSE Append(Path(o, Holder(o, n)), Holder(o, n))

\* The tables after each of them.
Visits(g, h, o, n) ==
  /\ DOMAIN g = 0..Len(Way(o, n)) /\ g[0] = h
  /\ \A i \in 1..Len(Way(o, n)) : g[i] = Looked(g[i - 1], MapOf(Way(o, n)[i]), n)

\* LookedUp is the last of those tables: there is such a function.
LEMMA LookedUpIs ==
  ASSUME NEW h, NEW o, NEW n, Len(Way(o, n)) \in Nat
  PROVE  \E g : Visits(g, h, o, n) /\ LookedUp(h, o, n) = g[Len(Way(o, n))]
<1> DEFINE Step(g, i) == IF i = 0 THEN h ELSE Looked(g[i - 1], MapOf(Way(o, n)[i]), n)
           Made(b) == \E g : g = [i \in 0..b |-> Step(g, i)]
           Rest == {b \in Nat : ~Made(b)}
<1>1. Made(0)
  <2>1. PICK g : g = [i \in 0..0 |-> h]
    OBVIOUS
  <2>2. g = [i \in 0..0 |-> Step(g, i)]
    <3>1. \A i \in 0..0 : Step(g, i) = h
      OBVIOUS
    <3> HIDE DEF Step
    <3> QED BY <2>1, <3>1
  <2> QED BY <2>2
<1>2. ASSUME NEW b \in Nat, Made(b) PROVE Made(b + 1)
  <2>1. PICK g : g = [i \in 0..b |-> Step(g, i)]
    BY <1>2
  <2>2. PICK f : f = Looked(g[b], MapOf(Way(o, n)[b + 1]), n)
    OBVIOUS
  <2>3. PICK z : z = [i \in 0..(b + 1) |-> IF i = b + 1 THEN f ELSE g[i]]
    OBVIOUS
  <2>4. \A i \in 0..b : z[i] = g[i]
    BY <2>3
  <2>5. ASSUME NEW i \in 0..(b + 1) PROVE z[i] = Step(z, i)
    <3>1. CASE i = 0
      <4>1. z[0] = g[0] /\ g[0] = Step(g, 0)
        BY <2>1, <2>4
      <4> QED BY <3>1, <4>1
    <3>2. CASE i # 0 /\ i # b + 1
      <4>1. i \in 0..b /\ i - 1 \in 0..b
        BY <3>2
      <4>2. z[i] = g[i] /\ z[i - 1] = g[i - 1]
        BY <2>4, <4>1
      <4>3. g[i] = Step(g, i)
        BY <2>1, <4>1
      <4> QED BY <3>2, <4>2, <4>3
    <3>3. CASE i = b + 1
      <4>1. i # 0 /\ i - 1 = b /\ b \in 0..b
        BY <3>3
      <4>2. z[b] = g[b] /\ z[i] = f
        BY <2>3, <2>4, <3>3, <4>1
      <4> QED BY <2>2, <3>3, <4>1, <4>2
    <3> QED BY <3>1, <3>2, <3>3
  <2>6. z = [i \in 0..(b + 1) |-> z[i]]
    BY <2>3
  <2>7. z = [i \in 0..(b + 1) |-> Step(z, i)]
    <3> HIDE DEF Step
    <3> QED BY <2>5, <2>6
  <2> QED BY <2>7
<1>3. Rest = {}
  <2> SUFFICES ASSUME Rest # {} PROVE FALSE
    OBVIOUS
  <2>1. Rest \subseteq Nat
    OBVIOUS
  <2>2. PICK p \in Rest : \A q \in Rest : p <= q
    <3> HIDE DEF Rest
    <3> QED BY <2>1, LeastNatural
  <2>3. p \in Nat /\ ~Made(p)
    BY <2>2
  <2> HIDE DEF Made
  <2>4. p # 0
    BY <1>1, <2>3
  <2>5. p - 1 \in Nat /\ ~(p <= p - 1) /\ (p - 1) + 1 = p
    BY <2>3, <2>4
  <2>6. Made(p - 1)
    BY <2>2, <2>5
  <2> QED BY <1>2, <2>3, <2>5, <2>6
<1>4. Made(Len(Way(o, n)))
  <2> HIDE DEF Made
  <2> QED BY <1>3
<1>5. PICK g : g = CHOOSE f : f = [i \in 0..Len(Way(o, n)) |-> Step(f, i)]
  OBVIOUS
<1>6. g = [i \in 0..Len(Way(o, n)) |-> Step(g, i)]
  <2> HIDE DEF Step
  <2> QED BY <1>4, <1>5
<1>7. LookedUp(h, o, n) = g[Len(Way(o, n))]
  BY ZenonT(60), <1>5 DEF LookedUp, Way
<1>8. Visits(g, h, o, n)
  <2>1. DOMAIN g = 0..Len(Way(o, n))
    BY <1>6
  <2>2. ASSUME NEW i \in 0..Len(Way(o, n)) PROVE g[i] = Step(g, i)
    <3> HIDE DEF Step
    <3> QED BY <1>6
  <2>3. g[0] = h
    BY <2>2
  <2>4. ASSUME NEW i \in 1..Len(Way(o, n)) PROVE g[i] = Looked(g[i - 1], MapOf(Way(o, n)[i]), n)
    BY <2>2
  <2> QED BY <2>1, <2>3, <2>4 DEF Visits
<1> QED BY <1>7, <1>8

\* A lookup along a prototype chain builds tables that are right.
LEMMA LookedUpSides ==
  ASSUME HeapInv, Acyclic, NEW h, Sides(h, maps, Worn), NEW o \in Objects, NEW n
  PROVE  Sides(LookedUp(h, o, n), maps, Worn)
<1>1. Way(o, n) \in Seq(Objects)
  <2>1. CASE Holder(o, n) = NoObject
    <3>1. o \in Chain
      BY DEF Chain
    <3>2. IsPath(Path(o, NoObject), o, {NoObject, NoObject})
      BY <3>1, PathIsPath
    <3> QED BY <2>1, <3>2 DEF IsPath, Way
  <2>2. CASE Holder(o, n) # NoObject
    <3>1. PICK x, p : x = Holder(o, n) /\ p = Path(o, x)
      OBVIOUS
    <3>2. x \in Objects /\ p \in Seq(Objects)
      BY <2>2, <3>1, LookupPath
    <3>3. Way(o, n) = Append(p, x)
      BY <2>2, <3>1 DEF Way
    <3> QED BY <3>2, <3>3, AppendProperties
  <2> QED BY <2>1, <2>2
<1>2. Len(Way(o, n)) \in Nat /\ \A i \in 1..Len(Way(o, n)) : Way(o, n)[i] \in Objects
  BY <1>1, LenProperties
<1>3. PICK g : Visits(g, h, o, n) /\ LookedUp(h, o, n) = g[Len(Way(o, n))]
  BY <1>2, LookedUpIs
<1> DEFINE Wrong == {i \in 0..Len(Way(o, n)) : ~Sides(g[i], maps, Worn)}
<1>4. Wrong = {}
  <2> SUFFICES ASSUME Wrong # {} PROVE FALSE
    OBVIOUS
  <2>1. Wrong \subseteq Nat
    BY <1>2
  <2>2. PICK p \in Wrong : \A q \in Wrong : p <= q
    <3> HIDE DEF Wrong
    <3> QED BY <2>1, LeastNatural
  <2>3. p \in 0..Len(Way(o, n)) /\ ~Sides(g[p], maps, Worn)
    BY <2>2
  <2>4. p # 0
    BY <1>3, <2>3 DEF Visits
  <2>5. p \in 1..Len(Way(o, n)) /\ p - 1 \in 0..Len(Way(o, n)) /\ ~(p <= p - 1)
    BY <1>2, <2>3, <2>4
  <2>6. Sides(g[p - 1], maps, Worn)
    BY <2>2, <2>5
  <2>7. PICK x, e : x = MapOf(Way(o, n)[p]) /\ e = g[p - 1]
    OBVIOUS
  <2>8. x \in Ids(maps) /\ Used(maps, Worn, x)
    <3>1. Way(o, n)[p] \in Objects
      BY <1>2, <2>5
    <3>2. x \in LiveMaps
      BY <2>7, <3>1, InvariantGivesHeap DEF HeapInv
    <3> QED BY <2>7, <3>1, <3>2 DEF Used, Worn, Ids, LiveMaps
  <2>9. Sides(Looked(e, x, n), maps, Worn)
    BY <2>6, <2>7, <2>8, LookedSides
  <2>10. g[p] = Looked(e, x, n)
    BY <1>3, <2>5, <2>7 DEF Visits
  <2> QED BY <2>3, <2>9, <2>10
<1> QED BY <1>2, <1>3, <1>4

-----------------------------------------------------------------------------
(* Steps                                                                   *)

\* An object that moves along a transition leaves a unique map to nobody, and
\* arrives at its own or at one that no other object has.
LEMMA MovesGo ==
  ASSUME IInv, NEW o \in Objects, NEW moved, Moves(o, moved)
  PROVE  Goes(MapOf(o), moved.map, Worn, Worn')
<1> DEFINE m == MapOf(o)
<1>1. /\ HeapOK /\ m \in LiveMaps /\ UniqueMapsNotShared /\ Len(maps) \in Nat
  BY InvariantGivesHeap DEF IInv, TypeOK
<1>2. MapOf(o)' = moved.map /\ \A x \in Objects : x # o => MapOf(x)' = MapOf(x)
  BY DEF Moves, MapOf
<1>3. moved.map \in Worn'
  BY <1>2 DEF Worn
<1>4. Evolves(m, moved)
  BY DEF Moves
<1> HIDE DEF m
<1>5. ASSUME NEW k \in LiveMaps, k \in Worn', maps[k].unique PROVE k \in Worn
  <2>1. PICK x \in Objects : MapOf(x)' = k
    BY <1>5 DEF Worn
  <2>2. CASE x # o
    BY <1>2, <2>1, <2>2 DEF Worn
  <2>3. CASE x = o
    <3>1. k = moved.map
      BY <1>2, <2>1, <2>3
    <3>2. k # m => moved.maps[k].unique
      <4>1. IsMap(maps[k], LiveMaps)
        BY <1>1 DEF HeapOK, Typed, LiveMaps, Ids
      <4>2. k # m => Kept(maps[k], moved.maps[k])
        BY <1>4 DEF Evolves
      <4>3. k # m => \A f \in MapFields \ {"flattened"} : moved.maps[k][f] = maps[k][f]
        BY <4>1, <4>2, KeptLasts
      <4> QED BY <1>5, <4>3 DEF MapFields
    <3>3. k # m => k = Len(maps) + 1
      BY <1>4, <3>1, <3>2 DEF Evolves
    <3>4. k # Len(maps) + 1
      BY <1>1 DEF LiveMaps
    <3>5. k = MapOf(o)
      BY <3>3, <3>4 DEF m
    <3> QED BY <3>5 DEF Worn
  <2> QED BY <2>2, <2>3
<1>6. ASSUME moved.map # m, maps[m].unique PROVE m \notin Worn'
  <2> SUFFICES ASSUME NEW x \in Objects, MapOf(x)' = m PROVE FALSE
    BY DEF Worn
  <2>1. x # o /\ MapOf(x) = m
    BY <1>2, <1>6
  <2>2. MapOf(o) = m
    BY DEF m
  <2> QED BY <1>1, <1>6, <2>1, <2>2 DEF UniqueMapsNotShared
<1> QED BY <1>3, <1>5, <1>6 DEF Goes, Left, Ids, LiveMaps, m

\* A map that an object has may be asked, and moved on from.
LEMMA WornAsked ==
  ASSUME HeapInv, NEW h, Sides(h, maps, Worn), NEW o \in Objects
  PROVE  Asked(h, Worn, MapOf(o))
BY InvariantGivesHeap DEF HeapInv, Asked, Used, Worn

\* A move to a new map.
LEMMA GoesRenews ==
  ASSUME HeapOK, NEW m \in LiveMaps, NEW U, NEW V, Goes(m, NextId, U, V)
  PROVE  Renews(m, U, V)
<1>1. NextId # m
  BY DEF HeapOK, Typed, Heap, LiveMaps, NextId
<1> QED BY <1>1 DEF Goes, Renews, Departs

\* The tables after a step are those that it computes.
LEMMA BecomesSides ==
  ASSUME NEW h, Becomes(h), NEW g, NEW V, Sides(h, g, V)
  PROVE  Sides(LazyHeap', g, V)
<1>1. LazyHeap'.lazy = h.lazy /\ LazyHeap'.tables = h.tables
  BY DEF Becomes, LazyHeap
<1>2. DOMAIN LazyHeap' = {"lazy", "tables"}
  BY DEF LazyHeap
<1>3. PICK e : e = LazyHeap'
  OBVIOUS
<1>4. e.lazy = h.lazy /\ e.tables = h.tables /\ DOMAIN e = {"lazy", "tables"}
  BY <1>1, <1>2, <1>3
<1>5. Sides(e, g, V)
  BY ONLY Sides(h, g, V), <1>4 DEF Sides, Laid, HasTable, TableOf, Continues
<1> QED BY <1>3, <1>5

\* A transition of the unique-map path that changes no entry.
LEMMA OursSides ==
  ASSUME NEW h, NEW U, NEW m, Asked(h, U, m), NEW r, r.unique, r.unique \in BOOLEAN,
         r.table = maps[m].table, r.deleted = maps[m].deleted,
         NEW moved, moved = Uniquely(m, r), NEW V, Goes(m, moved.map, U, V)
  PROVE  Sides(Ours(h, m).h, moved.maps, V)
<1>1. HeapOK /\ Sides(h, maps, U) /\ m \in LiveMaps /\ Heap(maps) /\ m \in Ids(maps)
  BY DEF Asked, HeapOK, Typed, LiveMaps, Ids
<1>2. CASE maps[m].unique /\ ~maps[m].flattened
  <2>1. PICK g : g = Replaced(maps, m, r)
    OBVIOUS
  <2>2. moved.maps = g
    BY <1>2, <2>1 DEF Uniquely, Moved, Replaced
  <2>3. Ours(h, m).h = h
    BY <1>2 DEF Ours
  <2>4. Len(g) = Len(maps) /\ g[m] = r /\ \A k \in Ids(maps) : k # m => g[k] = maps[k]
    BY <1>1, <2>1, ReplacedAt
  <2>5. \A k \in Ids(maps) : Alike(maps[k], g[k])
    <3>1. maps[m].unique \in BOOLEAN
      BY <1>1 DEF HeapOK, Typed, IsMap
    <3>2. r.unique = maps[m].unique
      BY ONLY r.unique, r.unique \in BOOLEAN, <1>2, <3>1
    <3>3. GetSlotsSize(r) = GetSlotsSize(maps[m])
      BY DEF GetSlotsSize
    <3>4. Alike(maps[m], g[m])
      BY <2>4, <3>2, <3>3 DEF Alike
    <3>5. \A k \in Ids(maps) : k # m => Alike(maps[k], g[k])
      BY <2>4 DEF Alike
    <3> QED BY <3>4, <3>5
  <2>6. Left(maps, U, V)
    BY DEF Goes
  <2>7. Sides(h, g, V)
    BY <1>1, <2>4, <2>5, <2>6, AlikeSides
  <2> QED BY <2>2, <2>3, <2>7
<1>3. CASE ~(maps[m].unique /\ ~maps[m].flattened)
  <2>1. moved.maps = Append(maps, r) /\ moved.map = NextId
    BY <1>3 DEF Uniquely, Appended, Moved, NextId
  <2>2. Ours(h, m).h = NewTables(h, m)
    BY <1>3 DEF Ours, NewTables
  <2>3. Renews(m, U, V)
    BY <1>1, <2>1, GoesRenews
  <2> QED BY <2>1, <2>2, <2>3, RenewedSides
<1> QED BY <1>2, <1>3

\* DefineOwnNonIndexedPropertySlotMethod of a property that the object has.
LEMMA DefineFoundSides ==
  ASSUME HeapInv, NEW h, Sides(h, maps, Worn), NEW o \in Objects, NEW n \in Names,
         NEW d \in Descriptors, DefineFound(o, n, d), NEW old, NEW new,
         old = OwnSlot(o, n).attributes, new = Merge(OwnSlot(o, n), d).attributes,
         Becomes(IF new = old THEN h ELSE ChangeAttributesIn(h, MapOf(o), n, new))
  PROVE  Sides(LazyHeap', maps', Worn')
<1>1. PICK m, moved : m = MapOf(o) /\ moved = Redefined(o, n, d).moved
  OBVIOUS
<1>2. IInv /\ HeapOK /\ m \in LiveMaps /\ Asked(h, Worn, m)
  BY <1>1, WornAsked, InvariantGivesHeap DEF HeapInv
<1>3. n \in DOMAIN maps[m].table
  BY <1>1 DEF DefineFound, HasOwn, Has
<1>4. old \in StoredAttributes
  BY <1>1, <1>2, <1>3 DEF HeapOK, Typed, IsMap, Ids, LiveMaps, Entry, OwnSlot
<1>5. new \in StoredAttributes
  BY <1>4, MergeStored DEF OwnSlot
<1>6. moved = IF new = old THEN Moved(maps, m) ELSE ChangeAttributesTransition(m, n, new)
  BY <1>1 DEF Redefined
<1>7. Evolves(m, moved)
  BY <1>2, <1>3, <1>5, <1>6, StayingEvolves, ChangeAttributesEvolves
<1>8. Become(o, moved, Redefined(o, n, d).slots)
  BY <1>1 DEF DefineFound
<1>9. maps' = moved.maps /\ Moves(o, moved)
  BY <1>1, <1>2, <1>7, <1>8, BecomeMoves DEF Become
<1>10. Goes(m, moved.map, Worn, Worn')
  BY <1>1, <1>2, <1>9, MovesGo
<1>11. PICK V : V = Worn'
  OBVIOUS
<1>12. CASE new = old
  <2>1. moved.maps = maps /\ Becomes(h) /\ Left(maps, Worn, V)
    BY <1>6, <1>10, <1>11, <1>12 DEF Moved, Goes
  <2>2. Sides(h, maps, V)
    BY <2>1, StaySides
  <2> QED BY <1>9, <1>11, <2>1, <2>2, BecomesSides
<1>13. CASE new # old
  <2>1. PICK e : e = ChangeAttributesIn(h, m, n, new)
    OBVIOUS
  <2>2. Becomes(e)
    BY <1>1, <1>13, <2>1
  <2>3. moved = ChangeAttributesTransition(m, n, new) /\ moved.map = NextId
    BY <1>6, <1>13 DEF ChangeAttributesTransition, Appended, Moved, NextId
  <2>4. Renews(m, Worn, V)
    BY <1>2, <1>10, <1>11, <2>3, GoesRenews
  <2>5. Sides(e, moved.maps, V)
    BY <1>2, <1>3, <2>1, <2>3, <2>4, AttributesSides
  <2> QED BY <1>9, <1>11, <2>2, <2>5, BecomesSides
<1> QED BY <1>12, <1>13

\* DefineOwnNonIndexedPropertySlotMethod of a new property.
LEMMA DefineNotFoundSides ==
  ASSUME HeapInv, NEW h, Sides(h, maps, Worn), NEW o \in Objects, NEW n \in Names,
         NEW d \in Descriptors, DefineNotFound(o, n, d),
         Becomes(AddTo(h, MapOf(o), n, NewSlot(d).attributes))
  PROVE  Sides(LazyHeap', maps', Worn')
<1>1. PICK m, a : m = MapOf(o) /\ a = NewSlot(d).attributes
  OBVIOUS
<1>2. PICK moved : moved = AddPropertyTransition(m, n, a)
  OBVIOUS
<1>3. IInv /\ HeapOK /\ m \in LiveMaps /\ Asked(h, Worn, m)
  BY <1>1, WornAsked, InvariantGivesHeap DEF HeapInv
<1>4. n \notin DOMAIN maps[m].table
  BY <1>1 DEF DefineNotFound, HasOwn, Has
<1>5. Evolves(m, moved)
  BY <1>1, <1>2, <1>3, <1>4, NewSlotStored, AddPropertyEvolves
<1>6. Become(o, moved, Added(o, n, d).slots)
  BY <1>1, <1>2 DEF DefineNotFound, Added
<1>7. maps' = moved.maps /\ Moves(o, moved)
  BY <1>1, <1>3, <1>5, <1>6, BecomeMoves DEF Become
<1>8. PICK V : V = Worn'
  OBVIOUS
<1>9. Goes(m, moved.map, Worn, V)
  BY <1>1, <1>3, <1>7, <1>8, MovesGo
<1>10. Sides(AddTo(h, m, n, a), moved.maps, V)
  BY <1>2, <1>3, <1>4, <1>9, AddedSides
<1> QED BY <1>1, <1>7, <1>8, <1>10, BecomesSides

\* Both.
LEMMA DefineSides ==
  ASSUME HeapInv, NEW h, Sides(h, maps, Worn), NEW o \in Objects, NEW n \in Names,
         NEW d \in Descriptors, DefineIn(h, o, n, d)
  PROVE  Sides(LazyHeap', maps', Worn')
<1>1. CASE /\ DefineFound(o, n, d)
           /\ LET old == OwnSlot(o, n).attributes
                  new == Merge(OwnSlot(o, n), d).attributes
              IN Becomes(IF new = old THEN h ELSE ChangeAttributesIn(h, MapOf(o), n, new))
  <2>1. PICK old, new :
          /\ old = OwnSlot(o, n).attributes
          /\ new = Merge(OwnSlot(o, n), d).attributes
    OBVIOUS
  <2>2. Becomes(IF new = old THEN h ELSE ChangeAttributesIn(h, MapOf(o), n, new))
    BY <1>1, <2>1
  <2> QED BY <1>1, <2>1, <2>2, DefineFoundSides
<1>2. CASE /\ DefineNotFound(o, n, d)
           /\ Becomes(AddTo(h, MapOf(o), n, NewSlot(d).attributes))
  BY <1>2, DefineNotFoundSides
<1> QED BY <1>1, <1>2 DEF DefineIn

\* DeleteNonIndexedMethod.
LEMMA DeleteSides ==
  ASSUME HeapInv, NEW h, Sides(h, maps, Worn), NEW o \in Objects, NEW n,
         Delete(o, n), Becomes(DeleteFrom(h, MapOf(o), n))
  PROVE  Sides(LazyHeap', maps', Worn')
<1>1. PICK m, moved : m = MapOf(o) /\ moved = DeletePropertyTransition(m, n)
  OBVIOUS
<1>2. IInv /\ HeapOK /\ m \in LiveMaps /\ Asked(h, Worn, m)
  BY <1>1, WornAsked, InvariantGivesHeap DEF HeapInv
<1>3. n \in DOMAIN maps[m].table
  BY <1>1 DEF Delete, HasOwn, Has
<1>4. PICK s : Become(o, moved, s)
  BY <1>1 DEF Delete
<1>5. maps' = moved.maps /\ Moves(o, moved)
  BY <1>1, <1>2, <1>3, <1>4, DeletePropertyEvolves, BecomeMoves DEF Become
<1>6. PICK V : V = Worn'
  OBVIOUS
<1>7. moved.map = NextId
  BY <1>1 DEF DeletePropertyTransition, Appended, Moved, NextId
<1>8. Renews(m, Worn, V)
  BY <1>1, <1>2, <1>5, <1>6, <1>7, MovesGo, GoesRenews
<1>9. Sides(DeleteFrom(h, m, n), moved.maps, V)
  BY <1>1, <1>2, <1>3, <1>8, DeletedSides
<1> QED BY <1>1, <1>5, <1>6, <1>9, BecomesSides

\* A lookup that is all a step does.
LEMMA StepStays ==
  ASSUME NEW h, Sides(h, maps, Worn), Becomes(h), UNCHANGED hvars
  PROVE  Sides(LazyHeap', maps', Worn')
<1>1. maps' = maps /\ objs' = objs
  BY DEF hvars
<1>2. Worn' = Worn
  BY <1>1 DEF Worn, MapOf
<1> QED BY <1>1, <1>2, BecomesSides

\* Named properties.
LEMMA NamedSides ==
  ASSUME HeapInv, Acyclic, Sides(LazyHeap, maps, Worn), NEW o \in Objects,
         NEW n \in Names, LazyNamed(o, n)
  PROVE  Sides(LazyHeap', maps', Worn')
<1>1. PICK m : m = MapOf(o)
  OBVIOUS
<1>2. Asked(LazyHeap, Worn, m)
  BY <1>1, WornAsked
<1>3. Sides(Looked(LazyHeap, m, n), maps, Worn)
  <2>1. m \in Ids(maps) /\ Used(maps, Worn, m)
    BY <1>2 DEF Asked, Ids, LiveMaps
  <2> QED BY <2>1, LookedSides
<1>4. Sides(LookedUp(LazyHeap, o, n), maps, Worn)
  BY LookedUpSides
<1>5. CASE Get(o, n) /\ Becomes(LookedUp(LazyHeap, o, n))
  BY <1>4, <1>5, StepStays DEF Get
<1>6. CASE \E d \in Inputs : DefineIn(Looked(LazyHeap, MapOf(o), n), o, n, d)
  <2>1. PICK d \in Inputs : DefineIn(Looked(LazyHeap, m, n), o, n, d)
    BY <1>1, <1>6
  <2>2. d \in Descriptors
    BY HeapAssumption
  <2> QED BY <1>3, <2>1, <2>2, DefineSides
<1>7. CASE \E v \in PutValues : LazyPut(o, n, v)
  <2>1. PICK v \in PutValues : LazyPut(o, n, v)
    BY <1>7
  <2>2. PICK d : d = IF HasOwn(o, n) THEN ValueOnly(v) ELSE DefaultData(v)
    OBVIOUS
  <2>3. DefineIn(LookedUp(LazyHeap, o, n), o, n, d)
    BY <2>1, <2>2 DEF LazyPut
  <2>4. ValueOnly(v) \in Descriptors /\ DefaultData(v) \in Descriptors
    BY HeapAssumption, DescriptorAssumption
    DEF ValueOnly, DefaultData, Descriptors, DataDescriptors, Flag
  <2>5. d \in Descriptors
    BY <2>2, <2>4
  <2> QED BY <1>4, <2>3, <2>5, DefineSides
<1>8. CASE Delete(o, n) /\ Becomes(DeleteFrom(Looked(LazyHeap, MapOf(o), n), MapOf(o), n))
  BY <1>1, <1>3, <1>8, DeleteSides
<1> QED BY <1>5, <1>6, <1>7, <1>8 DEF LazyNamed

\* Map::Flatten changes a flag that tables do not depend on.
LEMMA FlattenedSides ==
  ASSUME NEW h, NEW g, NEW U, Sides(h, g, U), Typed(g), TransitionsShared(g), NEW ms
  PROVE  Sides(h, Flattened(g, ms), U)
<1>1. PICK f : f = Flattened(g, ms)
  OBVIOUS
<1>2. Len(f) = Len(g)
  BY <1>1, FlattenedHeap
<1>3. ASSUME NEW k \in Ids(g) PROVE Alike(g[k], f[k])
  <2>1. \A x \in MapFields \ {"flattened"} : f[k][x] = g[k][x]
    BY <1>1, FlattenedFixes
  <2>2. f[k].table = g[k].table /\ f[k].unique = g[k].unique /\ f[k].deleted = g[k].deleted
    BY <2>1 DEF MapFields
  <2> QED BY <2>2 DEF Alike, GetSlotsSize
<1>4. Left(g, U, U)
  BY DEF Left
<1>5. Sides(h, f, U)
  BY <1>2, <1>3, <1>4, AlikeSides
<1> QED BY <1>1, <1>5

\* A new prototype and a first indexed element.
LEMMA OursStep ==
  ASSUME HeapInv, Sides(LazyHeap, maps, Worn), NEW o \in Objects, NEW m, m = MapOf(o),
         NEW r, r.unique, r.unique \in BOOLEAN, r.table = maps[m].table,
         r.deleted = maps[m].deleted, NEW moved, moved = Uniquely(m, r), Evolves(m, moved),
         NEW s, Become(o, moved, s), Becomes(Ours(LazyHeap, m).h)
  PROVE  Sides(LazyHeap', maps', Worn')
<1>1. Asked(LazyHeap, Worn, m)
  BY WornAsked
<1>2. maps' = moved.maps /\ Goes(m, moved.map, Worn, Worn')
  BY BecomeMoves, MovesGo DEF HeapInv, Become
<1>3. PICK V : V = Worn'
  OBVIOUS
<1>4. Sides(Ours(LazyHeap, m).h, moved.maps, V)
  BY <1>1, <1>2, <1>3, OursSides
<1> QED BY <1>2, <1>3, <1>4, BecomesSides

\* JSObject::ChangeExtensible is such a move too.
LEMMA PreventMoves ==
  ASSUME IInv, NEW o \in Objects, PreventExtensions(o), NEW moved,
         moved = ChangeExtensibleTransition(MapOf(o))
  PROVE  Moves(o, moved)
<1>1. Evolves(MapOf(o), moved)
  BY InvariantGivesHeap, ChangeExtensibleEvolves
<1>2. DOMAIN objs = Objects /\ DOMAIN objs[o] = {"map", "slots", "extensible"}
  BY DEF IInv, TypeOK
<1>3. PICK new : new = [objs[o] EXCEPT !.map = moved.map, !.extensible = FALSE]
  OBVIOUS
<1>4. Len(moved.maps) <= MaxMaps /\ maps' = moved.maps /\ objs' = [objs EXCEPT ![o] = new]
  BY <1>2, <1>3 DEF PreventExtensions
<1>5. /\ DOMAIN new = {"map", "slots", "extensible"} /\ new.map = moved.map
      /\ new.extensible = FALSE
  BY <1>2, <1>3
<1> QED BY <1>1, <1>2, <1>4, <1>5 DEF Moves

\* The other steps of an object.
LEMMA ObjectSides ==
  ASSUME HeapInv, Sides(LazyHeap, maps, Worn), NEW o \in Objects, LazyObject(o)
  PROVE  Sides(LazyHeap', maps', Worn')
<1>1. PICK m : m = MapOf(o)
  OBVIOUS
<1>2. /\ Asked(LazyHeap, Worn, m) /\ IInv /\ HeapOK /\ m \in LiveMaps
  BY <1>1, WornAsked, InvariantGivesHeap DEF HeapInv
<1>3. /\ DOMAIN NewMap(m) = MapFields /\ NewMap(m).unique = TRUE
      /\ NewMap(m).table = maps[m].table /\ NewMap(m).deleted = maps[m].deleted
  <2>1. DOMAIN maps[m] = MapFields
    BY <1>2 DEF HeapOK, Typed, LiveMaps, Ids, IsMap
  <2> QED BY <2>1 DEF NewMap, Derived, MapFields
<1>4. ASSUME NEW p \in Prototypes, ChangePrototype(o, p), Becomes(Ours(LazyHeap, MapOf(o)).h)
      PROVE  Sides(LazyHeap', maps', Worn')
  <2>1. PICK r, moved : r = [NewMap(m) EXCEPT !.prototype = p] /\ moved = Uniquely(m, r)
    OBVIOUS
  <2>2. r.unique = TRUE /\ r.table = maps[m].table /\ r.deleted = maps[m].deleted
    BY <1>3, <2>1 DEF MapFields
  <2>3. moved = ChangePrototypeTransition(m, p)
    BY <2>1 DEF ChangePrototypeTransition, NewMap
  <2>4. Evolves(m, moved)
    BY <1>2, <2>3, HeapAssumption, ChangePrototypeEvolves
  <2>5. PICK s : Become(o, moved, s)
    BY <1>1, <1>4, <2>3 DEF ChangePrototype
  <2> QED BY <1>1, <1>4, <2>1, <2>2, <2>4, <2>5, OursStep
<1>5. ASSUME BecomeIndexed(o), Becomes(Ours(LazyHeap, MapOf(o)).h)
      PROVE  Sides(LazyHeap', maps', Worn')
  <2>1. PICK r, moved : r = [NewMap(m) EXCEPT !.indexed = TRUE] /\ moved = Uniquely(m, r)
    OBVIOUS
  <2>2. r.unique = TRUE /\ r.table = maps[m].table /\ r.deleted = maps[m].deleted
    BY <1>3, <2>1 DEF MapFields
  <2>3. moved = ChangeIndexedTransition(m)
    BY <2>1 DEF ChangeIndexedTransition, NewMap
  <2>4. Evolves(m, moved)
    BY <1>2, <2>3, ChangeIndexedEvolves
  <2>5. PICK s : Become(o, moved, s)
    BY <1>1, <1>5, <2>3 DEF BecomeIndexed
  <2> QED BY <1>1, <1>5, <2>1, <2>2, <2>4, <2>5, OursStep
<1>6. ASSUME PreventExtensions(o), Becomes(Fresh(LazyHeap, MapOf(o), TRUE))
      PROVE  Sides(LazyHeap', maps', Worn')
  <2>1. PICK moved : moved = ChangeExtensibleTransition(m)
    OBVIOUS
  <2>2. moved.maps = Append(maps, NewMap(m)) /\ moved.map = NextId
    BY <2>1 DEF ChangeExtensibleTransition, Appended, Moved, NextId, NewMap
  <2>3. maps' = moved.maps
    BY <1>1, <1>6, <2>1 DEF PreventExtensions
  <2>4. PICK V : V = Worn'
    OBVIOUS
  <2>5. Moves(o, moved)
    BY <1>1, <1>2, <1>6, <2>1, PreventMoves
  <2>6. Renews(m, Worn, V)
    BY <1>1, <1>2, <2>2, <2>4, <2>5, MovesGo, GoesRenews
  <2>7. PICK r : r = NewMap(m)
    OBVIOUS
  <2>8. Sides(NewTables(LazyHeap, m), Append(maps, r), V)
    BY <1>2, <1>3, <2>6, <2>7, RenewedSides
  <2>9. Becomes(NewTables(LazyHeap, m))
    BY <1>1, <1>6 DEF NewTables
  <2> QED BY <2>2, <2>3, <2>4, <2>7, <2>8, <2>9, BecomesSides
<1>7. ASSUME FlattenMap(o), lazy' = lazy, tables' = tables
      PROVE  Sides(LazyHeap', maps', Worn')
  <2>1. maps' = Flattened(maps, {m}) /\ objs' = objs
    BY <1>1, <1>7 DEF FlattenMap
  <2>2. Worn' = Worn /\ LazyHeap' = LazyHeap
    BY <1>7, <2>1 DEF Worn, MapOf, LazyHeap
  <2>3. Sides(LazyHeap, Flattened(maps, {m}), Worn)
    BY <1>2, FlattenedSides DEF HeapOK
  <2> QED BY <2>1, <2>2, <2>3
<1>8. ASSUME UNCHANGED hvars, Becomes(Listed(LazyHeap, MapOf(o)))
      PROVE  Sides(LazyHeap', maps', Worn')
  <2>1. m \in Ids(maps) /\ Used(maps, Worn, m)
    BY <1>2 DEF Asked, Ids, LiveMaps
  <2>2. Sides(Listed(LazyHeap, m), maps, Worn)
    BY <2>1, LookedSides
  <2> QED BY <1>1, <1>8, <2>2, StepStays
<1> QED BY <1>4, <1>5, <1>6, <1>7, <1>8 DEF LazyObject

\* A site that hits takes a transition that is there, or none.
LEMMA HitSides ==
  ASSUME ICInv, Sides(LazyHeap, maps, Worn), NEW o \in Objects, NEW n \in StoreSites,
         NEW v \in PutValues, StoreHit(n, o, v), lazy' = lazy, tables' = tables
  PROVE  Sides(LazyHeap', maps', Worn')
<1>1. /\ SlotInv /\ HeapInv /\ IInv /\ HeapOK /\ Opened /\ StoresOK /\ n \in Names
      /\ MapOf(o) \in LiveMaps
  BY SiteAssumption, InvariantGivesHeap DEF ICInv, RefInv, SlotInv, HeapInv
<1>2. PICK i \in Hits(storeIC[n], o) :
        Become(o, Moved(maps, storeIC[n][i].map), Stored(storeIC[n][i], o, v))
  BY DEF StoreHit
<1>3. PICK u, moved, s : /\ u = storeIC[n][i] /\ moved = Moved(maps, u.map)
                         /\ s = Stored(u, o, v)
  OBVIOUS
<1>4. u \in Units(storeIC[n]) /\ Matches(u, o)
  BY <1>3 DEF Hits, Units
<1>5. StoreUnitOK(u, n) /\ u.grow \in BOOLEAN
  BY <1>1, <1>4 DEF StoresOK
<1>6. Evolves(MapOf(o), moved)
  <2>1. CASE ReplaceUnit(u, n)
    <3>1. u.map = MapOf(o)
      BY <1>1, <1>4, <2>1, ReplaceUnitSound
    <3> QED BY <1>1, <1>3, <3>1, StayingEvolves
  <2>2. CASE NewUnit(u, n)
    <3>1. ~HasOwn(o, n) /\ AddPropertyTransition(MapOf(o), n, DefaultAttributes) = moved
      BY <1>1, <1>3, <1>4, <1>5, <2>2, NewUnitSound
    <3>2. n \notin DOMAIN maps[MapOf(o)].table
      BY <3>1 DEF HasOwn, Has
    <3>3. DefaultAttributes \in StoredAttributes
      BY HeapAssumption, DefaultSlot, NewSlotStored
    <3> QED BY <1>1, <3>1, <3>2, <3>3, AddPropertyEvolves
  <2> QED BY <1>5, <2>1, <2>2 DEF StoreUnitOK
<1>7. Become(o, moved, s)
  BY <1>2, <1>3
<1>8. maps' = maps
  BY <1>3, <1>7 DEF Become, Moved
<1>9. Left(maps, Worn, Worn')
  BY <1>1, <1>6, <1>7, BecomeMoves, MovesGo DEF Goes
<1>10. PICK V : V = Worn'
  OBVIOUS
<1>11. Sides(LazyHeap, maps, V)
  BY <1>9, <1>10, StaySides
<1>12. LazyHeap' = LazyHeap
  BY DEF LazyHeap
<1> QED BY <1>8, <1>10, <1>11, <1>12

\* A site that replaces a value looks the name up and leaves the map.
LEMMA ReplaceSides ==
  ASSUME ICInv, Sides(LazyHeap, maps, Worn), NEW o \in Objects, NEW n \in StoreSites,
         NEW v \in PutValues, StoreReplace(n, o, v), Becomes(LookedUp(LazyHeap, o, n))
  PROVE  Sides(LazyHeap', maps', Worn')
<1>1. HeapInv /\ Acyclic /\ HeapOK /\ n \in Names /\ MapOf(o) \in LiveMaps /\ v \in Values
  BY SiteAssumption, HeapAssumption, InvariantGivesHeap
  DEF ICInv, RefInv, SlotInv, HeapInv
<1>2. PICK d, h, m : d = ValueOnly(v) /\ h = LookedUp(LazyHeap, o, n) /\ m = MapOf(o)
  OBVIOUS
<1>3. Sides(h, maps, Worn)
  BY <1>1, <1>2, LookedUpSides
<1>4. DefineFound(o, n, d) /\ Redefined(o, n, d).moved.map = m /\ Becomes(h)
  BY <1>2 DEF StoreReplace
<1>5. PICK old, new : /\ old = OwnSlot(o, n).attributes
                      /\ new = Merge(OwnSlot(o, n), d).attributes
  OBVIOUS
<1>6. new = old
  <2> SUFFICES ASSUME new # old PROVE FALSE
    OBVIOUS
  <2>1. Redefined(o, n, d).moved.map = NextId
    BY <1>2, <1>5 DEF Redefined, ChangeAttributesTransition, Appended, Moved, NextId
  <2>2. NextId # m
    BY <1>1, <1>2 DEF HeapOK, Typed, Heap, LiveMaps, NextId
  <2> QED BY <1>4, <2>1, <2>2
<1>7. d \in Descriptors
  BY <1>1, <1>2, DescriptorAssumption
  DEF ValueOnly, Descriptors, DataDescriptors, Flag
<1>8. Becomes(IF new = old THEN h ELSE ChangeAttributesIn(h, MapOf(o), n, new))
  BY <1>4, <1>6
<1> QED BY <1>1, <1>3, <1>4, <1>5, <1>7, <1>8, DefineFoundSides

\* A site that adds a property follows the transition and flattens the chain.
LEMMA NewSides ==
  ASSUME ICInv, Sides(LazyHeap, maps, Worn), NEW o \in Objects, NEW n \in StoreSites,
         NEW v \in PutValues, StoreNew(n, o, v),
         Becomes(AddTo(LookedUp(LazyHeap, o, n), MapOf(o), n,
                       NewSlot(DefaultData(v)).attributes))
  PROVE  Sides(LazyHeap', maps', Worn')
<1>1. /\ HeapInv /\ IInv /\ Acyclic /\ HeapOK /\ n \in Names /\ MapOf(o) \in LiveMaps
      /\ v \in Values
  BY SiteAssumption, HeapAssumption, InvariantGivesHeap
  DEF ICInv, RefInv, SlotInv, HeapInv
<1>2. PICK h, m, a : /\ h = LookedUp(LazyHeap, o, n) /\ m = MapOf(o)
                     /\ a = NewSlot(DefaultData(v)).attributes
  OBVIOUS
<1>3. PICK moved : moved = AddPropertyTransition(m, n, a)
  OBVIOUS
<1>4. Sides(h, maps, Worn) /\ Becomes(AddTo(h, m, n, a))
  BY <1>1, <1>2, LookedUpSides
<1>5. Asked(h, Worn, m)
  BY <1>1, <1>2, <1>4, WornAsked
<1>6. n \notin DOMAIN maps[m].table
  BY <1>2 DEF StoreNew, HasOwn, Has
<1>7. a \in StoredAttributes
  BY <1>1, <1>2, DefaultSlot, NewSlotStored
<1>8. Evolves(m, moved)
  BY <1>1, <1>2, <1>3, <1>6, <1>7, AddPropertyEvolves
<1>9. PICK ms, g, s :
        /\ ms = {MapOf(Path(o, NoObject)[i]) : i \in DOMAIN Path(o, NoObject)}
        /\ g = Flattened(moved.maps, ms)
        /\ s = Added(o, n, DefaultData(v)).slots
  OBVIOUS
<1>10. Become(o, Moved(g, moved.map), s)
  <2>1. Added(o, n, DefaultData(v)).moved = moved
    BY <1>2, <1>3 DEF Added
  <2> QED BY <1>9, <2>1 DEF StoreNew, ChainFlattened
<1>11. PICK next : next = Moved(g, moved.map)
  OBVIOUS
<1>12. next.maps = g /\ next.map = moved.map /\ Evolves(m, next)
  BY <1>1, <1>2, <1>8, <1>9, <1>11, FlattenedEvolves DEF Moved
<1>13. maps' = g /\ Goes(m, moved.map, Worn, Worn')
  BY <1>1, <1>2, <1>10, <1>11, <1>12, BecomeMoves, MovesGo DEF Become
<1>14. PICK V : V = Worn'
  OBVIOUS
<1>15. Sides(AddTo(h, m, n, a), moved.maps, V)
  BY <1>3, <1>5, <1>6, <1>13, <1>14, AddedSides
<1>16. Sides(AddTo(h, m, n, a), g, V)
  <2>1. Typed(moved.maps) /\ TransitionsShared(moved.maps)
    BY <1>8 DEF Evolves
  <2> QED BY <1>9, <1>15, <2>1, FlattenedSides
<1> QED BY <1>4, <1>13, <1>14, <1>16, BecomesSides

\* The invariant: the caches', and the tables.
LazyInv == ICInv /\ Sides(LazyHeap, maps, Worn)

\* The first maps have tables of their own, or nothing to answer.
LEMMA InitSides ==
  ASSUME LazyInit
  PROVE  LazyInv
<1>1. ICInv /\ maps = RootMaps
  BY InitCaches DEF LazyInit, ICInit, Init
<1>2. /\ Len(RootMaps) \in Nat
      /\ \A k \in Ids(maps) : GetSlotsSize(maps[k]) \in Nat
  <2>1. HeapOK
    BY <1>1, InvariantGivesHeap DEF ICInv, RefInv, SlotInv, HeapInv
  <2> QED BY <1>1, <2>1, SlotsSizeNat DEF HeapOK, Typed, Heap
<1>3. PICK h : h = LazyHeap
  OBVIOUS
<1>4. /\ h.lazy = [m \in Ids(maps) |->
                     [table |-> IF DOMAIN maps[m].table = {} THEN 0 ELSE m,
                      previous |-> 0, added |-> <<>>, calculated |-> GetSlotsSize(maps[m])]]
      /\ h.tables = [m \in Ids(maps) |-> maps[m].table]
      /\ DOMAIN h = {"lazy", "tables"}
  BY <1>1, <1>3 DEF LazyInit, LazyHeap, Ids
<1>5. /\ Heap(h.lazy) /\ Heap(h.tables) /\ Len(h.lazy) = Len(maps) /\ Len(h.tables) = Len(maps)
      /\ Len(maps) \in Nat
  <2>1. Len(maps) \in Nat /\ Ids(maps) = 1..Len(maps)
    BY <1>1, <1>2 DEF Ids
  <2>2. h.lazy \in Seq({h.lazy[m] : m \in Ids(maps)}) /\ Len(h.lazy) = Len(maps)
    <3>1. PICK z : z = h.lazy
      OBVIOUS
    <3>2. z = [m \in Ids(maps) |-> z[m]]
      BY <1>4, <3>1
    <3>3. z \in Seq({z[m] : m \in Ids(maps)}) /\ Len(z) = Len(maps)
      BY ONLY <2>1, <3>2
    <3> QED BY <3>1, <3>3
  <2>3. h.tables \in Seq({h.tables[m] : m \in Ids(maps)}) /\ Len(h.tables) = Len(maps)
    BY <1>4, <2>1
  <2> QED BY <2>1, <2>2, <2>3 DEF Heap, Ids
<1>6. Laid(h, maps)
  BY <1>4, <1>5 DEF Laid, Ids
<1>7. ASSUME NEW k \in Ids(maps) PROVE HasTable(h, k) => Same(TableOf(h, k), maps[k].table)
  BY <1>4 DEF HasTable, TableOf, Same
<1>8. ASSUME NEW k \in Ids(maps), ~HasTable(h, k) PROVE Continues(h, maps, Worn, k)
  <2>1. /\ h.lazy[k].previous = 0 /\ h.lazy[k].added = <<>>
        /\ h.lazy[k].calculated = GetSlotsSize(maps[k])
    BY <1>4
  <2>2. DOMAIN maps[k].table = {}
    BY <1>4, <1>8 DEF HasTable, Ids
  <2>3. Same(<<>>, maps[k].table)
    BY <2>2 DEF Same
  <2> QED BY <2>1, <2>3 DEF Continues
<1>9. ASSUME NEW k \in Ids(maps), NEW l \in Ids(maps), k # l, HasTable(h, k)
      PROVE  h.lazy[k].table # h.lazy[l].table
  BY <1>4, <1>9 DEF HasTable, Ids
<1>10. Sides(h, maps, Worn)
  BY <1>6, <1>7, <1>8, <1>9 DEF Sides
<1> QED BY <1>1, <1>3, <1>10 DEF LazyInv

\* What the tables are beside: steps of InlineCache.
LEMMA LazyIsIC ==
  ASSUME [LazyNext]_lvars
  PROVE  [ICNext]_ivars
<1>1. CASE UNCHANGED lvars
  BY <1>1 DEF lvars
<1>2. ASSUME NEW o \in Objects, LazyObject(o), UNCHANGED <<loadIC, storeIC>>
      PROVE  [ICNext]_ivars
  <2>1. ObjectStep(o) \/ UNCHANGED hvars
    BY <1>2 DEF LazyObject, ObjectStep
  <2> QED BY <1>2, <2>1 DEF ICNext, Next, ivars, hvars
<1>3. ASSUME NEW o \in Objects, NEW n \in Names, LazyNamed(o, n), UNCHANGED <<loadIC, storeIC>>
      PROVE  [ICNext]_ivars
  <2>1. ASSUME NEW h, NEW d, DefineIn(h, o, n, d) PROVE DefineOwnProperty(o, n, d)
    BY <2>1 DEF DefineIn, DefineOwnProperty
  <2>2. ASSUME NEW v, LazyPut(o, n, v) PROVE Put(o, n, v)
    <3>1. CASE HasOwn(o, n)
      <4>1. CanPutData(o, n) /\ DefineIn(LookedUp(LazyHeap, o, n), o, n, ValueOnly(v))
        BY <2>2, <3>1 DEF LazyPut
      <4>2. DefineFound(o, n, ValueOnly(v))
        BY <3>1, <4>1 DEF DefineIn, DefineNotFound
      <4> QED BY <4>1, <4>2 DEF Put
    <3>2. CASE ~HasOwn(o, n)
      <4>1. CanPutData(o, n) /\ DefineIn(LookedUp(LazyHeap, o, n), o, n, DefaultData(v))
        BY <2>2, <3>2 DEF LazyPut
      <4>2. DefineNotFound(o, n, DefaultData(v))
        BY <3>2, <4>1 DEF DefineIn, DefineFound
      <4> QED BY <4>1, <4>2 DEF Put
    <3> QED BY <3>1, <3>2
  <2>3. NamedStep(o, n)
    <3>1. CASE Get(o, n)
      BY <3>1 DEF NamedStep
    <3>2. CASE \E d \in Inputs : DefineIn(Looked(LazyHeap, MapOf(o), n), o, n, d)
      BY <2>1, <3>2 DEF NamedStep
    <3>3. CASE \E v \in PutValues : LazyPut(o, n, v)
      BY <2>2, <3>3 DEF NamedStep
    <3>4. CASE Delete(o, n)
      BY <3>4 DEF NamedStep
    <3> QED BY <1>3, <3>1, <3>2, <3>3, <3>4 DEF LazyNamed
  <2> QED BY <1>3, <2>3 DEF ICNext, Next
<1>4. ASSUME NEW o \in Objects, NEW n \in StoreSites, LazySite(o, n)
      PROVE  [ICNext]_ivars
  <2>1. \E v \in PutValues : StoreHit(n, o, v) \/ StoreReplace(n, o, v) \/ StoreNew(n, o, v)
    BY <1>4 DEF LazySite
  <2> QED BY <2>1 DEF ICNext
<1> QED BY <1>1, <1>2, <1>3, <1>4 DEF LazyNext

\* Every step keeps the tables right.
LEMMA LazyStep ==
  ASSUME LazyInv, [LazyNext]_lvars
  PROVE  LazyInv'
<1>1. ICInv'
  BY LazyIsIC, CacheStep DEF LazyInv
<1>2. ICInv /\ Sides(LazyHeap, maps, Worn) /\ HeapInv /\ Acyclic
  BY DEF LazyInv, ICInv, RefInv, SlotInv
<1>3. CASE UNCHANGED lvars
  <2>1. LazyHeap' = LazyHeap /\ maps' = maps /\ Worn' = Worn
    BY <1>3 DEF lvars, ivars, LazyHeap, Worn, MapOf
  <2>2. Sides(LazyHeap', maps', Worn')
    BY <1>2, <2>1
  <2> QED BY <1>1, <2>2 DEF LazyInv
<1>4. ASSUME NEW o \in Objects, NEW n \in StoreSites, LazySite(o, n)
      PROVE  Sides(LazyHeap', maps', Worn')
  <2>1. PICK v \in PutValues :
          \/ StoreHit(n, o, v) /\ UNCHANGED <<lazy, tables>>
          \/ StoreReplace(n, o, v) /\ Becomes(LookedUp(LazyHeap, o, n))
          \/ /\ StoreNew(n, o, v)
             /\ Becomes(AddTo(LookedUp(LazyHeap, o, n), MapOf(o), n,
                              NewSlot(DefaultData(v)).attributes))
    BY <1>4 DEF LazySite
  <2> QED BY <1>2, <2>1, HitSides, ReplaceSides, NewSides
<1>5. CASE LazyNext
  <2>1. Sides(LazyHeap', maps', Worn')
    BY <1>2, <1>4, <1>5, ObjectSides, NamedSides DEF LazyNext
  <2> QED BY <1>1, <2>1 DEF LazyInv
<1> QED BY <1>3, <1>5

\* However long the chain that a table is built from, and however many unique
\* maps have had it: Map::Get answers the entries of the map, and
\* Map::GetSlotsSize counts its slots.
THEOREM TablesStayRight == LazySpec => []TablesAnswer
<1>1. LazyInv => TablesAnswer
  <2> SUFFICES ASSUME LazyInv, NEW m \in LiveMaps, InUse(m)
               PROVE  /\ \A n \in Names : Answers(LazyHeap, m, n)
                           = {Entry(m, x) : x \in {n} \cap DOMAIN maps[m].table}
                      /\ SlotsSize(LazyHeap, m, maps[m].deleted) = GetSlotsSize(maps[m])
    BY DEF TablesAnswer
  <2>1. PICK h : h = LazyHeap
    OBVIOUS
  <2>2. Sides(h, maps, Worn) /\ m \in Ids(maps) /\ Used(maps, Worn, m)
    BY <2>1 DEF LazyInv, InUse, Used, Worn, Ids, LiveMaps
  <2>3. SlotsSize(h, m, maps[m].deleted) = GetSlotsSize(maps[m])
    BY <2>2, SlotsCounted
  <2>4. ASSUME NEW n PROVE Answers(h, m, n) = {Entry(m, x) : x \in {n} \cap DOMAIN maps[m].table}
    <3>1. PICK e, known : /\ e = Looked(h, m, n)
                          /\ known = IF HasTable(e, m) THEN TableOf(e, m) ELSE e.lazy[m].added
      OBVIOUS
    <3>2. Answers(h, m, n) = {known[x] : x \in {n} \cap DOMAIN known}
      BY <3>1 DEF Answers
    <3>3. Sides(e, maps, Worn)
      BY <2>2, <3>1, LookedSides
    <3>4. /\ n \in DOMAIN known <=> n \in DOMAIN maps[m].table
          /\ n \in DOMAIN known => known[n] = maps[m].table[n]
      <4>1. CASE HasTable(e, m)
        BY <2>2, <3>1, <3>3, <4>1 DEF Sides, Same
      <4>2. CASE ~HasTable(e, m)
        <5>1. Continues(e, maps, Worn, m) /\ known = e.lazy[m].added
          BY <2>2, <3>1, <3>3, <4>2 DEF Sides
        <5>2. e.lazy[m].previous = 0 \/ n \in DOMAIN e.lazy[m].added
          <6>1. ~Needs(h, m, n)
            BY <2>2, <3>1, <4>2, AllocatedSides DEF Looked, Needs
          <6>2. e = h
            BY <3>1, <6>1 DEF Looked
          <6> QED BY <4>2, <6>1, <6>2 DEF Needs
        <5>3. CASE e.lazy[m].previous = 0
          BY <5>1, <5>3 DEF Continues, Same
        <5>4. CASE e.lazy[m].previous # 0 /\ n \in DOMAIN e.lazy[m].added
          BY <5>1, <5>4 DEF Continues
        <5> QED BY <5>2, <5>3, <5>4
      <4> QED BY <4>1, <4>2
    <3> QED BY <3>2, <3>4 DEF Entry
  <2> QED BY <2>1, <2>3, <2>4
<1>2. LazyInit => LazyInv
  BY InitSides
<1>3. LazyInv /\ [LazyNext]_lvars => LazyInv'
  BY LazyStep
<1> QED BY <1>1, <1>2, <1>3, PTL DEF LazySpec
=============================================================================
