---------------------------- MODULE ElementProofs ----------------------------
(***************************************************************************)
(* The elements of IndexedElements for every kMaxVectorSize, every length  *)
(* and all values and descriptors: an element has one home, none is at or  *)
(* above length, and vector, map and length together are the array of      *)
(* ArrayModel.  First what the operations on the record of elements give,  *)
(* then the steps, those of compiled stores (ElementCache) among them.     *)
(***************************************************************************)
EXTENDS ElementCache, SharedLemmas

-----------------------------------------------------------------------------
(* The record of elements, as a value                                      *)

\* The fields are of their types, and the memory of the vector is no larger
\* than kMaxVectorSize.
VectorOf(c) == [0..(c - 1) -> Values \cup {Empty}]

Stored(e) ==
  /\ e \in [dense : BOOLEAN, writable : BOOLEAN, length : Lengths, size : 0..MaxVectorSize,
            vector : {e.vector}, sparse : {e.sparse}]
  /\ Room(e) \in e.size..MaxVectorSize
  /\ e.vector \in VectorOf(Room(e))
  /\ VectorIndices(e) \subseteq Indices
  /\ DOMAIN e.sparse \subseteq Indices
  /\ e.sparse \in [DOMAIN e.sparse -> StoredSlots]

\* The capacity for n elements is enough for them, and not above kMaxVectorSize,
\* which is a capacity itself.
LEMMA CapacityBounds ==
  ASSUME NEW n \in 0..MaxVectorSize
  PROVE  Capacity(n) \in n..MaxVectorSize
<1> DEFINE S == {MinCapacity * 2^k : k \in 0..n}
           Smallest(c) == c >= n /\ \A k \in 0..n : MinCapacity * 2^k >= n => c <= MinCapacity * 2^k
           T == {c \in S : c >= n}
<1>1. MaxVectorSize \in Nat /\ n \in Nat /\ MinCapacity \in Nat /\ MinCapacity >= 1
  BY ElementsAssumption
<1>2. CASE n = 0
  BY <1>1, <1>2 DEF Capacity
<1>3. CASE n # 0
  <2>1. \A k \in Nat : 2^k \in Nat /\ MinCapacity * 2^k \in Nat
    BY <1>1, PowerIsEnough
  <2>2. MinCapacity * 2^n >= n
    <3>1. PICK p \in Nat : p = 2^n /\ p >= n
      BY <1>1, PowerIsEnough
    <3>2. MinCapacity * p >= p
      BY <1>1, <3>1
    <3> QED BY <1>1, <2>1, <3>1, <3>2
  <2>3. S \subseteq Nat /\ MinCapacity * 2^n \in T
    BY <1>1, <2>1, <2>2
  <2>4. \A k \in 0..n : MinCapacity * 2^k \in S
    OBVIOUS
  <2>5. PICK c \in T : \A b \in T : c <= b
    <3> HIDE DEF S
    <3>1. T \subseteq Nat /\ T # {}
      BY <2>3
    <3> HIDE DEF T
    <3> QED BY <3>1, LeastNatural
  <2>6. Capacity(n) = CHOOSE b \in S : Smallest(b)
    BY <1>3 DEF Capacity
  <2> HIDE DEF S
  <2>7. c \in S /\ Smallest(c)
    BY <2>4, <2>5
  <2> HIDE DEF Smallest
  <2>8. Capacity(n) \in S /\ Smallest(Capacity(n))
    BY <2>6, <2>7
  <2>9. Capacity(n) \in Nat /\ Capacity(n) >= n
        /\ \A k \in 0..n : MinCapacity * 2^k >= n => Capacity(n) <= MinCapacity * 2^k
    BY <2>3, <2>8 DEF Smallest
  <2>10. PICK K \in 0..MaxVectorSize : MaxVectorSize = MinCapacity * 2^K
    BY ElementsAssumption
  <2>11. CASE K <= n
    <3>1. K \in 0..n
      BY <1>1, <2>10, <2>11
    <3> QED BY <1>1, <2>9, <2>10, <3>1
  <2>12. CASE ~(K <= n)
    <3>1. PICK p \in Nat : p = 2^n
      BY <1>1, <2>1
    <3>2. PICK q \in Nat : q = 2^K
      BY <1>1, <2>1, <2>10
    <3>3. p <= q
      BY <1>1, <2>10, <2>12, <3>1, <3>2, PowersGrow
    <3>4. MinCapacity * p <= MinCapacity * q
      BY <1>1, <3>3
    <3>5. Capacity(n) <= MinCapacity * p
      BY <1>1, <2>2, <2>9, <3>1
    <3> QED BY <1>1, <2>1, <2>9, <2>10, <3>1, <3>2, <3>4, <3>5
  <2> QED BY <2>11, <2>12
<1> QED BY <1>2, <1>3

\* The room of a vector of c cells.
LEMMA RoomOf ==
  ASSUME NEW e, NEW c \in Nat, DOMAIN e.vector = 0..(c - 1)
  PROVE  Room(e) = c
<1>1. Cardinality(0..(c - 1)) = IF 0 > c - 1 THEN 0 ELSE (c - 1) - 0 + 1
  BY FS_Interval
<1> QED BY <1>1 DEF Room

\* The fields of a record of elements.
LEMMA StoredFieldsOf ==
  ASSUME NEW e, Stored(e)
  PROVE  /\ DOMAIN e = {"dense", "writable", "length", "size", "vector", "sparse"}
         /\ e = [dense |-> e.dense, writable |-> e.writable, length |-> e.length,
                 size |-> e.size, vector |-> e.vector, sparse |-> e.sparse]
         /\ e.dense \in BOOLEAN /\ e.writable \in BOOLEAN
         /\ e.length \in Nat /\ e.length <= MaxLength
         /\ e.size \in Nat /\ e.size <= MaxVectorSize
         /\ Room(e) \in Nat /\ e.size <= Room(e) /\ Room(e) <= MaxVectorSize
         /\ DOMAIN e.vector = 0..(Room(e) - 1)
         /\ \A i \in DOMAIN e.vector : e.vector[i] \in Values \cup {Empty}
         /\ \A i \in 0..(e.size - 1) : i \in DOMAIN e.vector
         /\ VectorIndices(e) \subseteq Indices
         /\ DOMAIN e.sparse \subseteq Indices
         /\ \A i \in DOMAIN e.sparse : e.sparse[i] \in StoredSlots
         /\ MaxLength \in Nat /\ MaxVectorSize \in Nat
<1>1. MaxLength \in Nat /\ MaxVectorSize \in Nat
  BY ElementsAssumption
<1>2. e \in [dense : BOOLEAN, writable : BOOLEAN, length : Lengths, size : 0..MaxVectorSize,
             vector : {e.vector}, sparse : {e.sparse}]
  BY DEF Stored
<1>3. /\ DOMAIN e = {"dense", "writable", "length", "size", "vector", "sparse"}
      /\ e = [dense |-> e.dense, writable |-> e.writable, length |-> e.length,
              size |-> e.size, vector |-> e.vector, sparse |-> e.sparse]
      /\ e.dense \in BOOLEAN /\ e.writable \in BOOLEAN
      /\ e.length \in Lengths /\ e.size \in 0..MaxVectorSize
  BY <1>2
<1>4. /\ e.length \in Nat /\ e.length <= MaxLength
      /\ e.size \in Nat /\ e.size <= MaxVectorSize
  BY <1>1, <1>3 DEF Lengths
<1>5. PICK c \in Nat : c = Room(e) /\ e.size <= c /\ c <= MaxVectorSize /\ e.vector \in VectorOf(c)
  BY <1>1, <1>4 DEF Stored
<1>6. DOMAIN e.vector = 0..(c - 1) /\ \A i \in DOMAIN e.vector : e.vector[i] \in Values \cup {Empty}
  BY <1>5 DEF VectorOf
<1>7. \A i \in 0..(e.size - 1) : i \in DOMAIN e.vector
  BY <1>4, <1>5, <1>6
<1>8. /\ VectorIndices(e) \subseteq Indices /\ DOMAIN e.sparse \subseteq Indices
      /\ \A i \in DOMAIN e.sparse : e.sparse[i] \in StoredSlots
  BY DEF Stored
<1> QED BY <1>1, <1>3, <1>4, <1>5, <1>6, <1>7, <1>8

\* A record of such fields is one of elements.
LEMMA StoredRecord ==
  ASSUME NEW e, NEW c \in Nat,
         e = [dense |-> e.dense, writable |-> e.writable, length |-> e.length,
              size |-> e.size, vector |-> e.vector, sparse |-> e.sparse],
         e.dense \in BOOLEAN, e.writable \in BOOLEAN, e.length \in Lengths,
         e.size \in Nat, e.size <= c, c <= MaxVectorSize, e.vector \in VectorOf(c),
         e.sparse \in [DOMAIN e.sparse -> StoredSlots], DOMAIN e.sparse \subseteq Indices,
         \A i \in 0..(e.size - 1) : e.vector[i] # Empty => i \in Indices
  PROVE  Stored(e) /\ Room(e) = c
<1>1. MaxVectorSize \in Nat
  BY ElementsAssumption
<1>2. DOMAIN e.vector = 0..(c - 1)
  BY DEF VectorOf
<1>3. Room(e) = c
  BY <1>2, RoomOf
<1>4. VectorIndices(e) \subseteq Indices
  BY <1>1, <1>2 DEF VectorIndices, InVector
<1>5. e.size \in 0..MaxVectorSize /\ c \in e.size..MaxVectorSize
  BY <1>1
<1>6. e \in [dense : BOOLEAN, writable : BOOLEAN, length : Lengths, size : 0..MaxVectorSize,
             vector : {e.vector}, sparse : {e.sparse}]
  BY <1>5
<1> QED BY <1>3, <1>4, <1>5, <1>6 DEF Stored

\* Storage::resize keeps what is below the new size and makes holes of the rest.
LEMMA ResizedEffect ==
  ASSUME NEW e, Stored(e), NEW n \in 0..MaxVectorSize, NEW f, f = Resized(e, n)
  PROVE  /\ Stored(f)
         /\ f.size = n /\ f.dense = e.dense /\ f.writable = e.writable
         /\ f.length = e.length /\ f.sparse = e.sparse
         /\ n <= Room(f)
         /\ \A i \in 0..(n - 1) : /\ i \in DOMAIN f.vector
                                  /\ f.vector[i] = IF i < e.size THEN e.vector[i] ELSE Empty
<1> DEFINE grown == n > Cardinality(DOMAIN e.vector)
           c == IF grown THEN Capacity(n) ELSE Room(e)
           room == IF grown THEN 0..(Capacity(n) - 1) ELSE DOMAIN e.vector
           v == [i \in room |-> IF i \in e.size..(n - 1) THEN Empty
                                ELSE IF grown /\ i >= e.size THEN Undefined ELSE e.vector[i]]
<1>1. /\ e = [dense |-> e.dense, writable |-> e.writable, length |-> e.length,
              size |-> e.size, vector |-> e.vector, sparse |-> e.sparse]
      /\ e.size \in Nat /\ Room(e) \in Nat /\ e.size <= Room(e) /\ Room(e) <= MaxVectorSize
      /\ DOMAIN e.vector = 0..(Room(e) - 1)
      /\ \A i \in DOMAIN e.vector : e.vector[i] \in Values \cup {Empty}
      /\ n \in Nat /\ n <= MaxVectorSize /\ MaxVectorSize \in Nat
      /\ VectorIndices(e) \subseteq Indices
  BY StoredFieldsOf
<1>2. f = [dense |-> e.dense, writable |-> e.writable, length |-> e.length,
           size |-> n, vector |-> v, sparse |-> e.sparse]
  BY <1>1 DEF Resized
<1>3. Capacity(n) \in Nat /\ n <= Capacity(n) /\ Capacity(n) <= MaxVectorSize
  BY <1>1, CapacityBounds
<1>4. grown <=> n > Room(e)
  BY DEF Room
<1>5. c \in Nat /\ n <= c /\ c <= MaxVectorSize /\ room = 0..(c - 1)
  BY <1>1, <1>3, <1>4
<1>6. \A i \in room : i < e.size => i \in DOMAIN e.vector
  BY <1>1, <1>5
<1>7. \A i \in room : v[i] = IF i \in e.size..(n - 1) THEN Empty
                             ELSE IF grown /\ i >= e.size THEN Undefined ELSE e.vector[i]
  OBVIOUS
<1>8. DOMAIN v = room
  OBVIOUS
<1> HIDE DEF v
<1>9. \A i \in room : v[i] \in Values \cup {Empty}
  <2> SUFFICES ASSUME NEW i \in room PROVE v[i] \in Values \cup {Empty}
    OBVIOUS
  <2>1. i \in Nat
    BY <1>5
  <2>2. CASE i \in e.size..(n - 1)
    BY <1>7, <2>2
  <2>3. CASE ~(i \in e.size..(n - 1)) /\ grown /\ i >= e.size
    BY <1>7, <2>3, DescriptorAssumption
  <2>4. CASE ~(i \in e.size..(n - 1)) /\ ~(grown /\ i >= e.size)
    <3>1. v[i] = e.vector[i]
      BY <1>7, <2>4
    <3>2. i \in DOMAIN e.vector
      BY <1>1, <1>6, <2>1, <2>4
    <3> QED BY <1>1, <3>1, <3>2
  <2> QED BY <2>2, <2>3, <2>4
<1>10. \A i \in 0..(n - 1) : i \in room /\ v[i] = IF i < e.size THEN e.vector[i] ELSE Empty
  BY <1>1, <1>5, <1>7
<1>11. v \in VectorOf(c)
  <2>1. v = [i \in room |-> v[i]]
    BY <1>8 DEF v
  <2> HIDE DEF room, c
  <2> QED BY <1>5, <1>9, <2>1 DEF VectorOf
<1>12. \A i \in 0..(n - 1) : v[i] # Empty => i \in Indices
  <2> SUFFICES ASSUME NEW i \in 0..(n - 1), v[i] # Empty PROVE i \in Indices
    OBVIOUS
  <2>1. i < e.size /\ e.vector[i] # Empty
    BY <1>10
  <2>2. i \in DOMAIN e.vector
    BY <1>1, <2>1
  <2> QED BY <1>1, <2>1, <2>2 DEF VectorIndices, InVector
<1> HIDE DEF room, c, grown
<1>13. Stored(f) /\ Room(f) = c
  <2>1. /\ e.dense \in BOOLEAN /\ e.writable \in BOOLEAN /\ e.length \in Lengths
        /\ e.sparse \in [DOMAIN e.sparse -> StoredSlots] /\ DOMAIN e.sparse \subseteq Indices
    BY <1>1 DEF Stored
  <2>2. /\ f.dense = e.dense /\ f.writable = e.writable /\ f.length = e.length
        /\ f.size = n /\ f.vector = v /\ f.sparse = e.sparse
        /\ f = [dense |-> f.dense, writable |-> f.writable, length |-> f.length,
                size |-> f.size, vector |-> f.vector, sparse |-> f.sparse]
    BY <1>2
  <2> QED BY <1>1, <1>5, <1>11, <1>12, <2>1, <2>2, StoredRecord
<1> QED BY <1>2, <1>5, <1>8, <1>10, <1>13

\* A value written over an element of the vector.
Written(e, i, x) == [e EXCEPT !.vector[i] = x]

\* A write into the vector changes the one element.
LEMMA WriteEffect ==
  ASSUME NEW e, Stored(e), NEW i \in Indices, i < e.size, NEW x \in Values \cup {Empty},
         NEW f, f = Written(e, i, x)
  PROVE  /\ Stored(f)
         /\ f.size = e.size /\ f.dense = e.dense /\ f.writable = e.writable
         /\ f.length = e.length /\ f.sparse = e.sparse
         /\ f.vector[i] = x
         /\ \A j \in 0..(e.size - 1) : j # i => f.vector[j] = e.vector[j]
<1> DEFINE v == [e.vector EXCEPT ![i] = x]
<1>1. /\ e = [dense |-> e.dense, writable |-> e.writable, length |-> e.length,
              size |-> e.size, vector |-> e.vector, sparse |-> e.sparse]
      /\ e.size \in Nat /\ Room(e) \in Nat /\ e.size <= Room(e) /\ Room(e) <= MaxVectorSize
      /\ DOMAIN e.vector = 0..(Room(e) - 1)
      /\ MaxVectorSize \in Nat /\ MaxLength \in Nat
      /\ VectorIndices(e) \subseteq Indices
  BY StoredFieldsOf
<1>2. f = [dense |-> e.dense, writable |-> e.writable, length |-> e.length,
           size |-> e.size, vector |-> v, sparse |-> e.sparse]
  BY <1>1 DEF Written
<1>3. i \in DOMAIN e.vector
  BY <1>1 DEF Indices
<1>4. e.vector \in VectorOf(Room(e))
  BY DEF Stored
<1>5. v \in VectorOf(Room(e)) /\ v[i] = x /\ \A j \in DOMAIN e.vector : j # i => v[j] = e.vector[j]
  BY <1>3, <1>4 DEF VectorOf
<1> HIDE DEF v
<1>6. \A j \in 0..(e.size - 1) : j \in DOMAIN e.vector
  BY <1>1
<1>7. \A j \in 0..(e.size - 1) : v[j] # Empty => j \in Indices
  <2> SUFFICES ASSUME NEW j \in 0..(e.size - 1), v[j] # Empty, j # i PROVE j \in Indices
    OBVIOUS
  <2>1. j \in DOMAIN e.vector /\ j < e.size /\ e.vector[j] # Empty
    BY <1>1, <1>5, <1>6
  <2> QED BY <1>1, <2>1 DEF VectorIndices, InVector
<1>8. /\ f.dense = e.dense /\ f.writable = e.writable /\ f.length = e.length
      /\ f.size = e.size /\ f.vector = v /\ f.sparse = e.sparse
      /\ f = [dense |-> f.dense, writable |-> f.writable, length |-> f.length,
              size |-> f.size, vector |-> f.vector, sparse |-> f.sparse]
  BY ONLY <1>2
<1>9. Stored(f)
  <2>1. /\ e.dense \in BOOLEAN /\ e.writable \in BOOLEAN /\ e.length \in Lengths
        /\ e.sparse \in [DOMAIN e.sparse -> StoredSlots] /\ DOMAIN e.sparse \subseteq Indices
    BY DEF Stored
  <2> QED BY ONLY <1>1, <1>5, <1>7, <1>8, <2>1, StoredRecord
<1> QED BY <1>5, <1>6, <1>8, <1>9

\* MakeSparse moves the elements of the vector into the map.
LEMMA MakeSparseEffect ==
  ASSUME NEW e, Stored(e), NEW f, f = MakeSparse(e)
  PROVE  /\ Stored(f)
         /\ f.size = e.size /\ ~f.dense /\ f.writable = e.writable /\ f.length = e.length
         /\ DOMAIN f.sparse = VectorIndices(e) \cup DOMAIN e.sparse
         /\ \A i \in DOMAIN f.sparse :
              f.sparse[i] = IF i \in VectorIndices(e) THEN Default(e.vector[i]) ELSE e.sparse[i]
         /\ VectorIndices(f) = {}
<1> DEFINE v == [i \in DOMAIN e.vector |-> IF i < e.size THEN Empty ELSE e.vector[i]]
           s == [i \in VectorIndices(e) \cup DOMAIN e.sparse |->
                   IF InVector(e, i) THEN Default(e.vector[i]) ELSE e.sparse[i]]
<1>1. /\ e = [dense |-> e.dense, writable |-> e.writable, length |-> e.length,
              size |-> e.size, vector |-> e.vector, sparse |-> e.sparse]
      /\ e.size \in Nat /\ Room(e) \in Nat /\ e.size <= Room(e) /\ Room(e) <= MaxVectorSize
      /\ DOMAIN e.vector = 0..(Room(e) - 1)
      /\ \A i \in DOMAIN e.vector : e.vector[i] \in Values \cup {Empty}
      /\ \A i \in 0..(e.size - 1) : i \in DOMAIN e.vector
      /\ MaxVectorSize \in Nat /\ MaxLength \in Nat
      /\ VectorIndices(e) \subseteq Indices /\ DOMAIN e.sparse \subseteq Indices
      /\ \A i \in DOMAIN e.sparse : e.sparse[i] \in StoredSlots
  BY StoredFieldsOf
<1>2. f = [dense |-> FALSE, writable |-> e.writable, length |-> e.length,
           size |-> e.size, vector |-> v, sparse |-> s]
  BY <1>1 DEF MakeSparse
<1>3. \A i \in Indices : InVector(e, i) <=> i \in VectorIndices(e)
  <2> SUFFICES ASSUME NEW i \in Indices, InVector(e, i) PROVE i \in VectorIndices(e)
    BY DEF VectorIndices
  <2>1. i \in 0..(e.size - 1)
    BY <1>1 DEF InVector, Indices
  <2> QED BY <1>1, <2>1 DEF VectorIndices
<1>4. /\ DOMAIN s = VectorIndices(e) \cup DOMAIN e.sparse
      /\ \A i \in DOMAIN s :
           s[i] = IF i \in VectorIndices(e) THEN Default(e.vector[i]) ELSE e.sparse[i]
  BY <1>1, <1>3
<1>5. \A i \in VectorIndices(e) : Default(e.vector[i]) \in StoredSlots
  <2> SUFFICES ASSUME NEW i \in VectorIndices(e) PROVE Default(e.vector[i]) \in StoredSlots
    OBVIOUS
  <2>1. e.vector[i] \in Values
    BY <1>1 DEF VectorIndices, InVector
  <2> QED BY <2>1 DEF Default, StoredSlots, StoredAttributes
<1>6. \A i \in DOMAIN s : s[i] \in StoredSlots
  BY <1>1, <1>4, <1>5
<1>7. s \in [DOMAIN s -> StoredSlots]
  <2>1. s = [i \in DOMAIN s |-> s[i]]
    BY <1>4
  <2> HIDE DEF s
  <2> QED BY <1>6, <2>1
<1>8. v \in VectorOf(Room(e)) /\ \A i \in 0..(e.size - 1) : v[i] = Empty
  BY <1>1 DEF VectorOf
<1>9. DOMAIN v = DOMAIN e.vector
  OBVIOUS
<1> HIDE DEF v, s
<1>10. /\ f.dense = FALSE /\ f.writable = e.writable /\ f.length = e.length
       /\ f.size = e.size /\ f.vector = v /\ f.sparse = s
       /\ f = [dense |-> f.dense, writable |-> f.writable, length |-> f.length,
               size |-> f.size, vector |-> f.vector, sparse |-> f.sparse]
  BY <1>2
<1>11. Stored(f)
  <2>1. e.writable \in BOOLEAN /\ e.length \in Lengths
    BY DEF Stored
  <2>2. DOMAIN s \subseteq Indices
    BY <1>1, <1>4
  <2>3. \A i \in 0..(e.size - 1) : v[i] # Empty => i \in Indices
    BY <1>8
  <2> QED BY <1>1, <1>7, <1>8, <1>10, <2>1, <2>2, <2>3, StoredRecord
<1>12. VectorIndices(f) = {}
  <2> SUFFICES ASSUME NEW i \in VectorIndices(f) PROVE FALSE
    OBVIOUS
  <2>1. i \in DOMAIN v /\ i < e.size /\ v[i] # Empty
    BY <1>10 DEF VectorIndices, InVector
  <2>2. i \in 0..(e.size - 1)
    BY <1>1, <1>9, <2>1
  <2> QED BY <1>8, <2>1, <2>2
<1> QED BY <1>4, <1>10, <1>11, <1>12

\* Elements taken out of the map, which may leave an array dense.
LEMMA ErasedEffect ==
  ASSUME NEW e, Stored(e), NEW gone, NEW f, f = Erased(e, gone)
  PROVE  /\ Stored(f)
         /\ f.size = e.size /\ f.vector = e.vector /\ f.writable = e.writable /\ f.length = e.length
         /\ DOMAIN f.sparse = DOMAIN e.sparse \ gone
         /\ \A i \in DOMAIN f.sparse : f.sparse[i] = e.sparse[i]
         /\ f.dense # e.dense => f.dense /\ DOMAIN f.sparse = {}
<1> DEFINE left == [i \in DOMAIN e.sparse \ gone |-> e.sparse[i]]
<1>1. /\ e = [dense |-> e.dense, writable |-> e.writable, length |-> e.length,
              size |-> e.size, vector |-> e.vector, sparse |-> e.sparse]
      /\ e.size \in Nat /\ Room(e) \in Nat /\ e.size <= Room(e) /\ Room(e) <= MaxVectorSize
      /\ MaxVectorSize \in Nat
      /\ \A i \in 0..(e.size - 1) : i \in DOMAIN e.vector
      /\ VectorIndices(e) \subseteq Indices /\ DOMAIN e.sparse \subseteq Indices
      /\ \A i \in DOMAIN e.sparse : e.sparse[i] \in StoredSlots
  BY StoredFieldsOf
<1>2. \E b \in BOOLEAN, s \in {<<>>, left} :
        /\ f = [dense |-> b, writable |-> e.writable, length |-> e.length,
                size |-> e.size, vector |-> e.vector, sparse |-> s]
        /\ DOMAIN s = DOMAIN left /\ (b # e.dense => b /\ DOMAIN s = {})
  <2>1. DOMAIN <<>> = {}
    OBVIOUS
  <2>2. CASE DOMAIN left = {} /\ DOMAIN e.sparse # {}
    <3>1. f = MakeDense(e)
      BY <2>2 DEF Erased
    <3>2. f = [dense |-> TRUE, writable |-> e.writable, length |-> e.length,
               size |-> e.size, vector |-> e.vector, sparse |-> <<>>]
      BY <1>1, <3>1 DEF MakeDense
    <3> QED BY <2>1, <2>2, <3>2
  <2>3. CASE ~(DOMAIN left = {} /\ DOMAIN e.sparse # {})
    <3>1. f = [e EXCEPT !.sparse = left]
      BY <2>3 DEF Erased
    <3>2. f = [dense |-> e.dense, writable |-> e.writable, length |-> e.length,
               size |-> e.size, vector |-> e.vector, sparse |-> left]
      BY <1>1, <3>1
    <3>3. e.dense \in BOOLEAN
      BY DEF Stored
    <3> QED BY <3>2, <3>3
  <2> QED BY <2>2, <2>3
<1>3. PICK b \in BOOLEAN, s \in {<<>>, left} :
        /\ f = [dense |-> b, writable |-> e.writable, length |-> e.length,
                size |-> e.size, vector |-> e.vector, sparse |-> s]
        /\ DOMAIN s = DOMAIN left /\ (b # e.dense => b /\ DOMAIN s = {})
  BY <1>2
<1>4. DOMAIN left = DOMAIN e.sparse \ gone /\ \A i \in DOMAIN left : left[i] = e.sparse[i]
  OBVIOUS
<1>5. \A i \in DOMAIN s : s[i] = e.sparse[i]
  BY <1>3, <1>4
<1>6. s \in [DOMAIN s -> StoredSlots]
  <2>1. \A i \in DOMAIN s : s[i] \in StoredSlots
    BY <1>1, <1>3, <1>4, <1>5
  <2>2. CASE s = left
    <3>1. s = [i \in DOMAIN s |-> s[i]]
      BY <2>2
    <3> QED BY <2>1, <3>1
  <2>3. CASE s = <<>> /\ s # left
    <3>1. DOMAIN s = {} /\ s = [i \in {} |-> s[i]]
      BY <2>3
    <3> QED BY <3>1
  <2> QED BY <2>2, <2>3
<1> HIDE DEF left
<1>7. /\ f.dense = b /\ f.writable = e.writable /\ f.length = e.length
      /\ f.size = e.size /\ f.vector = e.vector /\ f.sparse = s
      /\ f = [dense |-> f.dense, writable |-> f.writable, length |-> f.length,
              size |-> f.size, vector |-> f.vector, sparse |-> f.sparse]
  BY <1>3
<1>8. Stored(f)
  <2>1. e.writable \in BOOLEAN /\ e.length \in Lengths /\ e.vector \in VectorOf(Room(e))
    BY DEF Stored
  <2>2. DOMAIN s \subseteq Indices
    BY <1>1, <1>3, <1>4
  <2>3. \A i \in 0..(e.size - 1) : e.vector[i] # Empty => i \in Indices
    BY <1>1 DEF VectorIndices, InVector
  <2> QED BY <1>1, <1>6, <1>7, <2>1, <2>2, <2>3, StoredRecord
<1> QED BY <1>3, <1>4, <1>5, <1>7, <1>8

\* length when the element i is there: it is above i.
LengthWith(l, i) == IF i < l THEN l ELSE i + 1

\* A record with another length.
WithLength(e, l) == [e EXCEPT !.length = l]

\* A change of the length changes nothing else.
LEMMA LengthEffect ==
  ASSUME NEW e, Stored(e), NEW l \in Lengths, NEW f, f = WithLength(e, l)
  PROVE  /\ Stored(f)
         /\ f.length = l /\ f.size = e.size /\ f.dense = e.dense /\ f.writable = e.writable
         /\ f.vector = e.vector /\ f.sparse = e.sparse
         /\ VectorIndices(f) = VectorIndices(e)
<1>1. e = [dense |-> e.dense, writable |-> e.writable, length |-> e.length,
           size |-> e.size, vector |-> e.vector, sparse |-> e.sparse]
  BY StoredFieldsOf
<1>2. f = [dense |-> e.dense, writable |-> e.writable, length |-> l,
           size |-> e.size, vector |-> e.vector, sparse |-> e.sparse]
  BY <1>1 DEF WithLength
<1>3. /\ f.length = l /\ f.size = e.size /\ f.dense = e.dense /\ f.writable = e.writable
      /\ f.vector = e.vector /\ f.sparse = e.sparse
  BY ONLY <1>2
<1>4. VectorIndices(f) = VectorIndices(e) /\ Room(f) = Room(e)
  BY ONLY <1>3 DEF VectorIndices, InVector, Room
<1>5. f \in [dense : BOOLEAN, writable : BOOLEAN, length : Lengths, size : 0..MaxVectorSize,
             vector : {e.vector}, sparse : {e.sparse}]
  BY <1>2 DEF Stored
<1> QED BY <1>3, <1>4, <1>5 DEF Stored

\* Lengthening the array for an index changes the length alone.
LEMMA LongerEffect ==
  ASSUME NEW e, Stored(e), NEW i \in Indices, NEW f, f = Longer(e, i)
  PROVE  /\ Stored(f)
         /\ f.length = LengthWith(e.length, i)
         /\ f.size = e.size /\ f.dense = e.dense /\ f.writable = e.writable
         /\ f.vector = e.vector /\ f.sparse = e.sparse
         /\ VectorIndices(f) = VectorIndices(e)
<1>1. e.length \in Nat /\ e.length <= MaxLength /\ MaxLength \in Nat
  BY StoredFieldsOf
<1>2. LengthWith(e.length, i) \in Lengths
  BY <1>1 DEF LengthWith, Lengths, Indices
<1>3. DOMAIN e = {"dense", "writable", "length", "size", "vector", "sparse"}
  BY StoredFieldsOf
<1>4. f = WithLength(e, LengthWith(e.length, i))
  BY <1>3 DEF Longer, LengthWith, WithLength
<1> QED BY <1>2, <1>4, LengthEffect

-----------------------------------------------------------------------------
(* The elements of an array, wherever they are                             *)

\* What is in the map of a dense array is above the vector and below length.
Apart(e) == e.dense => \A i \in DOMAIN e.sparse : MaxVectorSize <= i /\ i < e.length

\* Nothing is at or above length, or in the vector of a sparse array.
Tidy(e) ==
  /\ \A i \in VectorIndices(e) \cup DOMAIN e.sparse : i < e.length
  /\ ~e.dense => VectorIndices(e) = {}

Whole(e) == Stored(e) /\ Apart(e)

\* f has the elements, the length and the flag of e.
SameArray(e, f) ==
  /\ Owned(f) = Owned(e)
  /\ \A i \in Owned(e) : Own(f, i) = Own(e, i)
  /\ f.length = e.length /\ f.writable = e.writable

\* f is e with the element s at i.
HasElement(e, f, i, s) ==
  /\ Owned(f) = Owned(e) \cup {i} /\ Own(f, i) = s
  /\ \A j \in Owned(e) \ {i} : Own(f, j) = Own(e, j)
  /\ f.length = LengthWith(e.length, i) /\ f.writable = e.writable

\* f is e without the elements in gone.
Lacks(e, f, gone) ==
  /\ Owned(f) = Owned(e) \ gone
  /\ \A j \in Owned(f) : Own(f, j) = Own(e, j)
  /\ f.writable = e.writable

\* The elements are those of the vector and those of the map.
LEMMA OwnedOf ==
  ASSUME NEW e, Whole(e), e.dense \/ Tidy(e)
  PROVE  /\ Owned(e) = VectorIndices(e) \cup DOMAIN e.sparse
         /\ VectorIndices(e) \cap DOMAIN e.sparse = {}
         /\ \A i \in Owned(e) :
              Own(e, i) = IF i \in VectorIndices(e) THEN Default(e.vector[i]) ELSE e.sparse[i]
         /\ \A i \in Indices : InVector(e, i) <=> i \in VectorIndices(e)
<1>1. /\ e.dense \in BOOLEAN /\ e.size \in Nat /\ e.size <= MaxVectorSize /\ MaxVectorSize \in Nat
      /\ e.length \in Nat /\ MaxLength \in Nat
      /\ \A i \in 0..(e.size - 1) : i \in DOMAIN e.vector
      /\ VectorIndices(e) \subseteq Indices /\ DOMAIN e.sparse \subseteq Indices
  BY StoredFieldsOf DEF Whole
<1>2. \A i \in Indices : InVector(e, i) <=> i \in VectorIndices(e)
  <2> SUFFICES ASSUME NEW i \in Indices, InVector(e, i) PROVE i \in VectorIndices(e)
    BY DEF VectorIndices
  <2>1. i \in 0..(e.size - 1)
    BY <1>1 DEF InVector, Indices
  <2> QED BY <1>1, <2>1 DEF VectorIndices
<1>3. \A i \in Indices : i \in Int
  BY <1>1 DEF Indices
<1>4. CASE e.dense
  <2>1. \A i \in DOMAIN e.sparse : MaxVectorSize <= i /\ i < e.length
    BY <1>4 DEF Whole, Apart
  <2>2. \A i \in Indices : (e.dense /\ i < e.size) => (i \in VectorIndices(e) <=> e.vector[i] # Empty)
    BY <1>2 DEF InVector
  <2>3. \A i \in DOMAIN e.sparse : ~(i < e.size)
    BY <1>1, <1>3, <2>1
  <2>4. \A i \in VectorIndices(e) : i < e.size
    BY DEF VectorIndices, InVector
  <2>5. Owned(e) = VectorIndices(e) \cup DOMAIN e.sparse
    <3>1. ASSUME NEW i \in Indices
          PROVE  i \in Owned(e) <=> i \in VectorIndices(e) \cup DOMAIN e.sparse
      <4>1. CASE i < e.size
        BY <1>4, <2>2, <2>3, <4>1 DEF Owned
      <4>2. CASE ~(i < e.size)
        BY <1>4, <2>1, <2>4, <4>2 DEF Owned
      <4> QED BY <4>1, <4>2
    <3>2. Owned(e) \subseteq Indices
      BY DEF Owned
    <3> QED BY <1>1, <3>1, <3>2
  <2>6. ASSUME NEW i \in Owned(e)
        PROVE  Own(e, i) = IF i \in VectorIndices(e) THEN Default(e.vector[i]) ELSE e.sparse[i]
    BY <1>4, <2>3, <2>4, <2>5 DEF Own
  <2> QED BY <1>2, <2>3, <2>4, <2>5, <2>6
<1>5. CASE ~e.dense
  <2>1. VectorIndices(e) = {} /\ \A i \in DOMAIN e.sparse : i < e.length
    BY <1>5 DEF Tidy
  <2>2. Owned(e) = DOMAIN e.sparse
    BY <1>1, <1>5, <2>1 DEF Owned
  <2> QED BY <1>2, <1>5, <2>1, <2>2 DEF Own
<1> QED BY <1>1, <1>4, <1>5

\* Vector and map of f hold what those of e do, and s at i.
Adds(e, f, i, s) ==
  /\ VectorIndices(f) \cup DOMAIN f.sparse = VectorIndices(e) \cup DOMAIN e.sparse \cup {i}
  /\ i \in VectorIndices(f) => Default(f.vector[i]) = s
  /\ i \notin VectorIndices(f) => f.sparse[i] = s
  /\ \A j \in VectorIndices(f) \ {i} : j \in VectorIndices(e) /\ f.vector[j] = e.vector[j]
  /\ \A j \in DOMAIN f.sparse \ {i} : j \notin VectorIndices(e) /\ f.sparse[j] = e.sparse[j]
  /\ f.length = LengthWith(e.length, i) /\ f.writable = e.writable

\* An element that the representation gained is one the array gained: no other
\* element of the array is touched.
LEMMA ElementAdded ==
  ASSUME NEW e, NEW f, Whole(e), Whole(f), e.dense \/ Tidy(e), f.dense \/ Tidy(f),
         NEW i \in Indices, NEW s, Adds(e, f, i, s)
  PROVE  HasElement(e, f, i, s)
<1>1. /\ Owned(e) = VectorIndices(e) \cup DOMAIN e.sparse
      /\ \A j \in Owned(e) :
           Own(e, j) = IF j \in VectorIndices(e) THEN Default(e.vector[j]) ELSE e.sparse[j]
  BY OwnedOf
<1>2. /\ Owned(f) = VectorIndices(f) \cup DOMAIN f.sparse
      /\ \A j \in Owned(f) :
           Own(f, j) = IF j \in VectorIndices(f) THEN Default(f.vector[j]) ELSE f.sparse[j]
  BY OwnedOf
<1>3. Owned(f) = Owned(e) \cup {i} /\ Own(f, i) = s
  BY <1>1, <1>2 DEF Adds
<1>4. ASSUME NEW j \in Owned(e) \ {i} PROVE Own(f, j) = Own(e, j)
  BY <1>1, <1>2, <1>3 DEF Adds
<1>5. f.length = LengthWith(e.length, i) /\ f.writable = e.writable
  BY DEF Adds
<1> QED BY <1>3, <1>4, <1>5 DEF HasElement

\* DefineOwnIndexedValueDenseInternal: one element of the vector, which is
\* resized before when the index is behind it.
LEMMA DenseWrite ==
  ASSUME NEW e, Whole(e), e.dense, NEW i \in Indices, i < MaxVectorSize,
         NEW g, g = IF i < e.size THEN e ELSE Resized(e, i + 1),
         NEW x \in Values, NEW f, f = Longer(Written(g, i, x), i)
  PROVE  /\ Whole(f) /\ f.dense
         /\ Tidy(e) => Tidy(f)
         /\ HasElement(e, f, i, Default(x))
         /\ g.vector[i] = IF i \in VectorIndices(e) THEN e.vector[i] ELSE Empty
<1>0. Stored(e)
  BY DEF Whole
<1>1. /\ e.size \in Nat /\ e.size <= MaxVectorSize /\ MaxVectorSize \in Nat
      /\ e.length \in Nat /\ MaxLength \in Nat /\ i \in Nat /\ Stored(e)
      /\ \A j \in 0..(e.size - 1) : j \in DOMAIN e.vector
      /\ VectorIndices(e) \subseteq Indices /\ DOMAIN e.sparse \subseteq Indices
      /\ \A j \in Indices : j \in Nat
  BY StoredFieldsOf DEF Whole, Indices
<1>2. /\ Stored(g) /\ i < g.size /\ e.size <= g.size /\ g.size \in Nat
      /\ g.dense = e.dense /\ g.writable = e.writable /\ g.length = e.length /\ g.sparse = e.sparse
      /\ \A j \in 0..(g.size - 1) : /\ j \in DOMAIN g.vector
                                    /\ g.vector[j] = IF j < e.size THEN e.vector[j] ELSE Empty
  <2>1. CASE i < e.size
    <3>1. g = e
      BY <2>1
    <3> QED BY ONLY <1>1, <2>1, <3>1
  <2>2. CASE ~(i < e.size)
    <3>1. PICK n \in 0..MaxVectorSize : n = i + 1 /\ g = Resized(e, n)
      BY <1>1, <2>2
    <3>2. /\ Stored(g) /\ g.size = n /\ g.dense = e.dense /\ g.writable = e.writable
          /\ g.length = e.length /\ g.sparse = e.sparse
          /\ \A j \in 0..(n - 1) : /\ j \in DOMAIN g.vector
                                      /\ g.vector[j] = IF j < e.size THEN e.vector[j] ELSE Empty
      BY ONLY <1>0, <3>1, ResizedEffect
    <3> QED BY ONLY <1>1, <2>2, <3>1, <3>2
  <2> QED BY <2>1, <2>2
<1>3. PICK h : h = Written(g, i, x) /\ i \in Indices /\ x \in Values
  OBVIOUS
<1>4. /\ Stored(h) /\ h.size = g.size /\ h.dense = g.dense /\ h.writable = g.writable
      /\ h.length = g.length /\ h.sparse = g.sparse
      /\ h.vector[i] = x
      /\ \A j \in 0..(g.size - 1) : j # i => h.vector[j] = g.vector[j]
  <2>1. Stored(g) /\ i < g.size
    BY <1>2
  <2>2. x \in Values \cup {Empty}
    OBVIOUS
  <2> QED BY ONLY <1>3, <2>1, <2>2, WriteEffect
<1>5. f = Longer(h, i)
  BY <1>3
<1>6. /\ Stored(f) /\ f.length = LengthWith(e.length, i)
      /\ f.size = g.size /\ f.dense = e.dense /\ f.writable = e.writable
      /\ f.vector = h.vector /\ f.sparse = e.sparse
  <2>1. Stored(h)
    BY <1>4
  <2>2. /\ Stored(f) /\ f.length = LengthWith(h.length, i)
        /\ f.size = h.size /\ f.dense = h.dense /\ f.writable = h.writable
        /\ f.vector = h.vector /\ f.sparse = h.sparse
    BY ONLY <1>3, <1>5, <2>1, LongerEffect
  <2> QED BY ONLY <1>2, <1>4, <2>2
<1>7. \A j \in 0..(f.size - 1) : j \in DOMAIN f.vector
  BY <1>6, StoredFieldsOf
<1>8. \A j : j \in VectorIndices(f) => j \in 0..(g.size - 1)
  <2>1. DOMAIN f.vector \subseteq Nat
    BY <1>6, StoredFieldsOf
  <2> QED BY <1>2, <1>6, <2>1 DEF VectorIndices, InVector
<1>9. \A j \in VectorIndices(f) : j = i \/ (j \in VectorIndices(e) /\ f.vector[j] = e.vector[j])
  <2> SUFFICES ASSUME NEW j \in VectorIndices(f), j # i
               PROVE  j \in VectorIndices(e) /\ f.vector[j] = e.vector[j]
    OBVIOUS
  <2>1. j \in 0..(g.size - 1) /\ f.vector[j] # Empty /\ f.vector[j] = g.vector[j]
    BY <1>4, <1>6, <1>8 DEF VectorIndices, InVector
  <2>2. j < e.size /\ f.vector[j] = e.vector[j]
    BY <1>2, <2>1
  <2>3. j \in DOMAIN e.vector
    BY <1>1, <2>1, <2>2
  <2> QED BY <2>1, <2>2, <2>3 DEF VectorIndices, InVector
<1>10. i \in VectorIndices(f)
  <2>1. x # Empty
    BY ElementsAssumption
  <2>2. i \in 0..(f.size - 1)
    BY <1>1, <1>2, <1>6
  <2> QED BY <1>2, <1>4, <1>6, <1>7, <2>1, <2>2 DEF VectorIndices, InVector
<1>11. \A j \in VectorIndices(e) : j \in VectorIndices(f)
  <2> SUFFICES ASSUME NEW j \in VectorIndices(e), j # i PROVE j \in VectorIndices(f)
    BY <1>10
  <2>1. j \in Nat /\ j < e.size /\ e.vector[j] # Empty
    BY <1>1 DEF VectorIndices, InVector
  <2>2. j \in 0..(g.size - 1)
    BY <1>1, <1>2, <2>1
  <2>3. f.vector[j] = e.vector[j]
    BY <1>2, <1>4, <1>6, <2>1, <2>2
  <2> QED BY <1>2, <1>6, <1>7, <2>1, <2>2, <2>3 DEF VectorIndices, InVector
<1>12. Apart(f)
  <2>1. \A j \in DOMAIN e.sparse : j \in Nat /\ MaxVectorSize <= j /\ j < e.length
    BY <1>1 DEF Whole, Apart
  <2>2. f.length \in Nat /\ e.length <= f.length
    BY <1>1, <1>6 DEF LengthWith
  <2> QED BY <1>1, <1>6, <2>1, <2>2 DEF Apart
<1>13. HasElement(e, f, i, Default(x))
  <2>1. Whole(f) /\ f.dense
    BY <1>6, <1>12 DEF Whole
  <2>2. VectorIndices(f) \cup DOMAIN f.sparse = VectorIndices(e) \cup DOMAIN e.sparse \cup {i}
    BY <1>6, <1>9, <1>10, <1>11
  <2>3. \A j \in VectorIndices(f) \ {i} : j \in VectorIndices(e) /\ f.vector[j] = e.vector[j]
    BY <1>9
  <2>4. \A j \in DOMAIN f.sparse : j \notin VectorIndices(e) /\ f.sparse[j] = e.sparse[j]
    <3>1. VectorIndices(e) \cap DOMAIN e.sparse = {}
      BY OwnedOf
    <3> QED BY <1>6, <3>1
  <2>5. Default(f.vector[i]) = Default(x)
    BY <1>4, <1>6
  <2>6. Adds(e, f, i, Default(x))
    BY <1>6, <1>10, <2>2, <2>3, <2>4, <2>5 DEF Adds
  <2> QED BY <2>1, <2>6, ElementAdded
<1>14. Tidy(e) => Tidy(f)
  <2> SUFFICES ASSUME Tidy(e) PROVE Tidy(f)
    OBVIOUS
  <2>1. \A j \in VectorIndices(e) \cup DOMAIN e.sparse : j < e.length
    BY DEF Tidy
  <2>2. i < f.length /\ \A j \in Nat : j < e.length => j < f.length
    BY <1>1, <1>6 DEF LengthWith
  <2>3. \A j \in VectorIndices(f) \cup DOMAIN f.sparse : j < f.length
    BY <1>1, <1>6, <1>9, <2>1, <2>2
  <2> QED BY <1>6, <2>3 DEF Tidy
<1>15. g.vector[i] = IF i \in VectorIndices(e) THEN e.vector[i] ELSE Empty
  <2>1. i \in VectorIndices(e) <=> InVector(e, i)
    BY OwnedOf
  <2> QED BY <1>1, <1>2, <2>1 DEF InVector
<1> QED BY <1>6, <1>12, <1>13, <1>14, <1>15 DEF Whole

\* MakeSparse is not seen from outside.
LEMMA SparseSame ==
  ASSUME NEW e, Whole(e), NEW f, f = MakeSparse(e)
  PROVE  /\ Whole(f) /\ ~f.dense
         /\ VectorIndices(f) = {}
         /\ Tidy(e) => Tidy(f) /\ SameArray(e, f)
<1>1. Stored(e)
  BY DEF Whole
<1>2. /\ Stored(f)
      /\ f.size = e.size /\ ~f.dense /\ f.writable = e.writable /\ f.length = e.length
      /\ DOMAIN f.sparse = VectorIndices(e) \cup DOMAIN e.sparse
      /\ \A i \in DOMAIN f.sparse :
           f.sparse[i] = IF i \in VectorIndices(e) THEN Default(e.vector[i]) ELSE e.sparse[i]
      /\ VectorIndices(f) = {}
  BY ONLY <1>1, f = MakeSparse(e), MakeSparseEffect
<1>3. Whole(f)
  BY <1>2 DEF Whole, Apart
<1>4. ASSUME Tidy(e) PROVE Tidy(f) /\ SameArray(e, f)
  <2>1. Tidy(f)
    BY <1>2, <1>4 DEF Tidy
  <2>2. /\ Owned(e) = VectorIndices(e) \cup DOMAIN e.sparse
        /\ \A i \in Owned(e) :
             Own(e, i) = IF i \in VectorIndices(e) THEN Default(e.vector[i]) ELSE e.sparse[i]
    BY <1>4, OwnedOf
  <2>3. Owned(f) = DOMAIN f.sparse /\ \A i \in Owned(f) : Own(f, i) = f.sparse[i]
    BY <1>2, <1>3, <2>1, OwnedOf
  <2> QED BY <1>2, <2>1, <2>2, <2>3 DEF SameArray
<1> QED BY <1>2, <1>3, <1>4

\* A slot stored in the map.
SlotPut(e, i, s) ==
  [e EXCEPT !.sparse = [x \in DOMAIN @ \cup {i} |-> IF x = i THEN s ELSE @[x]]]

\* A write into the sparse map changes the one slot.
LEMMA SlotPutEffect ==
  ASSUME NEW e, Stored(e), NEW i \in Indices, NEW s \in StoredSlots, NEW f, f = SlotPut(e, i, s)
  PROVE  /\ Stored(f)
         /\ f.size = e.size /\ f.dense = e.dense /\ f.writable = e.writable
         /\ f.length = e.length /\ f.vector = e.vector
         /\ VectorIndices(f) = VectorIndices(e)
         /\ DOMAIN f.sparse = DOMAIN e.sparse \cup {i}
         /\ f.sparse[i] = s
         /\ \A j \in DOMAIN e.sparse : j # i => f.sparse[j] = e.sparse[j]
<1> DEFINE m == [x \in DOMAIN e.sparse \cup {i} |-> IF x = i THEN s ELSE e.sparse[x]]
<1>1. e = [dense |-> e.dense, writable |-> e.writable, length |-> e.length,
           size |-> e.size, vector |-> e.vector, sparse |-> e.sparse]
  BY StoredFieldsOf
<1>2. f = [dense |-> e.dense, writable |-> e.writable, length |-> e.length,
           size |-> e.size, vector |-> e.vector, sparse |-> m]
  BY <1>1 DEF SlotPut
<1>3. \A j \in DOMAIN e.sparse : j \in Indices /\ e.sparse[j] \in StoredSlots
  BY StoredFieldsOf
<1>4. m \in [DOMAIN m -> StoredSlots] /\ DOMAIN m \subseteq Indices
  BY <1>3
<1>5. DOMAIN m = DOMAIN e.sparse \cup {i} /\ m[i] = s
      /\ \A j \in DOMAIN e.sparse : j # i => m[j] = e.sparse[j]
  OBVIOUS
<1> HIDE DEF m
<1>6. /\ f.dense = e.dense /\ f.writable = e.writable /\ f.length = e.length
      /\ f.size = e.size /\ f.vector = e.vector /\ f.sparse = m
  BY ONLY <1>2
<1>7. VectorIndices(f) = VectorIndices(e) /\ Room(f) = Room(e)
  BY ONLY <1>6 DEF VectorIndices, InVector, Room
<1>8. f \in [dense : BOOLEAN, writable : BOOLEAN, length : Lengths, size : 0..MaxVectorSize,
             vector : {e.vector}, sparse : {m}]
  <2>1. /\ e.dense \in BOOLEAN /\ e.writable \in BOOLEAN /\ e.length \in Lengths
        /\ e.size \in 0..MaxVectorSize
    BY DEF Stored
  <2> QED BY <1>2, <2>1
<1>9. Stored(f)
  BY <1>4, <1>6, <1>7, <1>8 DEF Stored
<1> QED BY <1>5, <1>6, <1>7, <1>9

\* A slot stored in the map of an array that has none there, or has one.
LEMMA SparseWrite ==
  ASSUME NEW e, Whole(e), NEW i \in Indices, e.dense => MaxVectorSize <= i,
         NEW s \in StoredSlots, NEW f,
         f = IF i \in DOMAIN e.sparse THEN SlotPut(e, i, s) ELSE Longer(SlotPut(e, i, s), i)
  PROVE  /\ Whole(f) /\ f.dense = e.dense
         /\ DOMAIN f.sparse = DOMAIN e.sparse \cup {i} /\ f.sparse[i] = s
         /\ \A j \in DOMAIN e.sparse : j # i => f.sparse[j] = e.sparse[j]
         /\ Tidy(e) => Tidy(f)
         /\ e.dense \/ Tidy(e) => HasElement(e, f, i, s)
<1>0. Stored(e)
  BY DEF Whole
<1>1. /\ e.size \in Nat /\ e.size <= MaxVectorSize /\ MaxVectorSize \in Nat
      /\ e.length \in Nat /\ i \in Nat
      /\ VectorIndices(e) \subseteq Indices /\ DOMAIN e.sparse \subseteq Indices
      /\ \A j \in Indices : j \in Nat
  BY <1>0, StoredFieldsOf DEF Indices
<1>2. PICK g : g = SlotPut(e, i, s)
  OBVIOUS
<1>3. /\ Stored(g)
      /\ g.size = e.size /\ g.dense = e.dense /\ g.writable = e.writable
      /\ g.length = e.length /\ g.vector = e.vector
      /\ VectorIndices(g) = VectorIndices(e)
      /\ DOMAIN g.sparse = DOMAIN e.sparse \cup {i}
      /\ g.sparse[i] = s
      /\ \A j \in DOMAIN e.sparse : j # i => g.sparse[j] = e.sparse[j]
  BY ONLY <1>0, <1>2, i \in Indices, s \in StoredSlots, SlotPutEffect
<1>4. /\ f.length = IF i \in DOMAIN e.sparse THEN e.length ELSE LengthWith(e.length, i)
      /\ Stored(f)
      /\ f.size = g.size /\ f.dense = g.dense /\ f.writable = g.writable
      /\ f.vector = g.vector /\ f.sparse = g.sparse
      /\ VectorIndices(f) = VectorIndices(g)
  <2>1. CASE i \in DOMAIN e.sparse
    <3>1. f = g
      BY <1>2, <2>1
    <3> QED BY ONLY <1>3, <2>1, <3>1
  <2>2. CASE i \notin DOMAIN e.sparse
    <3>1. f = Longer(g, i)
      BY <1>2, <2>2
    <3>2. Stored(g)
      BY <1>3
    <3>3. /\ Stored(f) /\ f.length = LengthWith(g.length, i)
          /\ f.size = g.size /\ f.dense = g.dense /\ f.writable = g.writable
          /\ f.vector = g.vector /\ f.sparse = g.sparse
          /\ VectorIndices(f) = VectorIndices(g)
      BY ONLY <3>1, <3>2, i \in Indices, LongerEffect
    <3> QED BY ONLY <1>3, <2>2, <3>3
  <2> QED BY <2>1, <2>2
<1>5. PICK l : l = f.length
  OBVIOUS
<1>6. (e.dense \/ Tidy(e)) /\ i \in DOMAIN e.sparse => i < e.length
  BY DEF Whole, Apart, Tidy
<1>7. /\ l \in Nat /\ e.length <= l
      /\ i \notin DOMAIN e.sparse => i < l
      /\ e.dense \/ Tidy(e) => i < l /\ l = LengthWith(e.length, i)
  BY <1>1, <1>4, <1>5, <1>6 DEF LengthWith
<1>8. Apart(f)
  <2> SUFFICES ASSUME f.dense, NEW j \in DOMAIN f.sparse PROVE MaxVectorSize <= j /\ j < f.length
    BY DEF Apart
  <2>1. e.dense
    BY <1>3, <1>4
  <2>2. CASE j = i
    BY <1>5, <1>7, <2>1, <2>2
  <2>3. CASE j # i
    <3>1. MaxVectorSize <= j /\ j < e.length /\ j \in Nat
      BY <1>1, <1>3, <1>4, <2>1, <2>3 DEF Whole, Apart
    <3> QED BY <1>1, <1>5, <1>7, <3>1
  <2> QED BY <2>2, <2>3
<1>9. ASSUME Tidy(e) PROVE Tidy(f)
  <2>1. ASSUME NEW j \in VectorIndices(f) \cup DOMAIN f.sparse PROVE j < f.length
    <3>1. CASE j = i
      BY <1>5, <1>7, <1>9, <3>1
    <3>2. CASE j # i
      <4>1. j < e.length /\ j \in Nat
        BY <1>1, <1>3, <1>4, <1>9, <3>2 DEF Tidy
      <4> QED BY <1>1, <1>5, <1>7, <4>1
    <3> QED BY <3>1, <3>2
  <2> QED BY <1>3, <1>4, <1>9, <2>1 DEF Tidy
<1>10. ASSUME e.dense \/ Tidy(e) PROVE HasElement(e, f, i, s)
  <2>1. i \notin VectorIndices(e)
    <3>1. CASE e.dense
      BY <1>1, <3>1 DEF VectorIndices, InVector
    <3>2. CASE ~e.dense
      BY <1>10, <3>2 DEF Tidy
    <3> QED BY <3>1, <3>2
  <2>2. VectorIndices(e) \cap DOMAIN e.sparse = {}
    BY <1>10, OwnedOf
  <2>3. Whole(f) /\ (f.dense \/ Tidy(f))
    BY <1>3, <1>4, <1>8, <1>9, <1>10 DEF Whole
  <2>4. /\ VectorIndices(f) = VectorIndices(e) /\ f.vector = e.vector
        /\ DOMAIN f.sparse = DOMAIN e.sparse \cup {i} /\ f.sparse[i] = s
        /\ \A j \in DOMAIN e.sparse : j # i => f.sparse[j] = e.sparse[j]
        /\ f.writable = e.writable
    BY ONLY <1>3, <1>4
  <2>5. f.length = LengthWith(e.length, i)
    BY <1>5, <1>7, <1>10
  <2>6. \A j \in DOMAIN f.sparse \ {i} : j \notin VectorIndices(e) /\ f.sparse[j] = e.sparse[j]
    BY <2>2, <2>4
  <2>7. Whole(e) /\ (e.dense \/ Tidy(e)) /\ i \in Indices
    BY <1>10
  <2>8. Adds(e, f, i, s)
    BY ONLY <2>1, <2>4, <2>5, <2>6 DEF Adds
  <2> QED BY ONLY <2>3, <2>7, <2>8, ElementAdded
<1>11. Whole(f) /\ f.dense = e.dense
  BY <1>3, <1>4, <1>8 DEF Whole
<1> QED BY <1>3, <1>4, <1>9, <1>10, <1>11

\* Elements of the map gone.
LEMMA EraseWhole ==
  ASSUME NEW e, Whole(e), NEW gone, NEW f, f = Erased(e, gone)
  PROVE  /\ Whole(f)
         /\ Tidy(e) => Tidy(f)
         /\ (e.dense \/ Tidy(e)) /\ VectorIndices(e) \cap gone = {} => Lacks(e, f, gone)
         /\ VectorIndices(f) = VectorIndices(e) /\ f.vector = e.vector /\ f.size = e.size
         /\ f.length = e.length /\ f.writable = e.writable
         /\ DOMAIN f.sparse = DOMAIN e.sparse \ gone
         /\ \A i \in DOMAIN f.sparse : f.sparse[i] = e.sparse[i]
         /\ f.dense # e.dense => f.dense /\ DOMAIN f.sparse = {}
<1>0. Stored(e)
  BY DEF Whole
<1>1. /\ Stored(f)
      /\ f.size = e.size /\ f.vector = e.vector /\ f.writable = e.writable /\ f.length = e.length
      /\ DOMAIN f.sparse = DOMAIN e.sparse \ gone
      /\ \A i \in DOMAIN f.sparse : f.sparse[i] = e.sparse[i]
      /\ f.dense # e.dense => f.dense /\ DOMAIN f.sparse = {}
  BY ONLY <1>0, f = Erased(e, gone), ErasedEffect
<1>2. VectorIndices(f) = VectorIndices(e)
  BY ONLY <1>1 DEF VectorIndices, InVector
<1>3. e.dense \in BOOLEAN /\ f.dense \in BOOLEAN
  BY <1>0, <1>1 DEF Stored
<1>4. e.dense => f.dense
  BY ONLY <1>1, <1>3
<1>5. f.dense /\ ~e.dense => DOMAIN f.sparse = {}
  BY ONLY <1>1, <1>3
<1>6. Whole(f)
  <2>1. Apart(f)
    BY <1>1, <1>4, <1>5 DEF Whole, Apart
  <2> QED BY <1>1, <2>1 DEF Whole
<1>7. Tidy(e) => Tidy(f)
  <2>1. \A i \in DOMAIN f.sparse : i \in DOMAIN e.sparse
    BY ONLY <1>1
  <2> QED BY <1>1, <1>2, <1>4, <2>1 DEF Tidy
<1>8. ASSUME e.dense \/ Tidy(e), VectorIndices(e) \cap gone = {}
      PROVE  Lacks(e, f, gone)
  <2>1. /\ Owned(e) = VectorIndices(e) \cup DOMAIN e.sparse
        /\ \A j \in Owned(e) :
             Own(e, j) = IF j \in VectorIndices(e) THEN Default(e.vector[j]) ELSE e.sparse[j]
    BY <1>8, OwnedOf
  <2>2. /\ Owned(f) = VectorIndices(f) \cup DOMAIN f.sparse
        /\ \A j \in Owned(f) :
             Own(f, j) = IF j \in VectorIndices(f) THEN Default(f.vector[j]) ELSE f.sparse[j]
    BY <1>4, <1>6, <1>7, <1>8, OwnedOf
  <2>3. Owned(f) = Owned(e) \ gone
    BY <1>1, <1>2, <1>8, <2>1, <2>2
  <2>4. ASSUME NEW j \in Owned(f) PROVE Own(f, j) = Own(e, j)
    BY <1>1, <1>2, <2>1, <2>2, <2>3
  <2> QED BY <1>1, <2>3, <2>4 DEF Lacks
<1> QED BY <1>1, <1>2, <1>6, <1>7, <1>8

\* A hole made in the vector of a dense array.
LEMMA HoleWhole ==
  ASSUME NEW e, Whole(e), e.dense, NEW i \in Indices, i < e.size,
         NEW f, f = Written(e, i, Empty)
  PROVE  /\ Whole(f) /\ f.dense
         /\ Tidy(e) => Tidy(f)
         /\ Lacks(e, f, {i}) /\ f.length = e.length
<1>0. Stored(e) /\ Empty \in Values \cup {Empty}
  BY DEF Whole
<1>1. /\ Stored(f)
      /\ f.size = e.size /\ f.dense = e.dense /\ f.writable = e.writable
      /\ f.length = e.length /\ f.sparse = e.sparse
      /\ f.vector[i] = Empty
      /\ \A j \in 0..(e.size - 1) : j # i => f.vector[j] = e.vector[j]
  BY ONLY <1>0, i \in Indices, i < e.size, f = Written(e, i, Empty), WriteEffect
<1>2. /\ e.size \in Nat /\ e.size <= MaxVectorSize /\ MaxVectorSize \in Nat
      /\ \A j \in 0..(e.size - 1) : j \in DOMAIN e.vector
      /\ DOMAIN e.vector \subseteq Nat
  BY <1>0, StoredFieldsOf
<1>3. /\ \A j \in 0..(f.size - 1) : j \in DOMAIN f.vector
      /\ DOMAIN f.vector \subseteq Nat
  BY <1>1, StoredFieldsOf
<1>4. VectorIndices(f) = VectorIndices(e) \ {i}
  <2>1. ASSUME NEW j \in Nat, j < e.size, j # i PROVE f.vector[j] = e.vector[j]
    BY <1>1, <1>2, <2>1
  <2>2. ASSUME NEW j \in Nat, j < e.size PROVE j \in DOMAIN e.vector /\ j \in DOMAIN f.vector
    BY <1>1, <1>2, <1>3, <2>2
  <2> QED BY <1>1, <1>2, <1>3, <2>1, <2>2 DEF VectorIndices, InVector
<1>5. \A j \in VectorIndices(f) : f.vector[j] = e.vector[j]
  <2>1. \A j \in VectorIndices(f) : j \in 0..(e.size - 1) /\ j # i
    BY <1>1, <1>2, <1>3, <1>4 DEF VectorIndices, InVector
  <2> QED BY <1>1, <2>1
<1>6. Whole(f)
  BY <1>1 DEF Whole, Apart
<1>7. /\ Owned(e) = VectorIndices(e) \cup DOMAIN e.sparse
      /\ VectorIndices(e) \cap DOMAIN e.sparse = {}
      /\ \A j \in Owned(e) :
           Own(e, j) = IF j \in VectorIndices(e) THEN Default(e.vector[j]) ELSE e.sparse[j]
  BY OwnedOf
<1>8. /\ Owned(f) = VectorIndices(f) \cup DOMAIN f.sparse
      /\ VectorIndices(f) \cap DOMAIN f.sparse = {}
      /\ \A j \in Owned(f) :
           Own(f, j) = IF j \in VectorIndices(f) THEN Default(f.vector[j]) ELSE f.sparse[j]
  <2>1. f.dense
    BY ONLY <1>1, e.dense
  <2> QED BY <1>6, <2>1, OwnedOf
<1>9. i \notin DOMAIN e.sparse
  <2>1. \A j \in DOMAIN e.sparse : MaxVectorSize <= j
    BY DEF Whole, Apart
  <2> QED BY <1>2, <2>1 DEF Indices
<1>10. Lacks(e, f, {i})
  <2>1. Owned(f) = Owned(e) \ {i}
    BY <1>1, <1>4, <1>7, <1>8, <1>9
  <2>2. ASSUME NEW j \in Owned(f) PROVE Own(f, j) = Own(e, j)
    BY <1>1, <1>4, <1>5, <1>7, <1>8, <2>1
  <2> QED BY <1>1, <2>1, <2>2 DEF Lacks
<1>11. Tidy(e) => Tidy(f)
  BY <1>1, <1>4 DEF Tidy
<1> QED BY <1>1, <1>6, <1>10, <1>11

-----------------------------------------------------------------------------
(* SetLength                                                               *)

\* The highest of some indices is one of them, and none is above it.
LEMMA HighestIn ==
  ASSUME NEW s, s \subseteq Indices, s # {}
  PROVE  Highest(s) \in s /\ \A j \in s : j <= Highest(s)
<1> DEFINE T == {n \in Nat : \A j \in s : j <= n}
           Top(k) == \A j \in s : j <= k
<1>1. MaxLength \in Nat /\ s \subseteq Nat /\ \A j \in s : j <= MaxLength
  BY ElementsAssumption DEF Indices
<1>2. T \subseteq Nat /\ MaxLength \in T
  BY <1>1
<1>3. PICK n \in T : \A q \in T : n <= q
  <2> HIDE DEF T
  <2> QED BY <1>2, LeastNatural
<1>4. n \in s
  <2> SUFFICES ASSUME n \notin s PROVE FALSE
    OBVIOUS
  <2>1. \A j \in s : j <= n - 1
    BY <1>1, <1>3
  <2>2. n - 1 \in Nat
    <3>1. PICK j \in s : j <= n - 1 /\ j \in Nat
      BY <1>1, <2>1
    <3> QED BY <1>3, <3>1
  <2>3. n - 1 \in T
    BY <2>1, <2>2
  <2> QED BY <1>3, <2>2, <2>3
<1>5. n \in s /\ Top(n)
  BY <1>3, <1>4
<1>6. Highest(s) = CHOOSE k \in s : Top(k)
  BY DEF Highest
<1> HIDE DEF Top
<1>7. Highest(s) \in s /\ Top(Highest(s))
  BY <1>5, <1>6
<1> QED BY <1>7 DEF Top

\* The elements that stop a shrink in ECMAScript 5, and where it ends.
Ends(e, len) == Locked(e) \cap Above(e, len)
EndOf(e, len) == IF Ends(e, len) = {} THEN len ELSE Highest(Ends(e, len)) + 1

\* A sparse array that a big shrink goes through below len.
GoesBelow(e, len) ==
  ~e.dense /\ e.length - len >= BigShrink /\ Ends(e, len) = {} /\ \E i \in DOMAIN e.sparse : i < len

\* f is e cut at its length.
CutAt(e, f, n) ==
  /\ f.length = n /\ f.writable = e.writable
  /\ Owned(f) = {i \in Owned(e) : i < n}
  /\ \A i \in Owned(f) : Own(f, i) = Own(e, i)

\* f has no other elements than e.
Within(e, f) == Owned(f) \subseteq Owned(e) /\ \A i \in Owned(f) : Own(f, i) = Own(e, i)

\* A new length, where the elements are as it says already.
LEMMA LengthWhole ==
  ASSUME NEW e, Whole(e), NEW l \in Lengths, NEW f, f = WithLength(e, l),
         e.dense => \A i \in DOMAIN e.sparse : i < l
  PROVE  /\ Whole(f) /\ f.dense = e.dense /\ f.length = l /\ f.writable = e.writable
         /\ VectorIndices(f) = VectorIndices(e) /\ f.vector = e.vector /\ f.sparse = e.sparse
<1>0. Stored(e)
  BY DEF Whole
<1>1. /\ Stored(f)
      /\ f.length = l /\ f.size = e.size /\ f.dense = e.dense /\ f.writable = e.writable
      /\ f.vector = e.vector /\ f.sparse = e.sparse
      /\ VectorIndices(f) = VectorIndices(e)
  BY ONLY <1>0, l \in Lengths, f = WithLength(e, l), LengthEffect
<1>2. Apart(f)
  BY <1>1 DEF Whole, Apart
<1> QED BY <1>1, <1>2 DEF Whole

\* What is left of an array is what is left of its vector and its map.
LEMMA CutOf ==
  ASSUME NEW e, NEW f, Whole(e), Whole(f), Tidy(e), Tidy(f), NEW n, f.length = n,
         f.writable = e.writable,
         \A i \in VectorIndices(f) : i \in VectorIndices(e) /\ f.vector[i] = e.vector[i],
         \A i \in DOMAIN f.sparse : i \in DOMAIN e.sparse /\ f.sparse[i] = e.sparse[i],
         \A i \in VectorIndices(e) : i < n => i \in VectorIndices(f),
         \A i \in DOMAIN e.sparse : i < n => i \in DOMAIN f.sparse
  PROVE  CutAt(e, f, n)
<1>1. /\ Owned(e) = VectorIndices(e) \cup DOMAIN e.sparse
      /\ VectorIndices(e) \cap DOMAIN e.sparse = {}
      /\ \A j \in Owned(e) :
           Own(e, j) = IF j \in VectorIndices(e) THEN Default(e.vector[j]) ELSE e.sparse[j]
  BY OwnedOf
<1>2. /\ Owned(f) = VectorIndices(f) \cup DOMAIN f.sparse
      /\ VectorIndices(f) \cap DOMAIN f.sparse = {}
      /\ \A j \in Owned(f) :
           Own(f, j) = IF j \in VectorIndices(f) THEN Default(f.vector[j]) ELSE f.sparse[j]
  BY OwnedOf
<1>3. \A i \in VectorIndices(f) \cup DOMAIN f.sparse : i < n
  BY DEF Tidy
<1>4. Owned(f) = {i \in Owned(e) : i < n}
  BY <1>1, <1>2, <1>3
<1>5. ASSUME NEW i \in Owned(f) PROVE Own(f, i) = Own(e, i)
  BY <1>1, <1>2, <1>4
<1> QED BY <1>4, <1>5 DEF CutAt

\* A dense array is cut at the new length, its locked elements too.
LEMMA DenseShrinks ==
  ASSUME NEW e, Whole(e), e.dense, NEW len \in Lengths, len < e.length,
         NEW f, f = WithLength(ShrunkDense(e, len), len)
  PROVE  /\ Whole(f) /\ f.length = len /\ f.writable = e.writable
         /\ Tidy(e) => Tidy(f) /\ CutAt(e, f, len)
<1>0. Stored(e)
  BY DEF Whole
<1>1. /\ e.size \in Nat /\ e.size <= MaxVectorSize /\ MaxVectorSize \in Nat
      /\ len \in Nat /\ e.length \in Nat
      /\ VectorIndices(e) \subseteq Indices /\ DOMAIN e.sparse \subseteq Indices
      /\ DOMAIN e.vector \subseteq Nat
      /\ \A i \in 0..(e.size - 1) : i \in DOMAIN e.vector
      /\ \A i \in Indices : i \in Nat
  BY SMTT(30), <1>0, StoredFieldsOf, ElementsAssumption DEF Lengths, Indices
<1>2. \A i \in DOMAIN e.sparse : MaxVectorSize <= i /\ i < e.length
  BY DEF Whole, Apart
<1>3. PICK g : g = ShrunkDense(e, len)
  OBVIOUS
<1>4. f = WithLength(g, len)
  BY <1>3
<1>5. CASE len > MaxVectorSize
  <2>1. g = Erased(e, Above(e, len))
    BY <1>3, <1>5 DEF ShrunkDense
  <2>2. Whole(e)
    OBVIOUS
  <2>3. PICK a : a = Above(e, len)
    OBVIOUS
  <2>4. g = Erased(e, a)
    BY <2>1, <2>3
  <2>5. /\ Whole(g)
        /\ VectorIndices(g) = VectorIndices(e) /\ g.vector = e.vector /\ g.size = e.size
        /\ g.writable = e.writable
        /\ DOMAIN g.sparse = DOMAIN e.sparse \ a
        /\ \A i \in DOMAIN g.sparse : g.sparse[i] = e.sparse[i]
        /\ g.dense # e.dense => g.dense
    BY ONLY <2>2, <2>4, EraseWhole
  <2>6. a = {i \in DOMAIN e.sparse : ~(i < len)}
    BY <1>1, <2>3 DEF Above
  <2>7. \A i \in DOMAIN g.sparse : i < len
    BY <2>5, <2>6
  <2>8. /\ Whole(f) /\ f.dense = g.dense /\ f.length = len /\ f.writable = g.writable
        /\ VectorIndices(f) = VectorIndices(g) /\ f.vector = g.vector /\ f.sparse = g.sparse
    BY <1>4, <2>5, <2>7, LengthWhole
  <2>9. \A i \in VectorIndices(f) : i < len
    <3>1. \A i \in VectorIndices(e) : i < e.size /\ i \in Nat
      BY <1>1 DEF VectorIndices, InVector
    <3> QED BY <1>1, <1>5, <2>5, <2>8, <3>1
  <2>10. Tidy(f)
    <3>1. f.dense
      BY ONLY <2>5, <2>8, e.dense
    <3> QED BY <2>7, <2>8, <2>9, <3>1 DEF Tidy
  <2>11. f.writable = e.writable
    BY ONLY <2>5, <2>8
  <2>12. ASSUME Tidy(e) PROVE CutAt(e, f, len)
    <3>1. \A i \in VectorIndices(f) : i \in VectorIndices(e) /\ f.vector[i] = e.vector[i]
      BY ONLY <2>5, <2>8
    <3>2. \A i \in DOMAIN f.sparse : i \in DOMAIN e.sparse /\ f.sparse[i] = e.sparse[i]
      BY ONLY <2>5, <2>8
    <3>3. \A i \in VectorIndices(e) : i < len => i \in VectorIndices(f)
      BY ONLY <2>5, <2>8
    <3>4. \A i \in DOMAIN e.sparse : i < len => i \in DOMAIN f.sparse
      BY <2>5, <2>6, <2>8
    <3>5. Whole(f) /\ f.length = len
      BY <2>8
    <3> QED BY ONLY <2>2, <2>10, <2>11, <2>12, <3>1, <3>2, <3>3, <3>4, <3>5, CutOf
  <2> QED BY <2>8, <2>10, <2>11, <2>12
<1>6. CASE ~(len > MaxVectorSize)
  <2>1. PICK d : d = MakeDense(e)
    OBVIOUS
  <2>2. /\ Stored(d) /\ d.size = e.size /\ d.vector = e.vector /\ d.writable = e.writable
        /\ d.dense = TRUE /\ d.sparse = <<>> /\ VectorIndices(d) = VectorIndices(e)
    <3>1. e = [dense |-> e.dense, writable |-> e.writable, length |-> e.length,
               size |-> e.size, vector |-> e.vector, sparse |-> e.sparse]
      BY <1>0, StoredFieldsOf
    <3>2. d = [dense |-> TRUE, writable |-> e.writable, length |-> e.length,
               size |-> e.size, vector |-> e.vector, sparse |-> <<>>]
      BY <2>1, <3>1 DEF MakeDense
    <3>3. /\ d.size = e.size /\ d.vector = e.vector /\ d.writable = e.writable
          /\ d.dense = TRUE /\ d.sparse = <<>>
      BY ONLY <3>2
    <3>4. VectorIndices(d) = VectorIndices(e) /\ Room(d) = Room(e)
      BY ONLY <3>3 DEF VectorIndices, InVector, Room
    <3>5. DOMAIN <<>> = {} /\ <<>> \in [{} -> StoredSlots]
      OBVIOUS
    <3>6. d \in [dense : BOOLEAN, writable : BOOLEAN, length : Lengths, size : 0..MaxVectorSize,
                 vector : {e.vector}, sparse : {<<>>}]
      BY <1>0, <3>2 DEF Stored
    <3>7. Stored(d)
      BY <1>0, <3>3, <3>4, <3>5, <3>6 DEF Stored
    <3> QED BY <3>3, <3>4, <3>7
  <2>3. g = IF e.size > len THEN Resized(d, len) ELSE d
    BY <1>3, <1>6, <2>1 DEF ShrunkDense
  <2>4. /\ Stored(g) /\ g.dense = TRUE /\ g.sparse = <<>> /\ g.writable = e.writable
        /\ g.size = IF e.size > len THEN len ELSE e.size
        /\ \A i \in 0..(g.size - 1) : g.vector[i] = e.vector[i]
    <3>1. CASE e.size > len
      <4>1. len \in 0..MaxVectorSize /\ g = Resized(d, len) /\ Stored(d)
        BY <1>1, <1>6, <2>2, <2>3, <3>1
      <4>2. /\ Stored(g)
            /\ g.size = len /\ g.dense = d.dense /\ g.writable = d.writable /\ g.sparse = d.sparse
            /\ \A i \in 0..(len - 1) : g.vector[i] = IF i < d.size THEN d.vector[i] ELSE Empty
        BY ONLY <4>1, ResizedEffect
      <4>3. \A i \in 0..(len - 1) : i < d.size
        BY <1>1, <2>2, <3>1
      <4>4. \A i \in 0..(g.size - 1) : g.vector[i] = e.vector[i]
        BY ONLY <2>2, <4>2, <4>3
      <4> QED BY ONLY <2>2, <3>1, <4>2, <4>4
    <3>2. CASE ~(e.size > len)
      <4>1. g = d
        BY <2>3, <3>2
      <4> QED BY ONLY <2>2, <3>2, <4>1
    <3> QED BY <3>1, <3>2
  <2>5. /\ g.size \in Nat /\ g.size <= e.size /\ g.size <= len
        /\ \A i \in Nat : i < e.size /\ i < len => i < g.size
    BY <1>1, <2>4
  <2>6. DOMAIN g.vector \subseteq Nat /\ \A i \in 0..(g.size - 1) : i \in DOMAIN g.vector
    BY <2>4, StoredFieldsOf
  <2>7. VectorIndices(g) = {i \in VectorIndices(e) : i < len}
        /\ \A i \in VectorIndices(g) : g.vector[i] = e.vector[i]
    <3>1. ASSUME NEW i \in Nat, i < g.size
          PROVE  /\ i \in DOMAIN g.vector /\ i \in DOMAIN e.vector
                 /\ g.vector[i] = e.vector[i] /\ i < e.size /\ i < len
      BY <1>1, <2>4, <2>5, <2>6, <3>1
    <3>2. ASSUME NEW i \in Nat, i < e.size, i < len PROVE i < g.size
      BY <2>5, <3>2
    <3>3. \A i \in VectorIndices(g) : i \in Nat /\ i < g.size /\ g.vector[i] # Empty
      BY <2>6 DEF VectorIndices, InVector
    <3>4. \A i \in VectorIndices(e) : i \in Nat /\ i < e.size /\ e.vector[i] # Empty
      BY <1>1 DEF VectorIndices, InVector
    <3>5. ASSUME NEW i \in VectorIndices(g)
          PROVE  i \in VectorIndices(e) /\ i < len /\ g.vector[i] = e.vector[i]
      BY <3>1, <3>3 DEF VectorIndices, InVector
    <3>6. ASSUME NEW i \in VectorIndices(e), i < len PROVE i \in VectorIndices(g)
      BY <3>1, <3>2, <3>4, <3>6 DEF VectorIndices, InVector
    <3> QED BY <3>5, <3>6
  <2>8. Whole(g) /\ DOMAIN g.sparse = {}
    <3>1. DOMAIN g.sparse = {}
      BY <2>4
    <3> QED BY <2>4, <3>1 DEF Whole, Apart
  <2>9. /\ Whole(f) /\ f.dense = g.dense /\ f.length = len /\ f.writable = g.writable
        /\ VectorIndices(f) = VectorIndices(g) /\ f.vector = g.vector /\ f.sparse = g.sparse
    BY <1>4, <2>8, LengthWhole
  <2>10. Tidy(f)
    <3>1. f.dense = TRUE
      BY ONLY <2>4, <2>9
    <3> QED BY <2>7, <2>8, <2>9, <3>1 DEF Tidy
  <2>11. f.writable = e.writable
    BY ONLY <2>4, <2>9
  <2>12. ASSUME Tidy(e) PROVE CutAt(e, f, len)
    <3>1. \A i \in VectorIndices(f) : i \in VectorIndices(e) /\ f.vector[i] = e.vector[i]
      BY ONLY <2>7, <2>9
    <3>2. \A i \in DOMAIN f.sparse : i \in DOMAIN e.sparse /\ f.sparse[i] = e.sparse[i]
      BY ONLY <2>8, <2>9
    <3>3. \A i \in VectorIndices(e) : i < len => i \in VectorIndices(f)
      BY ONLY <2>7, <2>9
    <3>4. \A i \in DOMAIN e.sparse : i < len => i \in DOMAIN f.sparse
      <4>1. \A i \in DOMAIN e.sparse : ~(i < len)
        BY <1>1, <1>2, <1>6
      <4> QED BY <4>1
    <3>5. Whole(f) /\ f.length = len /\ Whole(e)
      BY <2>9
    <3> QED BY ONLY <2>10, <2>11, <2>12, <3>1, <3>2, <3>3, <3>4, <3>5, CutOf
  <2> QED BY <2>9, <2>10, <2>11, <2>12
<1> QED BY <1>5, <1>6

\* A sparse array is cut where the first element that is not configurable
\* stops the deletions from the end.
LEMMA SparseShrinks ==
  ASSUME NEW e, Whole(e), ~e.dense, NEW len \in Lengths, len < e.length,
         NEW f, f = ShrunkSparse(e, len)
  PROVE  /\ Whole(f) /\ f.writable = e.writable
         /\ Tidy(e) => Tidy(f) /\ Within(e, f)
         /\ Tidy(e) /\ ~GoesBelow(e, len) =>
              /\ CutAt(e, f, EndOf(e, len))
              /\ Stops(e, len) = {} <=> Ends(e, len) = {}
<1>0. Stored(e) /\ Whole(e)
  BY DEF Whole
<1>1. /\ len \in Nat /\ e.length \in Nat /\ BigShrink \in Nat /\ MaxLength \in Nat
      /\ VectorIndices(e) \subseteq Indices /\ DOMAIN e.sparse \subseteq Indices
      /\ \A i \in Indices : i \in Nat /\ i + 1 \in Lengths
      /\ 0 \in Lengths
  BY SMTT(30), <1>0, StoredFieldsOf, ElementsAssumption DEF Lengths, Indices
<1> DEFINE stops == Stops(e, len)
           small == e.length - len < BigShrink
           from == IF stops # {} THEN Highest(stops) + 1 ELSE IF small THEN len ELSE 0
           end == IF stops # {} THEN from ELSE len
<1>2. stops \subseteq DOMAIN e.sparse
  BY DEF Stops, Locked, Above
<1>3. stops # {} => Highest(stops) \in stops /\ \A j \in stops : j <= Highest(stops)
  BY <1>1, <1>2, HighestIn
<1>4. from \in Nat /\ from \in Lengths /\ end \in Nat /\ end \in Lengths /\ (from = end \/ from = 0)
  BY <1>1, <1>2, <1>3 DEF Lengths
<1>5. PICK a : a = Above(e, from)
  OBVIOUS
<1>6. PICK g : g = Erased(e, a)
  OBVIOUS
<1>7. f = WithLength(g, end)
  BY <1>5, <1>6 DEF ShrunkSparse, WithLength
<1>8. a = {i \in DOMAIN e.sparse : ~(i < from)}
  BY <1>1, <1>4, <1>5 DEF Above
<1>9. /\ Whole(g)
      /\ VectorIndices(g) = VectorIndices(e) /\ g.vector = e.vector
      /\ g.writable = e.writable
      /\ DOMAIN g.sparse = DOMAIN e.sparse \ a
      /\ \A i \in DOMAIN g.sparse : g.sparse[i] = e.sparse[i]
      /\ g.dense # e.dense => g.dense /\ DOMAIN g.sparse = {}
  BY ONLY <1>0, <1>6, EraseWhole
<1>10. g.dense => DOMAIN g.sparse = {}
  BY ONLY <1>9, ~e.dense
<1>11. \A i \in DOMAIN e.sparse : i \in DOMAIN g.sparse <=> i < from
  BY <1>8, <1>9
<1>12. PICK l \in Lengths : l = end
  BY <1>4
<1>13. /\ Whole(f) /\ f.dense = g.dense /\ f.length = l /\ f.writable = g.writable
       /\ VectorIndices(f) = VectorIndices(g) /\ f.vector = g.vector /\ f.sparse = g.sparse
  BY <1>7, <1>9, <1>10, <1>12, LengthWhole
<1>14. f.writable = e.writable
  BY ONLY <1>9, <1>13
<1>15. ASSUME Tidy(e) PROVE Tidy(f)
  <2>1. VectorIndices(f) = {}
    <3>1. VectorIndices(e) = {}
      BY <1>15 DEF Tidy
    <3> QED BY ONLY <1>9, <1>13, <3>1
  <2>2. ASSUME NEW i \in DOMAIN f.sparse PROVE i < f.length
    <3>1. i < from /\ i \in Nat
      BY <1>1, <1>9, <1>11, <1>13
    <3> QED BY <1>4, <1>12, <1>13, <3>1
  <2> QED BY <2>1, <2>2 DEF Tidy
<1>16. ASSUME Tidy(e), ~GoesBelow(e, len)
       PROVE  CutAt(e, f, EndOf(e, len)) /\ (Stops(e, len) = {} <=> Ends(e, len) = {})
  <2>1. Ends(e, len) \subseteq stops
    BY DEF Ends, Stops
  <2>2. Ends(e, len) = {} => stops = {}
    <3> SUFFICES ASSUME Ends(e, len) = {}, NEW i \in stops PROVE FALSE
      OBVIOUS
    <3>1. ~small
      BY DEF Ends, Stops
    <3>2. i \in Locked(e) /\ i \in DOMAIN e.sparse /\ i \in Nat
      BY <1>1, <1>2, <3>1 DEF Stops
    <3>3. i < len
      BY <1>1, <3>2 DEF Ends, Above, Locked
    <3>4. e.length - len >= BigShrink
      BY <1>1, <3>1
    <3> QED BY <1>16, <3>2, <3>3, <3>4 DEF GoesBelow
  <2>3. Ends(e, len) # {} => Highest(Ends(e, len)) = Highest(stops)
    <3> SUFFICES ASSUME Ends(e, len) # {} PROVE Highest(Ends(e, len)) = Highest(stops)
      OBVIOUS
    <3>1. PICK x \in Ends(e, len) : TRUE
      OBVIOUS
    <3>2. /\ Highest(stops) \in stops /\ x \in stops /\ x <= Highest(stops)
          /\ x \in Nat /\ Highest(stops) \in Nat /\ len <= x
      BY <1>1, <1>2, <1>3, <2>1 DEF Ends, Above
    <3>3. Highest(stops) \in Ends(e, len)
      <4>1. len <= Highest(stops)
        BY <1>1, <3>2
      <4>2. Highest(stops) \in Locked(e)
        BY <3>2 DEF Stops
      <4>3. Highest(stops) \in Above(e, len)
        BY <1>1, <1>2, <3>2, <4>1 DEF Above
      <4> QED BY <4>2, <4>3 DEF Ends
    <3>4. Ends(e, len) \subseteq Indices
      BY <1>1, <1>2, <2>1
    <3>5. /\ Highest(Ends(e, len)) \in Ends(e, len)
          /\ \A j \in Ends(e, len) : j <= Highest(Ends(e, len))
      BY <3>1, <3>4, HighestIn
    <3>6. /\ Highest(Ends(e, len)) <= Highest(stops) /\ Highest(stops) <= Highest(Ends(e, len))
          /\ Highest(Ends(e, len)) \in Nat
      BY <1>1, <1>2, <1>3, <2>1, <3>3, <3>4, <3>5
    <3> QED BY <3>2, <3>6
  <2>4. EndOf(e, len) = l
    BY <1>12, <2>1, <2>2, <2>3 DEF EndOf
  <2>5. \A i \in DOMAIN e.sparse : i < l => i < from
    <3> SUFFICES ASSUME NEW i \in DOMAIN e.sparse, i < l, stops = {} PROVE i < from
      BY <1>12
    <3>1. CASE small
      BY <1>12, <3>1
    <3>2. CASE ~small
      <4>1. e.length - len >= BigShrink /\ i < len /\ Ends(e, len) = {}
        BY <1>1, <1>12, <2>1, <3>2
      <4> QED BY <1>16, <4>1 DEF GoesBelow
    <3> QED BY <3>1, <3>2
  <2>6. CutAt(e, f, l)
    <3>1. \A i \in VectorIndices(f) : i \in VectorIndices(e) /\ f.vector[i] = e.vector[i]
      BY ONLY <1>9, <1>13
    <3>2. \A i \in DOMAIN f.sparse : i \in DOMAIN e.sparse /\ f.sparse[i] = e.sparse[i]
      BY ONLY <1>9, <1>13
    <3>3. \A i \in VectorIndices(e) : i < l => i \in VectorIndices(f)
      BY ONLY <1>9, <1>13
    <3>4. \A i \in DOMAIN e.sparse : i < l => i \in DOMAIN f.sparse
      BY <1>11, <1>13, <2>5
    <3>5. Whole(f) /\ f.length = l /\ Whole(e) /\ Tidy(f)
      BY <1>0, <1>13, <1>15, <1>16
    <3> QED BY ONLY <1>14, <1>16, <3>1, <3>2, <3>3, <3>4, <3>5, CutOf
  <2> QED BY <2>1, <2>2, <2>4, <2>6
<1>17. ASSUME Tidy(e) PROVE Within(e, f)
  <2>1. /\ Owned(e) = VectorIndices(e) \cup DOMAIN e.sparse
        /\ VectorIndices(e) \cap DOMAIN e.sparse = {}
        /\ \A i \in Owned(e) :
             Own(e, i) = IF i \in VectorIndices(e) THEN Default(e.vector[i]) ELSE e.sparse[i]
    BY ONLY <1>0, <1>17, OwnedOf
  <2>2. /\ Owned(f) = VectorIndices(f) \cup DOMAIN f.sparse
        /\ \A i \in Owned(f) :
             Own(f, i) = IF i \in VectorIndices(f) THEN Default(f.vector[i]) ELSE f.sparse[i]
    <3>1. Whole(f) /\ Tidy(f)
      BY <1>13, <1>15, <1>17
    <3> QED BY ONLY <3>1, OwnedOf
  <2>3. /\ VectorIndices(f) = VectorIndices(e) /\ f.vector = e.vector
        /\ \A i \in DOMAIN f.sparse : i \in DOMAIN e.sparse /\ f.sparse[i] = e.sparse[i]
    BY ONLY <1>9, <1>13
  <2> QED BY ONLY <2>1, <2>2, <2>3 DEF Within
<1> QED BY <1>13, <1>14, <1>15, <1>16, <1>17

-----------------------------------------------------------------------------
(* The steps of ArrayModel                                                 *)

\* A step that stores an element is StoreElement.
LEMMA StoreElementView ==
  ASSUME NEW CONSTANT i, NEW CONSTANT s, HasElement(elements, elements', i, s), answer' = TRUE, Keep
  PROVE  Arrays!StoreElement(i, s)
<1>1. /\ Owned(elements') = Owned(elements) \cup {i} /\ Own(elements', i) = s
      /\ \A j \in Owned(elements) \ {i} : Own(elements', j) = Own(elements, j)
      /\ elements'.length = LengthWith(elements.length, i)
      /\ elements'.writable = elements.writable
  BY DEF HasElement
<1>2. [j \in Owned(elements') |-> Own(elements', j)]
        = [x \in DOMAIN [j \in Owned(elements) |-> Own(elements, j)] \cup {i} |->
             IF x = i THEN s ELSE [j \in Owned(elements) |-> Own(elements, j)][x]]
  BY <1>1
<1> QED BY <1>1, <1>2 DEF Arrays!StoreElement, Keep, LengthWith

\* A step that changes nothing and refuses is Refused.
LEMMA RefusedView ==
  ASSUME SameArray(elements, elements'), answer' = FALSE, Keep
  PROVE  Arrays!Refused
<1>1. /\ Owned(elements') = Owned(elements)
      /\ \A j \in Owned(elements) : Own(elements', j) = Own(elements, j)
      /\ elements'.length = elements.length /\ elements'.writable = elements.writable
  BY DEF SameArray
<1>2. [j \in Owned(elements') |-> Own(elements', j)] = [j \in Owned(elements) |-> Own(elements, j)]
  BY <1>1
<1> QED BY <1>1, <1>2 DEF Arrays!Refused, Keep

\* An element stored as it is below length.
LEMMA SameIsStored ==
  ASSUME NEW e, NEW f, SameArray(e, f), NEW i \in Owned(e), i < e.length
  PROVE  HasElement(e, f, i, Own(e, i))
BY DEF SameArray, HasElement, LengthWith

\* What comes after a change of representation.
LEMMA AfterSame ==
  ASSUME NEW e, NEW f, NEW g, NEW i, NEW s, SameArray(e, f)
  PROVE  /\ HasElement(f, g, i, s) => HasElement(e, g, i, s)
         /\ SameArray(f, g) => SameArray(e, g)
         /\ Owned(f) = Owned(e) /\ \A j \in Owned(e) : Own(f, j) = Own(e, j)
         /\ f.length = e.length
BY DEF SameArray, HasElement

\* A descriptor that changes nothing, by the code's test, changes nothing by
\* 8.12.9.
LEMMA UnchangedIsSpec ==
  ASSUME NEW s \in StoredSlots, NEW d \in Descriptors, Unchanged(s, d)
  PROVE  SpecChanged(s, d) = s
<1> DEFINE a == s.attributes
<1>1. /\ a \in StoredAttributes /\ a.type \in {"data", "accessor"}
      /\ s = [attributes |-> a, value |-> s.value]
      /\ a = [type |-> a.type, writable |-> a.writable, enumerable |-> a.enumerable,
              configurable |-> a.configurable]
      /\ a.writable \in BOOLEAN /\ (a.type = "accessor" => a.writable = FALSE)
      /\ (a.type = "accessor" => s.value \in Accessors)
  BY StoredFields DEF StoredAttributes
<1>2. CASE IsAbsent(d)
  <2>1. SpecChanged(s, d).attributes = a
    <3>1. (IF a.type = "accessor" THEN FALSE
           ELSE IF d.type = "data" /\ d.writable # Absent THEN d.writable
           ELSE TRUE /\ a.writable) = a.writable
      BY <1>1, <1>2 DEF IsAbsent
    <3> QED BY <1>1, <1>2, <3>1 DEF SpecChanged, IsAbsent, Or
  <2>2. SpecChanged(s, d) = [attributes |-> SpecChanged(s, d).attributes, value |-> s.value]
    BY <1>2 DEF SpecChanged, IsAbsent
  <2> QED BY <1>1, <2>1, <2>2
<1>3. CASE MergeWithNoEffect(s, d) /\ d.type = "data"
  <2>1. a.type = "data" /\ Agrees(d.writable, a.writable) /\ Agrees(d.value, s.value)
        /\ Agrees(d.configurable, a.configurable) /\ Agrees(d.enumerable, a.enumerable)
    BY <1>3 DEF MergeWithNoEffect
  <2>2. SpecChanged(s, d).attributes = a
    <3>1. (IF d.type = "data" /\ d.writable # Absent THEN d.writable
           ELSE (d.type = a.type) /\ a.writable) = a.writable
      BY <1>1, <1>3, <2>1 DEF Agrees
    <3>2. Or(d.enumerable, a.enumerable) = a.enumerable
          /\ Or(d.configurable, a.configurable) = a.configurable
      BY <2>1 DEF Agrees, Or
    <3> QED BY <1>1, <1>3, <2>1, <3>1, <3>2 DEF SpecChanged
  <2>3. SpecChanged(s, d) = [attributes |-> SpecChanged(s, d).attributes, value |-> s.value]
    BY <1>3, <2>1 DEF SpecChanged, Or, Agrees
  <2> QED BY <1>1, <2>2, <2>3
<1>4. CASE MergeWithNoEffect(s, d) /\ d.type = "accessor"
  <2>1. a.type = "accessor" /\ OrNull(d.get) = s.value.get /\ OrNull(d.set) = s.value.set
        /\ Agrees(d.configurable, a.configurable) /\ Agrees(d.enumerable, a.enumerable)
    BY <1>4 DEF MergeWithNoEffect
  <2>2. SpecChanged(s, d).attributes = a
    <3>1. Or(d.enumerable, a.enumerable) = a.enumerable
          /\ Or(d.configurable, a.configurable) = a.configurable
      BY <2>1 DEF Agrees, Or
    <3> QED BY <1>1, <1>4, <2>1, <3>1 DEF SpecChanged
  <2>3. [get |-> Or(d.get, s.value.get), set |-> Or(d.set, s.value.set)] = s.value
    <3>1. s.value = [get |-> s.value.get, set |-> s.value.set]
      BY <1>1, <2>1 DEF Accessors
    <3>2. Or(d.get, s.value.get) = s.value.get /\ Or(d.set, s.value.set) = s.value.set
      BY <2>1 DEF Or, OrNull
    <3> QED BY <3>1, <3>2
  <2>4. SpecChanged(s, d) = [attributes |-> SpecChanged(s, d).attributes, value |-> s.value]
    BY <1>4, <2>1, <2>3 DEF SpecChanged
  <2> QED BY <1>1, <2>2, <2>4
<1> QED BY <1>2, <1>3, <1>4 DEF Unchanged, MergeWithNoEffect

\* An element of the vector whose descriptor asks for nothing but a value.
LEMMA PlainIsSpec ==
  ASSUME NEW x \in Values, NEW d \in Descriptors, IsDefault(d) \/ IsAbsentDescriptor(d)
  PROVE  /\ Default(x) \in StoredSlots
         /\ SpecAllows(Default(x), d)
         /\ d.type = "generic" => SpecChanged(Default(x), d) = Default(x)
         /\ d.type # "generic" => SpecChanged(Default(x), d) = Default(Or(d.value, x))
<1>1. Default(x) \in StoredSlots
  BY DEF Default, StoredSlots, StoredAttributes
<1>2. SpecAllows(Default(x), d)
  BY DEF SpecAllows, Default
<1>3. d.type \in {"data", "generic"} /\ d.enumerable \in {TRUE, Absent} /\ d.configurable \in {TRUE, Absent}
  BY DescriptorKinds DEF IsDefault, IsAbsentDescriptor, Descriptors, DataDescriptors,
     AccessorDescriptors, GenericDescriptors, Flag
<1>4. Or(d.enumerable, TRUE) = TRUE /\ Or(d.configurable, TRUE) = TRUE
  BY <1>3 DEF Or
<1> DEFINE plain == [type |-> "data", writable |-> TRUE, enumerable |-> TRUE, configurable |-> TRUE]
<1>7. Default(x).attributes = plain /\ Default(x).value = x
      /\ plain.type = "data" /\ plain.writable = TRUE /\ plain.enumerable = TRUE
      /\ plain.configurable = TRUE
  BY DEF Default
<1>8. \A y : Default(y) = [attributes |-> plain, value |-> y]
  BY DEF Default
<1> HIDE DEF plain
<1>9. \A t : (\E a, v : t = [attributes |-> a, value |-> v])
                => t = [attributes |-> t.attributes, value |-> t.value]
  OBVIOUS
<1>10. \E a, v : SpecChanged(Default(x), d) = [attributes |-> a, value |-> v]
  BY DEF SpecChanged
<1>11. SpecChanged(Default(x), d) = [attributes |-> SpecChanged(Default(x), d).attributes,
                                     value |-> SpecChanged(Default(x), d).value]
  BY ONLY <1>9, <1>10
<1>5. CASE d.type = "generic"
  <2>1. SpecChanged(Default(x), d).attributes
          = [type |-> "data", writable |-> TRUE /\ TRUE, enumerable |-> TRUE, configurable |-> TRUE]
    BY <1>4, <1>5, <1>7 DEF SpecChanged
  <2>2. SpecChanged(Default(x), d).attributes = plain
    BY <2>1 DEF plain
  <2>3. SpecChanged(Default(x), d).value = x
    BY <1>5, <1>7 DEF SpecChanged
  <2>4. SpecChanged(Default(x), d) = [attributes |-> plain, value |-> x]
    BY ONLY <1>11, <2>2, <2>3
  <2> QED BY <1>1, <1>2, <1>5, <1>8, <2>4
<1>6. CASE d.type = "data"
  <2>1. d.writable \in {TRUE, Absent}
    BY <1>6 DEF IsDefault, IsAbsentDescriptor, Descriptors, DataDescriptors,
       AccessorDescriptors, GenericDescriptors, Flag
  <2>2. (IF d.writable # Absent THEN d.writable ELSE TRUE /\ TRUE) = TRUE
    BY <2>1
  <2>3. SpecChanged(Default(x), d).attributes
          = [type |-> "data",
             writable |-> IF d.writable # Absent THEN d.writable ELSE TRUE /\ TRUE,
             enumerable |-> TRUE, configurable |-> TRUE]
    BY <1>4, <1>6, <1>7 DEF SpecChanged
  <2>4. SpecChanged(Default(x), d).attributes = plain
    BY <2>2, <2>3 DEF plain
  <2>5. SpecChanged(Default(x), d).value = Or(d.value, x)
    BY <1>6, <1>7 DEF SpecChanged
  <2>6. SpecChanged(Default(x), d) = [attributes |-> plain, value |-> Or(d.value, x)]
    BY ONLY <1>11, <2>4, <2>5
  <2> QED BY <1>1, <1>2, <1>6, <1>8, <2>6
<1> QED BY <1>1, <1>2, <1>3, <1>5, <1>6

\* A new element with default attributes.
LEMMA NewDefault ==
  ASSUME NEW d \in Descriptors, IsDefault(d)
  PROVE  NewSlot(d) = Default(Or(d.value, Undefined))
BY DEF NewSlot, Default, IsDefault

\* A value put where the vector has a cell, whatever the representation is:
\* what compiled stores do without looking.
LEMMA PlainWrite ==
  ASSUME NEW e, Whole(e), NEW i \in Indices, i < e.size, NEW x \in Values,
         NEW f, f = Written(e, i, x)
  PROVE  /\ Whole(f)
         /\ e.dense /\ i < e.length =>
              (Tidy(e) => Tidy(f)) /\ HasElement(e, f, i, Default(x))
<1>0. Stored(e)
  BY DEF Whole
<1>1. /\ Stored(f) /\ f.dense = e.dense /\ f.length = e.length /\ f.sparse = e.sparse
  BY ONLY <1>0, i \in Indices, i < e.size, x \in Values, f = Written(e, i, x), WriteEffect
<1>2. Whole(f)
  BY <1>1 DEF Whole, Apart
<1>3. ASSUME e.dense, i < e.length
      PROVE  (Tidy(e) => Tidy(f)) /\ HasElement(e, f, i, Default(x))
  <2>1. i < MaxVectorSize
    <3>1. e.size \in Nat /\ e.size <= MaxVectorSize /\ MaxVectorSize \in Nat /\ MaxLength \in Nat
      BY <1>0, StoredFieldsOf
    <3> QED BY <3>1 DEF Indices
  <2>2. Longer(f, i) = f
    <3>1. DOMAIN f = {"dense", "writable", "length", "size", "vector", "sparse"}
          /\ f = [dense |-> f.dense, writable |-> f.writable, length |-> f.length,
                  size |-> f.size, vector |-> f.vector, sparse |-> f.sparse]
      BY <1>1, StoredFieldsOf
    <3>2. i < f.length
      BY <1>1, <1>3
    <3> QED BY <3>1, <3>2 DEF Longer
  <2>3. e = IF i < e.size THEN e ELSE Resized(e, i + 1)
    OBVIOUS
  <2>4. f = Longer(Written(e, i, x), i)
    BY <2>2
  <2> QED BY ONLY Whole(e), <1>3, i \in Indices, x \in Values, <2>1, <2>3, <2>4, DenseWrite
<1> QED BY <1>2, <1>3

-----------------------------------------------------------------------------
(* The steps                                                               *)

\* Without accessors among the descriptors, no element is one.
NoAccessors == \A d \in Inputs : d.type # "accessor"
OnlyData(e) == NoAccessors => \A j \in Owned(e) : Own(e, j).attributes.type = "data"

\* What a step keeps, whatever came before, and what calls keep of a tidy array.
Kept == Whole(elements') /\ (Tidy(elements) => Tidy(elements'))

\* The value DefineOwnIndexedValueDenseInternal stores.
Filled(i, v) ==
  IF v # Absent THEN v
  ELSE IF i \in VectorIndices(elements) THEN elements.vector[i] ELSE Undefined

\* DefineOwnIndexedValueDenseInternal stores an element with default attributes.
LEMMA DefineDenseStep ==
  ASSUME NEW CONSTANT i \in Indices, NEW CONSTANT v \in Values \cup {Absent},
         Whole(elements), elements.dense, i < MaxVectorSize, DefineDense(i, v)
  PROVE  /\ Kept
         /\ Filled(i, v) \in Values
         /\ HasElement(elements, elements', i, Default(Filled(i, v)))
         /\ answer' = TRUE /\ Keep
<1> DEFINE g == IF i < elements.size THEN elements ELSE Resized(elements, i + 1)
           x == IF v # Absent THEN v
                ELSE IF g.vector[i] = Empty THEN Undefined ELSE g.vector[i]
<1>1. elements' = Longer(Written(g, i, x), i) /\ answer' = TRUE /\ Keep
  BY DEF DefineDense, Answer, Written
<1> HIDE DEF g
<1>2. Undefined \in Values /\ Empty \notin Values
  BY DescriptorAssumption, ElementsAssumption
<1>3. PICK y : y = g.vector[i]
  OBVIOUS
<1>4. g = IF i < elements.size THEN elements ELSE Resized(elements, i + 1)
  BY DEF g
<1>5. y = IF i \in VectorIndices(elements) THEN elements.vector[i] ELSE Empty
  <2>1. PICK h : h = Longer(Written(g, i, Undefined), i)
    OBVIOUS
  <2>2. Undefined \in Values
    BY <1>2
  <2>3. g.vector[i] = IF i \in VectorIndices(elements) THEN elements.vector[i] ELSE Empty
    BY ONLY Whole(elements), elements.dense, i \in Indices, i < MaxVectorSize, <1>4, <2>1, <2>2,
       DenseWrite
  <2> QED BY <1>3, <2>3
<1>6. x = Filled(i, v)
  <2>1. i \in VectorIndices(elements) => elements.vector[i] # Empty
    BY DEF VectorIndices, InVector
  <2> QED BY <1>3, <1>5, <2>1 DEF Filled
<1>7. Filled(i, v) \in Values
  <2>1. Stored(elements)
    BY DEF Whole
  <2>2. \A j \in VectorIndices(elements) : elements.vector[j] \in Values
    <3>1. \A j \in DOMAIN elements.vector : elements.vector[j] \in Values \cup {Empty}
      BY <2>1, StoredFieldsOf
    <3> QED BY <3>1 DEF VectorIndices, InVector
  <2> QED BY <1>2, <2>2 DEF Filled
<1>8. elements' = Longer(Written(g, i, Filled(i, v)), i)
  BY <1>1, <1>6
<1>9. /\ Whole(elements') /\ (Tidy(elements) => Tidy(elements'))
      /\ HasElement(elements, elements', i, Default(Filled(i, v)))
  BY ONLY Whole(elements), elements.dense, i \in Indices, i < MaxVectorSize, <1>4, <1>7, <1>8, DenseWrite
<1> QED BY <1>1, <1>7, <1>9 DEF Kept

\* What [[DefineOwnProperty]] of the code does, in terms of the elements there
\* are: a slot changed or left alone, a new slot, or a refusal.
Changed(s, d) == IF Unchanged(s, d) THEN s ELSE Merge(s, d)

Defines(i, d) ==
  \/ /\ i \in Owned(elements) /\ Returned(Own(elements, i), d)
     /\ HasElement(elements, elements', i, Changed(Own(elements, i), d)) /\ answer' = TRUE
  \/ /\ i \in Owned(elements) /\ ~Returned(Own(elements, i), d)
     /\ SameArray(elements, elements') /\ answer' = FALSE
  \/ /\ i \notin Owned(elements) /\ ~PastReadOnlyLength(i)
     /\ HasElement(elements, elements', i, NewSlot(d)) /\ answer' = TRUE
  \/ /\ i \notin Owned(elements) /\ (PastReadOnlyLength(i) \/ ~extensible)
     /\ SameArray(elements, elements') /\ answer' = FALSE

\* Elements are stored slots.
LEMMA OwnStored ==
  ASSUME NEW e, Whole(e), e.dense \/ Tidy(e), NEW i \in Owned(e)
  PROVE  Own(e, i) \in StoredSlots
<1>1. /\ Owned(e) = VectorIndices(e) \cup DOMAIN e.sparse
      /\ Own(e, i) = IF i \in VectorIndices(e) THEN Default(e.vector[i]) ELSE e.sparse[i]
  BY OwnedOf
<1>2. /\ \A j \in DOMAIN e.vector : e.vector[j] \in Values \cup {Empty}
      /\ \A j \in DOMAIN e.sparse : e.sparse[j] \in StoredSlots
  <2>1. Stored(e)
    BY DEF Whole
  <2> QED BY <2>1, StoredFieldsOf
<1>3. \A x \in Values : Default(x) \in StoredSlots
  BY DEF Default, StoredSlots, StoredAttributes
<1>4. i \in VectorIndices(e) => e.vector[i] \in Values
  BY <1>2 DEF VectorIndices, InVector
<1> QED BY <1>1, <1>2, <1>3, <1>4

\* Nothing else is made of a slot than what its merge is.
LEMMA ChangedTyped ==
  ASSUME NEW s \in StoredSlots, NEW d \in Descriptors
  PROVE  /\ Changed(s, d) \in StoredSlots
         /\ IsDefineOwnPropertyAccepted(s, d) => Changed(s, d) = Merge(s, d) /\ Returned(s, d)
         /\ ~IsDefineOwnPropertyAccepted(s, d) /\ Returned(s, d) => Changed(s, d) = s
BY MergeTyped DEF Changed, IsDefineOwnPropertyAccepted, Returned

\* The map, when the element cannot be in the vector or the array is sparse.
LEMMA SparseStep ==
  ASSUME NEW CONSTANT i \in Indices, NEW CONSTANT d \in Descriptors,
         Whole(elements), ~PastReadOnlyLength(i),
         elements.dense /\ IsDefault(d) => MaxVectorSize <= i,
         DefineSparse(i, d)
  PROVE  /\ Kept /\ Keep
         /\ Tidy(elements) => Defines(i, d)
<1> DEFINE moved == elements.dense /\ ~IsDefault(d) /\ i < MaxVectorSize
<1>1. PICK e : e = IF moved THEN MakeSparse(elements) ELSE elements
  OBVIOUS
<1>2. /\ Whole(e) /\ (Tidy(elements) => Tidy(e) /\ SameArray(elements, e))
      /\ e.dense => MaxVectorSize <= i
  <2>0. i \in Nat /\ MaxVectorSize \in Nat
    BY ElementsAssumption DEF Indices
  <2>1. CASE moved
    <3>1. e = MakeSparse(elements)
      BY <1>1, <2>1
    <3>2. /\ Whole(e) /\ ~e.dense
          /\ Tidy(elements) => Tidy(e) /\ SameArray(elements, e)
      BY ONLY Whole(elements), <3>1, SparseSame
    <3> QED BY <3>2
  <2>2. CASE ~moved
    <3>1. e = elements
      BY <1>1, <2>2
    <3> QED BY <2>0, <2>2, <3>1 DEF SameArray
  <2> QED BY <2>1, <2>2
<1>3. Stored(e)
  BY <1>2 DEF Whole
<1>4. \A j \in DOMAIN e.sparse : e.sparse[j] \in StoredSlots
  BY <1>3, StoredFieldsOf
<1>5. /\ Tidy(elements) =>
           /\ Owned(e) = Owned(elements) /\ \A j \in Owned(elements) : Own(e, j) = Own(elements, j)
           /\ i \in Owned(elements) <=> i \in DOMAIN e.sparse
           /\ i \in Owned(elements) => Own(elements, i) = e.sparse[i]
           /\ i \in Owned(elements) => i < e.length
  <2> SUFFICES ASSUME Tidy(elements)
               PROVE  /\ Owned(e) = Owned(elements)
                      /\ \A j \in Owned(elements) : Own(e, j) = Own(elements, j)
                      /\ i \in Owned(elements) <=> i \in DOMAIN e.sparse
                      /\ i \in Owned(elements) => Own(elements, i) = e.sparse[i]
                      /\ i \in Owned(elements) => i < e.length
    OBVIOUS
  <2>1. /\ Owned(e) = VectorIndices(e) \cup DOMAIN e.sparse
        /\ \A j \in Owned(e) :
             Own(e, j) = IF j \in VectorIndices(e) THEN Default(e.vector[j]) ELSE e.sparse[j]
    BY <1>2, OwnedOf
  <2>2. i \notin VectorIndices(e)
    <3>1. CASE ~e.dense
      BY <1>2, <3>1 DEF Tidy
    <3>2. CASE e.dense
      <4>1. e.size \in Nat /\ e.size <= MaxVectorSize /\ MaxVectorSize \in Nat /\ MaxLength \in Nat
        BY <1>3, StoredFieldsOf
      <4> QED BY <1>2, <3>2, <4>1 DEF VectorIndices, InVector, Indices
    <3> QED BY <3>1, <3>2
  <2>3. Owned(e) = Owned(elements) /\ \A j \in Owned(elements) : Own(e, j) = Own(elements, j)
    BY <1>2 DEF SameArray
  <2>4. \A j \in Owned(e) : j < e.length
    BY <1>2, <2>1 DEF Tidy
  <2> QED BY <2>1, <2>2, <2>3, <2>4
<1>6. CASE i \in DOMAIN e.sparse
  <2> DEFINE s == e.sparse[i]
  <2>0. PICK t : t = Merge(s, d)
    OBVIOUS
  <2>1. s \in StoredSlots /\ t \in StoredSlots
    BY <1>4, <1>6, <2>0, MergeTyped
  <2>2. /\ elements' = IF IsDefineOwnPropertyAccepted(s, d)
                       THEN [e EXCEPT !.sparse[i] = Merge(@, d)] ELSE e
        /\ answer' = Returned(s, d) /\ Keep
    BY <1>1, <1>6 DEF DefineSparse, Answer
  <2>3. CASE IsDefineOwnPropertyAccepted(s, d)
    <3>1. [e EXCEPT !.sparse[i] = Merge(@, d)] = SlotPut(e, i, t)
      <4>1. DOMAIN e = {"dense", "writable", "length", "size", "vector", "sparse"}
            /\ e.sparse = [x \in DOMAIN e.sparse |-> e.sparse[x]]
        <5>1. e.sparse \in [DOMAIN e.sparse -> StoredSlots]
          BY <1>3 DEF Stored
        <5> QED BY <1>3, <5>1, StoredFieldsOf
      <4>2. [e.sparse EXCEPT ![i] = Merge(@, d)]
              = [x \in DOMAIN e.sparse \cup {i} |-> IF x = i THEN t ELSE e.sparse[x]]
        BY <1>6, <2>0, <4>1
      <4> QED BY <1>6, <4>1, <4>2 DEF SlotPut
    <3>2. elements' = SlotPut(e, i, t)
      BY <2>2, <2>3, <3>1
    <3>3. elements' = IF i \in DOMAIN e.sparse THEN SlotPut(e, i, t) ELSE Longer(SlotPut(e, i, t), i)
      BY <1>6, <3>2
    <3>4. /\ Whole(elements') /\ (Tidy(e) => Tidy(elements'))
          /\ e.dense \/ Tidy(e) => HasElement(e, elements', i, t)
      BY ONLY <1>2, i \in Indices, <2>1, <3>3, SparseWrite
    <3>5. t = Changed(s, d) /\ Returned(s, d)
      BY <2>0, <2>1, <2>3, ChangedTyped
    <3>6. ASSUME Tidy(elements) PROVE Defines(i, d)
      <4>1. HasElement(e, elements', i, t)
        BY <1>2, <3>4, <3>6
      <4>2. HasElement(elements, elements', i, t)
        BY <1>2, <3>6, <4>1, AfterSame
      <4>3. i \in Owned(elements) /\ Own(elements, i) = s
        BY <1>5, <1>6, <3>6
      <4> QED BY <2>2, <3>5, <4>2, <4>3 DEF Defines
    <3> QED BY <1>2, <2>2, <3>4, <3>6 DEF Kept
  <2>4. CASE ~IsDefineOwnPropertyAccepted(s, d)
    <3>1. elements' = e
      BY <2>2, <2>4
    <3>2. ASSUME Tidy(elements) PROVE Defines(i, d)
      <4>1. i \in Owned(elements) /\ Own(elements, i) = s /\ i < elements.length
            /\ SameArray(elements, elements')
        BY <1>2, <1>5, <1>6, <3>1, <3>2 DEF SameArray
      <4>2. CASE Returned(s, d)
        <5>1. Changed(s, d) = s
          BY <2>1, <2>4, <4>2, ChangedTyped
        <5>2. HasElement(elements, elements', i, Own(elements, i))
          BY <4>1, SameIsStored
        <5> QED BY <2>2, <4>1, <4>2, <5>1, <5>2 DEF Defines
      <4>3. CASE ~Returned(s, d)
        BY <2>2, <4>1, <4>3 DEF Defines
      <4> QED BY <4>2, <4>3
    <3> QED BY <1>2, <2>2, <3>1, <3>2 DEF Kept
  <2> QED BY <2>3, <2>4
<1>7. CASE i \notin DOMAIN e.sparse /\ extensible
  <2>0. PICK t : t = NewSlot(d)
    OBVIOUS
  <2>1. t \in StoredSlots
    BY <2>0, NewSlotTyped
  <2>2. /\ elements' = Longer(SlotPut(e, i, t), i) /\ answer' = TRUE /\ Keep
    BY <1>1, <1>7, <2>0 DEF DefineSparse, Answer, SlotPut
  <2>3. elements' = IF i \in DOMAIN e.sparse THEN SlotPut(e, i, t) ELSE Longer(SlotPut(e, i, t), i)
    BY <1>7, <2>2
  <2>4. /\ Whole(elements') /\ (Tidy(e) => Tidy(elements'))
        /\ e.dense \/ Tidy(e) => HasElement(e, elements', i, t)
    BY ONLY <1>2, i \in Indices, <2>1, <2>3, SparseWrite
  <2>5. ASSUME Tidy(elements) PROVE Defines(i, d)
    <3>1. HasElement(e, elements', i, t)
      BY <1>2, <2>4, <2>5
    <3>2. HasElement(elements, elements', i, t)
      BY <1>2, <2>5, <3>1, AfterSame
    <3>3. i \notin Owned(elements)
      BY <1>5, <1>7, <2>5
    <3> QED BY <2>0, <2>2, <3>2, <3>3 DEF Defines
  <2> QED BY <1>2, <2>2, <2>4, <2>5 DEF Kept
<1>8. CASE i \notin DOMAIN e.sparse /\ ~extensible
  <2>1. elements' = e /\ answer' = FALSE /\ Keep
    BY <1>1, <1>8 DEF DefineSparse, Answer
  <2>2. ASSUME Tidy(elements) PROVE Defines(i, d)
    BY <1>2, <1>5, <1>8, <2>1, <2>2 DEF Defines
  <2> QED BY <1>2, <2>1, <2>2 DEF Kept
<1> QED BY <1>6, <1>7, <1>8

\* What the code makes of a slot is what 8.12.9 says, for a descriptor that
\* gives a value or a slot that is no accessor.
LEMMA ChangedIsSpec ==
  ASSUME NEW s \in StoredSlots, NEW d \in Descriptors,
         ~(s.attributes.type = "accessor" /\ d.type = "data" /\ d.value = Absent)
  PROVE  Changed(s, d) = SpecChanged(s, d)
BY MergeIsSpec, UnchangedIsSpec DEF Changed

\* DefineOwnIndexedPropertyInternal, all its ways.
LEMMA DefineOwnStep ==
  ASSUME NEW CONSTANT i \in Indices, NEW CONSTANT d \in Descriptors,
         Whole(elements), DefineOwn(i, d)
  PROVE  /\ Kept /\ Keep
         /\ Tidy(elements) => Defines(i, d)
<1> DEFINE quick == elements.dense /\ IsDefault(d) /\ i < MaxVectorSize
           inPlace == /\ elements.dense /\ ~IsDefault(d) /\ IsAbsentDescriptor(d)
                      /\ InVector(elements, i)
<1>1. \/ PastReadOnlyLength(i) /\ Answer(elements, FALSE)
      \/ ~PastReadOnlyLength(i) /\ quick /\ DefineDense(i, d.value)
      \/ /\ ~PastReadOnlyLength(i) /\ inPlace
         /\ Answer(IF d.type = "generic" THEN elements
                   ELSE [elements EXCEPT !.vector[i] = Or(d.value, @)], TRUE)
      \/ ~PastReadOnlyLength(i) /\ ~quick /\ ~inPlace /\ DefineSparse(i, d)
  BY DEF DefineOwn
<1>2. Stored(elements)
  BY DEF Whole
<1>3. /\ elements.size \in Nat /\ elements.size <= MaxVectorSize /\ MaxVectorSize \in Nat
      /\ MaxLength \in Nat /\ i \in Nat /\ elements.length \in Nat
      /\ \A j \in 0..(elements.size - 1) : j \in DOMAIN elements.vector
      /\ \A j \in DOMAIN elements.vector : elements.vector[j] \in Values \cup {Empty}
      /\ DOMAIN elements = {"dense", "writable", "length", "size", "vector", "sparse"}
  BY <1>2, StoredFieldsOf DEF Indices
<1>4. elements.dense =>
        /\ Owned(elements) = VectorIndices(elements) \cup DOMAIN elements.sparse
        /\ \A j \in Owned(elements) :
             Own(elements, j) = IF j \in VectorIndices(elements)
                                THEN Default(elements.vector[j]) ELSE elements.sparse[j]
        /\ InVector(elements, i) <=> i \in VectorIndices(elements)
  BY OwnedOf
<1>5. ASSUME NEW x \in Values, IsDefault(d) \/ IsAbsentDescriptor(d)
      PROVE  /\ Returned(Default(x), d)
             /\ Changed(Default(x), d) = IF d.type = "generic" THEN Default(x) ELSE Default(Or(d.value, x))
  <2>1. /\ Default(x) \in StoredSlots /\ SpecAllows(Default(x), d)
        /\ d.type = "generic" => SpecChanged(Default(x), d) = Default(x)
        /\ d.type # "generic" => SpecChanged(Default(x), d) = Default(Or(d.value, x))
    BY <1>5, PlainIsSpec
  <2>2. Default(x).attributes.type = "data"
    BY DEF Default
  <2>3. Returned(Default(x), d)
    BY <2>1, AnswerIsSpec
  <2>4. Changed(Default(x), d) = SpecChanged(Default(x), d)
    BY <2>1, <2>2, ChangedIsSpec
  <2> QED BY <2>1, <2>3, <2>4
<1>6. CASE PastReadOnlyLength(i) /\ Answer(elements, FALSE)
  <2>1. elements' = elements /\ answer' = FALSE /\ Keep
    BY <1>6 DEF Answer
  <2>2. ASSUME Tidy(elements) PROVE Defines(i, d)
    <3>1. i \notin Owned(elements)
      <4>1. Owned(elements) = VectorIndices(elements) \cup DOMAIN elements.sparse
        BY <2>2, OwnedOf
      <4> QED BY <1>3, <1>6, <2>2, <4>1 DEF Tidy, PastReadOnlyLength
    <3>2. SameArray(elements, elements')
      BY <2>1 DEF SameArray
    <3> QED BY <1>6, <2>1, <3>1, <3>2 DEF Defines
  <2> QED BY <2>1, <2>2 DEF Kept
<1>7. CASE ~PastReadOnlyLength(i) /\ quick /\ DefineDense(i, d.value)
  <2>1. PICK v : v = d.value
    OBVIOUS
  <2>2. v \in Values \cup {Absent} /\ d.type = "data"
    BY <1>7, <2>1 DEF IsDefault, Descriptors, DataDescriptors, AccessorDescriptors, GenericDescriptors
  <2>3. DefineDense(i, v) /\ elements.dense /\ i < MaxVectorSize
    BY <1>7, <2>1
  <2>4. /\ Kept /\ Filled(i, v) \in Values
        /\ HasElement(elements, elements', i, Default(Filled(i, v)))
        /\ answer' = TRUE /\ Keep
    BY ONLY i \in Indices, <2>2, Whole(elements), <2>3, DefineDenseStep
  <2>5. CASE i \in VectorIndices(elements)
    <3>1. PICK x : x = elements.vector[i]
      OBVIOUS
    <3>2. x \in Values
      BY <1>3, <2>5, <3>1 DEF VectorIndices, InVector
    <3>3. i \in Owned(elements) /\ Own(elements, i) = Default(x)
      BY <1>4, <1>7, <2>5, <3>1
    <3>4. Filled(i, v) = Or(d.value, x)
      BY <2>1, <2>5, <3>1 DEF Filled, Or
    <3>5. Returned(Default(x), d) /\ Changed(Default(x), d) = Default(Or(d.value, x))
      BY <1>5, <1>7, <2>2, <3>2
    <3> QED BY <2>4, <3>3, <3>4, <3>5 DEF Defines
  <2>6. CASE i \notin VectorIndices(elements)
    <3>1. i \notin DOMAIN elements.sparse
      BY <1>3, <1>7 DEF Whole, Apart
    <3>2. i \notin Owned(elements)
      BY <1>4, <1>7, <2>6, <3>1
    <3>3. Filled(i, v) = Or(d.value, Undefined)
      BY <2>1, <2>6 DEF Filled, Or
    <3>4. NewSlot(d) = Default(Filled(i, v))
      BY <1>7, <3>3, NewDefault
    <3> QED BY <1>7, <2>4, <3>2, <3>4 DEF Defines
  <2> QED BY <2>4, <2>5, <2>6
<1>8. CASE /\ ~PastReadOnlyLength(i) /\ inPlace
           /\ Answer(IF d.type = "generic" THEN elements
                     ELSE [elements EXCEPT !.vector[i] = Or(d.value, @)], TRUE)
  <2>1. i \in VectorIndices(elements) /\ i < elements.size /\ elements.dense
    BY <1>4, <1>8 DEF InVector
  <2>2. PICK x : x = elements.vector[i]
    OBVIOUS
  <2>3. x \in Values
    BY <1>3, <2>1, <2>2 DEF VectorIndices, InVector
  <2>4. i \in Owned(elements) /\ Own(elements, i) = Default(x)
    BY <1>4, <2>1, <2>2
  <2>5. answer' = TRUE /\ Keep
    BY <1>8 DEF Answer
  <2>6. Tidy(elements) => i < elements.length
    BY <2>1 DEF Tidy
  <2>7. CASE d.type = "generic"
    <3>1. elements' = elements
      BY <1>8, <2>7 DEF Answer
    <3>2. Returned(Default(x), d) /\ Changed(Default(x), d) = Default(x)
      BY <1>5, <1>8, <2>3, <2>7
    <3>3. ASSUME Tidy(elements) PROVE HasElement(elements, elements', i, Own(elements, i))
      <4>1. SameArray(elements, elements')
        BY <3>1 DEF SameArray
      <4> QED BY <2>4, <2>6, <3>3, <4>1, SameIsStored
    <3> QED BY <2>4, <2>5, <3>1, <3>2, <3>3 DEF Kept, Defines
  <2>8. CASE d.type # "generic"
    <3>1. d.type = "data"
      BY <1>8, <2>8, DescriptorKinds DEF IsAbsentDescriptor
    <3>2. PICK y : y = Or(d.value, x)
      OBVIOUS
    <3>3. y \in Values
      BY <2>3, <3>1, <3>2 DEF Or, Descriptors, DataDescriptors, AccessorDescriptors, GenericDescriptors
    <3>4. elements' = Written(elements, i, y)
      BY <1>8, <2>2, <2>8, <3>2 DEF Answer, Written
    <3>5. /\ Whole(elements')
          /\ elements.dense /\ i < elements.length =>
               (Tidy(elements) => Tidy(elements')) /\ HasElement(elements, elements', i, Default(y))
      BY ONLY Whole(elements), i \in Indices, <2>1, <3>3, <3>4, PlainWrite
    <3>6. Returned(Default(x), d) /\ Changed(Default(x), d) = Default(y)
      BY <1>5, <1>8, <2>3, <2>8, <3>2
    <3> QED BY <2>1, <2>4, <2>5, <2>6, <3>5, <3>6 DEF Kept, Defines
  <2> QED BY <2>7, <2>8
<1>9. CASE ~PastReadOnlyLength(i) /\ ~quick /\ ~inPlace /\ DefineSparse(i, d)
  <2>1. elements.dense /\ IsDefault(d) => MaxVectorSize <= i
    BY <1>3, <1>9
  <2> QED BY <1>9, <2>1, SparseStep
<1> QED BY <1>1, <1>6, <1>7, <1>8, <1>9

\* An element is added only within length or when length is writable, and to
\* an object that is extensible, unless the step departs.
LEMMA AddsWhenMay ==
  ASSUME NEW CONSTANT i \in Indices, NEW CONSTANT s,
         LengthHolds, ClosedHolds, i \notin Owned(elements), HasElement(elements, elements', i, s)
  PROVE  /\ extensible
         /\ ~elements.writable => elements.length = LengthWith(elements.length, i)
<1>1. Owned(elements') = Owned(elements) \cup {i}
      /\ elements'.length = LengthWith(elements.length, i)
  BY DEF HasElement
<1> QED BY <1>1 DEF ClosedHolds, LengthHolds

\* The instance of ArrayModel has the descriptors of this module.
LEMMA SameDescriptors ==
  /\ \A s, d : Arrays!SpecChanged(s, d) = SpecChanged(s, d)
  /\ \A s, d : Arrays!SpecAllows(s, d) <=> SpecAllows(s, d)
  /\ \A d : Arrays!NewSlot(d) = NewSlot(d)
<1>1. \A s, d : Arrays!SpecChanged(s, d) = SpecChanged(s, d)
  BY DEF Arrays!SpecChanged, SpecChanged, Arrays!Or, Or
<1>2. \A s, d : Arrays!SpecAllows(s, d) <=> SpecAllows(s, d)
  BY <1>1 DEF Arrays!SpecAllows, SpecAllows
<1>3. \A d : Arrays!NewSlot(d) = NewSlot(d)
  BY DEF Arrays!NewSlot, NewSlot, Arrays!Or, Or, Arrays!OrNull, OrNull
<1> QED BY <1>1, <1>2, <1>3

\* A definition is [[DefineOwnProperty]] of ECMAScript 5.
LEMMA DefineView ==
  ASSUME NEW CONSTANT i \in Indices, NEW CONSTANT d \in Descriptors,
         Whole(elements), Tidy(elements), LengthHolds, ClosedHolds, Keep, Defines(i, d),
         i \in Owned(elements) =>
           ~(Own(elements, i).attributes.type = "accessor" /\ d.type = "data" /\ d.value = Absent)
  PROVE  Arrays!DefineElement(i, d)
<1> DEFINE map == [j \in Owned(elements) |-> Own(elements, j)]
<1>0. DOMAIN map = Owned(elements) /\ \A j \in Owned(elements) : map[j] = Own(elements, j)
  OBVIOUS
<1>1. Arrays!DefineElement(i, d) <=>
        \/ /\ i \in DOMAIN map /\ SpecAllows(map[i], d)
           /\ Arrays!StoreElement(i, SpecChanged(map[i], d))
        \/ i \in DOMAIN map /\ ~SpecAllows(map[i], d) /\ Arrays!Refused
        \/ i \notin DOMAIN map /\ Arrays!MayAdd(i) /\ Arrays!StoreElement(i, NewSlot(d))
        \/ i \notin DOMAIN map /\ ~Arrays!MayAdd(i) /\ Arrays!Refused
  BY SameDescriptors DEF Arrays!DefineElement, Arrays!Has
<1> HIDE DEF map
<1>2. Arrays!MayAdd(i) <=> extensible /\ (i < elements.length \/ elements.writable)
  BY DEF Arrays!MayAdd
<1>3. /\ i \in Nat /\ elements.length \in Nat
  <2>1. Stored(elements)
    BY DEF Whole
  <2> QED BY <2>1, StoredFieldsOf DEF Indices
<1>4. CASE i \in Owned(elements)
  <2>1. PICK s : s = Own(elements, i)
    OBVIOUS
  <2>2. s \in StoredSlots
    BY <1>4, <2>1, OwnStored
  <2>3. Changed(s, d) = SpecChanged(s, d) /\ (Returned(s, d) <=> SpecAllows(s, d))
    BY <1>4, <2>1, <2>2, ChangedIsSpec, AnswerIsSpec
  <2>4. i \in DOMAIN map /\ map[i] = s
    BY <1>0, <1>4, <2>1
  <2>5. CASE Returned(s, d)
    <3>1. PICK t : t = SpecChanged(s, d)
      OBVIOUS
    <3>2. HasElement(elements, elements', i, t) /\ answer' = TRUE
      BY <1>4, <2>1, <2>3, <2>5, <3>1 DEF Defines
    <3>3. Arrays!StoreElement(i, t)
      BY <3>2, StoreElementView
    <3> QED BY <1>1, <2>3, <2>4, <2>5, <3>1, <3>3
  <2>6. CASE ~Returned(s, d)
    <3>1. SameArray(elements, elements') /\ answer' = FALSE
      BY <1>4, <2>1, <2>6 DEF Defines
    <3>2. Arrays!Refused
      BY <3>1, RefusedView
    <3> QED BY <1>1, <2>3, <2>4, <2>6, <3>2
  <2> QED BY <2>5, <2>6
<1>5. CASE i \notin Owned(elements)
  <2>1. i \notin DOMAIN map
    BY <1>0, <1>5
  <2>2. CASE ~PastReadOnlyLength(i) /\ HasElement(elements, elements', i, NewSlot(d)) /\ answer' = TRUE
    <3>1. PICK t : t = NewSlot(d)
      OBVIOUS
    <3>2. HasElement(elements, elements', i, t)
      BY <2>2, <3>1
    <3>3. Arrays!StoreElement(i, t)
      BY <2>2, <3>2, StoreElementView
    <3>4. Arrays!MayAdd(i)
      BY <1>2, <1>3, <1>5, <2>2, <3>2, AddsWhenMay DEF PastReadOnlyLength
    <3> QED BY <1>1, <2>1, <3>1, <3>3, <3>4
  <2>3. CASE (PastReadOnlyLength(i) \/ ~extensible) /\ SameArray(elements, elements') /\ answer' = FALSE
    <3>1. Arrays!Refused
      BY <2>3, RefusedView
    <3>2. ~Arrays!MayAdd(i)
      BY <1>2, <1>3, <2>3 DEF PastReadOnlyLength
    <3> QED BY <1>1, <2>1, <3>1, <3>2
  <2> QED BY <1>5, <2>2, <2>3 DEF Defines
<1> QED BY <1>4, <1>5

\* The descriptors PutIndexedSlotMethod passes on, and what they ask for.
LEMMA PutDescriptors ==
  ASSUME NEW v \in Values
  PROVE  /\ ValueOnly(v) \in Descriptors /\ DefaultData(v) \in Descriptors
         /\ ValueOnly(v).value # Absent
         /\ NewSlot(DefaultData(v)) = Default(v)
         /\ \A s \in StoredSlots :
              s.attributes.type = "data" /\ s.attributes.writable =>
                /\ SpecAllows(s, ValueOnly(v))
                /\ SpecChanged(s, ValueOnly(v)) = [s EXCEPT !.value = v]
<1>1. v # Absent
  BY DescriptorAssumption
<1>2. /\ ValueOnly(v) \in Descriptors /\ DefaultData(v) \in Descriptors
      /\ ValueOnly(v).value # Absent
  BY <1>1 DEF ValueOnly, DefaultData, Descriptors, DataDescriptors, Flag
<1>3. NewSlot(DefaultData(v)) = Default(v)
  BY <1>1 DEF NewSlot, DefaultData, Default, Or
<1>4. ASSUME NEW s \in StoredSlots, s.attributes.type = "data", s.attributes.writable
      PROVE  /\ SpecAllows(s, ValueOnly(v))
             /\ SpecChanged(s, ValueOnly(v)) = [s EXCEPT !.value = v]
  <2>1. /\ s.attributes \in StoredAttributes
        /\ s = [attributes |-> s.attributes, value |-> s.value]
    BY StoredFields
  <2>2. PICK a : a = s.attributes
    OBVIOUS
  <2>3. a = [type |-> "data", writable |-> TRUE, enumerable |-> a.enumerable,
             configurable |-> a.configurable]
    BY <1>4, <2>1, <2>2 DEF StoredAttributes
  <2>4. SpecChanged(s, ValueOnly(v)) = [attributes |-> a, value |-> v]
    <3>1. SpecChanged(s, ValueOnly(v))
            = [attributes |-> [type |-> "data", writable |-> TRUE, enumerable |-> a.enumerable,
                               configurable |-> a.configurable],
               value |-> v]
      BY <1>1, <1>4, <2>2 DEF SpecChanged, ValueOnly, Or
    <3> QED BY <2>3, <3>1
  <2>5. [s EXCEPT !.value = v] = [attributes |-> a, value |-> v]
    BY <2>1, <2>2
  <2>6. SpecAllows(s, ValueOnly(v))
    BY <1>4, <2>2, <2>4 DEF SpecAllows
  <2> QED BY <2>4, <2>5, <2>6
<1> QED BY <1>2, <1>3, <1>4

\* PutIndexedSlotMethod keeps what DefineOwn does.
LEMMA PutStep ==
  ASSUME NEW CONSTANT i \in Indices, NEW CONSTANT v \in Values, Whole(elements), Put(i, v)
  PROVE  Kept /\ Keep
<1>1. CASE FastPut(i) /\ DefineDense(i, v)
  <2>1. elements.dense /\ i < MaxVectorSize /\ DefineDense(i, v)
    BY <1>1 DEF FastPut
  <2>2. v \in Values \cup {Absent}
    OBVIOUS
  <2> QED BY <2>1, <2>2, DefineDenseStep
<1>2. CASE DefineOwn(i, IF i \in Owned(elements) THEN ValueOnly(v) ELSE DefaultData(v))
  <2>1. PICK d \in Descriptors : d = IF i \in Owned(elements) THEN ValueOnly(v) ELSE DefaultData(v)
    BY PutDescriptors
  <2>2. DefineOwn(i, d)
    BY <1>2, <2>1
  <2> QED BY <2>2, DefineOwnStep
<1>3. CASE Answer(elements, FALSE)
  BY <1>3 DEF Answer, Kept
<1> QED BY <1>1, <1>2, <1>3 DEF Put

\* A value stored with default attributes, within kMaxVectorSize, is what [[Put]]
\* stores when the prototypes have no elements.
LEMMA StoredIsPut ==
  ASSUME NEW CONSTANT i \in Indices, NEW CONSTANT v \in Values,
         Whole(elements), Tidy(elements), LengthHolds, ClosedHolds,
         elements.dense, i < MaxVectorSize, DOMAIN inherited = {},
         HasElement(elements, elements', i, Default(v)), answer' = TRUE, Keep
  PROVE  Arrays!PutElement(i, v)
<1> DEFINE map == [j \in Owned(elements) |-> Own(elements, j)]
<1>0. DOMAIN map = Owned(elements) /\ \A j \in Owned(elements) : map[j] = Own(elements, j)
  OBVIOUS
<1>1. \/ /\ i \in DOMAIN map /\ Arrays!IsWritable(map[i])
         /\ Arrays!StoreElement(i, [map[i] EXCEPT !.value = v])
      \/ /\ i \notin DOMAIN map
         /\ i \in DOMAIN inherited => Arrays!IsWritable(inherited[i])
         /\ Arrays!MayAdd(i)
         /\ Arrays!StoreElement(i, Default(v))
      => Arrays!PutElement(i, v)
  BY DEF Arrays!PutElement, Arrays!Has, Arrays!Plain, Default
<1> HIDE DEF map
<1>2. Arrays!MayAdd(i) <=> extensible /\ (i < elements.length \/ elements.writable)
  BY DEF Arrays!MayAdd
<1>3. \A s : Arrays!IsWritable(s) <=> s.attributes.type = "data" /\ s.attributes.writable
  BY DEF Arrays!IsWritable
<1>4. i \in Nat /\ elements.length \in Nat
  <2>1. Stored(elements)
    BY DEF Whole
  <2> QED BY <2>1, StoredFieldsOf DEF Indices
<1>5. PICK s : s = Default(v)
  OBVIOUS
<1>6. Arrays!StoreElement(i, s)
  BY <1>5, StoreElementView
<1>7. CASE i \in Owned(elements)
  <2>1. PICK t : t = map[i]
    OBVIOUS
  <2>2. \E x : t = Default(x)
    <3>1. /\ Owned(elements) = VectorIndices(elements) \cup DOMAIN elements.sparse
          /\ Own(elements, i) = IF i \in VectorIndices(elements)
                                THEN Default(elements.vector[i]) ELSE elements.sparse[i]
      BY <1>7, OwnedOf
    <3>2. i \notin DOMAIN elements.sparse
      <4>1. MaxVectorSize \in Nat
        BY ElementsAssumption
      <4> QED BY <1>4, <4>1 DEF Whole, Apart
    <3> QED BY <1>0, <1>7, <2>1, <3>1, <3>2
  <2>3. Arrays!IsWritable(t) /\ [t EXCEPT !.value = v] = s
    <3>1. PICK a : a = [type |-> "data", writable |-> TRUE, enumerable |-> TRUE, configurable |-> TRUE]
      OBVIOUS
    <3>2. PICK x : t = [attributes |-> a, value |-> x]
      BY <2>2, <3>1 DEF Default
    <3>3. s = [attributes |-> a, value |-> v]
      BY <1>5, <3>1 DEF Default
    <3>4. t.attributes = a /\ a.type = "data" /\ a.writable
      BY <3>1, <3>2
    <3>5. [t EXCEPT !.value = v] = s
      BY ONLY <3>2, <3>3
    <3> QED BY <1>3, <3>4, <3>5
  <2> QED BY <1>0, <1>1, <1>6, <1>7, <2>1, <2>3
<1>8. CASE i \notin Owned(elements)
  <2>1. extensible /\ (~elements.writable => elements.length = LengthWith(elements.length, i))
    BY <1>5, <1>8, AddsWhenMay
  <2>2. Arrays!MayAdd(i)
    BY <1>2, <1>4, <2>1 DEF LengthWith
  <2> QED BY <1>0, <1>1, <1>5, <1>6, <1>8, <2>2
<1> QED BY <1>7, <1>8

\* PutIndexedSlotMethod is [[Put]] of ECMAScript 5, setters aside.
LEMMA PutView ==
  ASSUME NEW CONSTANT i \in Indices, NEW CONSTANT v \in Values,
         Whole(elements), Tidy(elements), LengthHolds, ClosedHolds,
         DOMAIN inherited # {} => protoIndexed,
         \A j \in DOMAIN inherited : inherited[j] \in StoredSlots,
         Put(i, v)
  PROVE  Arrays!PutElement(i, v)
<1> DEFINE map == [j \in Owned(elements) |-> Own(elements, j)]
<1>0. DOMAIN map = Owned(elements) /\ \A j \in Owned(elements) : map[j] = Own(elements, j)
  OBVIOUS
<1>1. Arrays!PutElement(i, v) <=>
        \/ /\ i \in DOMAIN map /\ Arrays!IsWritable(map[i])
           /\ Arrays!StoreElement(i, [map[i] EXCEPT !.value = v])
        \/ i \in DOMAIN map /\ ~Arrays!IsWritable(map[i]) /\ Arrays!Refused
        \/ /\ i \notin DOMAIN map
           /\ i \in DOMAIN inherited => Arrays!IsWritable(inherited[i])
           /\ Arrays!MayAdd(i)
           /\ Arrays!StoreElement(i, Default(v))
        \/ /\ i \notin DOMAIN map
           /\ (i \in DOMAIN inherited /\ ~Arrays!IsWritable(inherited[i])) \/ ~Arrays!MayAdd(i)
           /\ Arrays!Refused
  BY DEF Arrays!PutElement, Arrays!Has, Arrays!Plain, Default
<1> HIDE DEF map
<1>2. Arrays!MayAdd(i) <=> extensible /\ (i < elements.length \/ elements.writable)
  BY DEF Arrays!MayAdd
<1>3. \A s : Arrays!IsWritable(s) <=> s.attributes.type = "data" /\ s.attributes.writable
  BY DEF Arrays!IsWritable
<1>4. \A s \in StoredSlots : s.attributes.writable => s.attributes.type = "data"
  BY DEF StoredSlots, StoredAttributes
<1>5. i \in Nat /\ elements.length \in Nat /\ Stored(elements)
  <2>1. Stored(elements)
    BY DEF Whole
  <2> QED BY <2>1, StoredFieldsOf DEF Indices
<1>6. i \in Owned(elements) =>
        /\ Own(elements, i) \in StoredSlots /\ i < elements.length
        /\ i \in DOMAIN map /\ map[i] = Own(elements, i)
  <2>1. Owned(elements) = VectorIndices(elements) \cup DOMAIN elements.sparse
    BY OwnedOf
  <2> QED BY <1>0, <2>1, OwnStored DEF Tidy
<1>7. i \notin Owned(elements) => i \notin DOMAIN map
  BY <1>0
<1>8. CASE FastPut(i) /\ DefineDense(i, v)
  <2>1. elements.dense /\ i < MaxVectorSize /\ ~protoIndexed
    BY <1>8 DEF FastPut
  <2>2. v \in Values \cup {Absent} /\ v # Absent
    BY DescriptorAssumption
  <2>3. HasElement(elements, elements', i, Default(Filled(i, v))) /\ answer' = TRUE /\ Keep
    BY <1>8, <2>1, <2>2, DefineDenseStep
  <2>4. HasElement(elements, elements', i, Default(v))
    BY <2>2, <2>3 DEF Filled
  <2> QED BY <2>1, <2>3, <2>4, StoredIsPut
<1>9. CASE /\ CanPutIndexed(i) /\ \A s \in Found(i) : SetterOf(s) = Null
           /\ DefineOwn(i, IF i \in Owned(elements) THEN ValueOnly(v) ELSE DefaultData(v))
  <2>1. PICK d \in Descriptors : d = IF i \in Owned(elements) THEN ValueOnly(v) ELSE DefaultData(v)
    BY PutDescriptors
  <2>2. Keep /\ Defines(i, d)
    BY <1>9, <2>1, DefineOwnStep
  <2>3. \A s \in Found(i) : s.attributes.writable
    BY <1>9 DEF CanPutIndexed
  <2>4. CASE i \in Owned(elements)
    <3>1. PICK s : s = Own(elements, i)
      OBVIOUS
    <3>2. s \in Found(i) /\ s \in StoredSlots
      BY <1>6, <2>4, <3>1 DEF Found
    <3>3. s.attributes.type = "data" /\ s.attributes.writable
      BY <1>4, <2>3, <3>2
    <3>4. PICK t : t = [s EXCEPT !.value = v]
      OBVIOUS
    <3>5. SpecAllows(s, d) /\ SpecChanged(s, d) = t
      BY <2>1, <2>4, <3>2, <3>3, <3>4, PutDescriptors
    <3>6. Returned(s, d) /\ Changed(s, d) = t
      BY <3>2, <3>3, <3>5, ChangedIsSpec, AnswerIsSpec
    <3>7. HasElement(elements, elements', i, t) /\ answer' = TRUE
      BY <2>2, <2>4, <3>1, <3>6 DEF Defines
    <3>8. Arrays!StoreElement(i, t)
      BY <2>2, <3>7, StoreElementView
    <3> QED BY <1>1, <1>3, <1>6, <2>4, <3>1, <3>3, <3>4, <3>8
  <2>5. CASE i \notin Owned(elements)
    <3>1. PICK s : s = Default(v)
      OBVIOUS
    <3>2. NewSlot(d) = s
      BY <2>1, <2>5, <3>1, PutDescriptors
    <3>3. i \in DOMAIN inherited => Arrays!IsWritable(inherited[i])
      BY <1>3, <1>4, <2>3, <2>5 DEF Found
    <3>4. CASE ~PastReadOnlyLength(i) /\ HasElement(elements, elements', i, s) /\ answer' = TRUE
      <4>1. Arrays!StoreElement(i, s)
        BY <2>2, <3>4, StoreElementView
      <4>2. extensible
        BY <2>5, <3>4, AddsWhenMay
      <4>3. Arrays!MayAdd(i)
        BY <1>2, <1>5, <3>4, <4>2 DEF PastReadOnlyLength
      <4> QED BY <1>1, <1>7, <2>5, <3>1, <3>3, <4>1, <4>3
    <3>5. CASE /\ PastReadOnlyLength(i) \/ ~extensible
               /\ SameArray(elements, elements') /\ answer' = FALSE
      <4>1. Arrays!Refused
        BY <2>2, <3>5, RefusedView
      <4>2. ~Arrays!MayAdd(i)
        BY <1>2, <1>5, <3>5 DEF PastReadOnlyLength
      <4> QED BY <1>1, <1>7, <2>5, <4>1, <4>2
    <3> QED BY <2>2, <2>5, <3>2, <3>4, <3>5 DEF Defines
  <2> QED BY <2>4, <2>5
<1>10. CASE ~CanPutIndexed(i) /\ Answer(elements, FALSE)
  <2>1. SameArray(elements, elements') /\ answer' = FALSE /\ Keep
    BY <1>10 DEF Answer, SameArray
  <2>2. Arrays!Refused
    BY <2>1, RefusedView
  <2>3. CASE i \in Owned(elements)
    <3>1. Found(i) = {Own(elements, i)}
      BY <2>3 DEF Found
    <3>2. ~Own(elements, i).attributes.writable
      BY <1>10, <3>1 DEF CanPutIndexed
    <3> QED BY <1>1, <1>3, <1>6, <2>2, <2>3, <3>2
  <2>4. CASE i \notin Owned(elements)
    <3>1. Found(i) = {inherited[j] : j \in {i} \cap DOMAIN inherited}
      BY <2>4 DEF Found
    <3>2. CASE i \in DOMAIN inherited
      <4>1. ~inherited[i].attributes.writable
        BY <1>10, <3>1, <3>2 DEF CanPutIndexed
      <4> QED BY <1>1, <1>3, <1>7, <2>2, <2>4, <3>2, <4>1
    <3>3. CASE i \notin DOMAIN inherited
      <4>1. ~extensible
        BY <1>10, <3>1, <3>3 DEF CanPutIndexed
      <4> QED BY <1>1, <1>2, <1>7, <2>2, <2>4, <4>1
    <3> QED BY <3>2, <3>3
  <2> QED BY <2>3, <2>4
<1> QED BY <1>8, <1>9, <1>10 DEF Put

\* DeleteIndexedInternal.
LEMMA DeleteStep ==
  ASSUME NEW CONSTANT i \in Indices, Whole(elements), Delete(i)
  PROVE  /\ Kept /\ Keep
         /\ Tidy(elements) => Within(elements, elements') /\ Arrays!DeleteElement(i)
<1> DEFINE map == [j \in Owned(elements) |-> Own(elements, j)]
           inMap == /\ i < elements.length /\ i \in DOMAIN elements.sparse
                    /\ elements.dense => i >= elements.size /\ i >= MaxVectorSize
<1>0. DOMAIN map = Owned(elements) /\ \A j \in Owned(elements) : map[j] = Own(elements, j)
  OBVIOUS
<1>1. Arrays!DeleteElement(i) <=>
        \/ /\ i \in DOMAIN map => map[i].attributes.configurable
           /\ [j \in Owned(elements') |-> Own(elements', j)] = [x \in DOMAIN map \ {i} |-> map[x]]
           /\ answer' = TRUE
           /\ elements'.length = elements.length /\ elements'.writable = elements.writable
           /\ extensible' = extensible /\ inherited' = inherited
        \/ i \in DOMAIN map /\ ~map[i].attributes.configurable /\ Arrays!Refused
  BY DEF Arrays!DeleteElement, Arrays!Has
<1> HIDE DEF map
<1>2. Stored(elements)
  BY DEF Whole
<1>3. /\ i \in Nat /\ elements.length \in Nat /\ elements.size \in Nat /\ elements.dense \in BOOLEAN
      /\ MaxVectorSize \in Nat /\ elements.size <= MaxVectorSize
  BY <1>2, StoredFieldsOf DEF Indices
<1>4. ASSUME Lacks(elements, elements', {i}), elements'.length = elements.length, answer' = TRUE, Keep,
             i \in Owned(elements) => Own(elements, i).attributes.configurable
      PROVE  Within(elements, elements') /\ Arrays!DeleteElement(i)
  <2>1. /\ Owned(elements') = Owned(elements) \ {i}
        /\ \A j \in Owned(elements') : Own(elements', j) = Own(elements, j)
        /\ elements'.writable = elements.writable
    BY <1>4 DEF Lacks
  <2>2. [j \in Owned(elements') |-> Own(elements', j)] = [x \in DOMAIN map \ {i} |-> map[x]]
    BY <1>0, <2>1
  <2>3. extensible' = extensible /\ inherited' = inherited
    BY <1>4 DEF Keep
  <2> QED BY <1>0, <1>1, <1>4, <2>1, <2>2, <2>3 DEF Within
<1>5. elements.dense \/ Tidy(elements) =>
        /\ Owned(elements) = VectorIndices(elements) \cup DOMAIN elements.sparse
        /\ \A j \in Owned(elements) :
             Own(elements, j) = IF j \in VectorIndices(elements)
                                THEN Default(elements.vector[j]) ELSE elements.sparse[j]
        /\ InVector(elements, i) <=> i \in VectorIndices(elements)
  BY OwnedOf
<1>6. CASE /\ i < elements.length /\ elements.dense /\ i < elements.size
           /\ Answer([elements EXCEPT !.vector[i] = Empty], TRUE)
  <2>1. elements' = Written(elements, i, Empty) /\ answer' = TRUE /\ Keep
    BY <1>6 DEF Answer, Written
  <2>2. /\ Whole(elements') /\ (Tidy(elements) => Tidy(elements'))
        /\ Lacks(elements, elements', {i}) /\ elements'.length = elements.length
    BY ONLY Whole(elements), <1>6, i \in Indices, <2>1, HoleWhole
  <2>3. i \in Owned(elements) => Own(elements, i).attributes.configurable
    <3>1. i \notin DOMAIN elements.sparse
      BY <1>3, <1>6 DEF Whole, Apart
    <3> QED BY <1>5, <1>6, <3>1 DEF Default
  <2> QED BY <1>4, <2>1, <2>2, <2>3 DEF Kept
<1>7. CASE inMap /\ elements.sparse[i].attributes.configurable /\ Answer(Erased(elements, {i}), TRUE)
  <2>1. PICK gone : gone = {i}
    OBVIOUS
  <2>2. elements' = Erased(elements, gone) /\ answer' = TRUE /\ Keep
    BY <1>7, <2>1 DEF Answer
  <2>3. /\ Whole(elements') /\ (Tidy(elements) => Tidy(elements'))
        /\ (elements.dense \/ Tidy(elements)) /\ VectorIndices(elements) \cap gone = {}
             => Lacks(elements, elements', gone)
        /\ elements'.length = elements.length
    BY ONLY Whole(elements), <2>2, EraseWhole
  <2>4. Tidy(elements) => i \notin VectorIndices(elements)
    BY <1>3, <1>7 DEF Tidy, VectorIndices, InVector
  <2>5. Tidy(elements) => (i \in Owned(elements) => Own(elements, i).attributes.configurable)
    BY <1>5, <1>7, <2>4
  <2>6. Tidy(elements) => Lacks(elements, elements', {i})
    BY <2>1, <2>3, <2>4
  <2> QED BY <1>4, <2>2, <2>3, <2>5, <2>6 DEF Kept
<1>8. CASE inMap /\ ~elements.sparse[i].attributes.configurable /\ Answer(elements, FALSE)
  <2>1. elements' = elements /\ answer' = FALSE /\ Keep
    BY <1>8 DEF Answer
  <2>2. ASSUME Tidy(elements) PROVE Within(elements, elements') /\ Arrays!DeleteElement(i)
    <3>1. i \notin VectorIndices(elements)
      BY <1>3, <1>8, <2>2 DEF Tidy, VectorIndices, InVector
    <3>2. i \in Owned(elements) /\ ~Own(elements, i).attributes.configurable
      BY <1>5, <1>8, <2>2, <3>1
    <3>3. Arrays!Refused
      <4>1. SameArray(elements, elements')
        BY <2>1 DEF SameArray
      <4> QED BY <2>1, <4>1, RefusedView
    <3>4. Within(elements, elements')
      BY <2>1 DEF Within
    <3> QED BY <1>0, <1>1, <3>2, <3>3, <3>4
  <2> QED BY <2>1, <2>2 DEF Kept
<1>9. CASE /\ ~inMap /\ (i < elements.length /\ elements.dense => i >= elements.size)
           /\ Answer(elements, TRUE)
  <2>1. elements' = elements /\ answer' = TRUE /\ Keep
    BY <1>9 DEF Answer
  <2>2. ASSUME Tidy(elements) PROVE Within(elements, elements') /\ Arrays!DeleteElement(i)
    <3>1. i \notin Owned(elements)
      <4>1. SUFFICES ASSUME i \in Owned(elements) PROVE FALSE
        OBVIOUS
      <4>2. i < elements.length
        BY <1>5, <2>2, <4>1 DEF Tidy
      <4>3. i \notin VectorIndices(elements)
        BY <1>3, <1>9, <2>2, <4>2 DEF Tidy, VectorIndices, InVector
      <4>4. i \in DOMAIN elements.sparse
        BY <1>5, <2>2, <4>1, <4>3
      <4>5. elements.dense => i >= MaxVectorSize
        BY <4>4 DEF Whole, Apart
      <4> QED BY <1>3, <1>9, <4>2, <4>4, <4>5
    <3>2. Lacks(elements, elements', {i})
      BY <2>1, <3>1 DEF Lacks
    <3> QED BY <1>4, <2>1, <3>1, <3>2
  <2> QED BY <2>1, <2>2 DEF Kept
<1>10. \/ /\ i < elements.length /\ elements.dense /\ i < elements.size
          /\ Answer([elements EXCEPT !.vector[i] = Empty], TRUE)
       \/ inMap /\ elements.sparse[i].attributes.configurable /\ Answer(Erased(elements, {i}), TRUE)
       \/ inMap /\ ~elements.sparse[i].attributes.configurable /\ Answer(elements, FALSE)
       \/ /\ ~inMap /\ (i < elements.length /\ elements.dense => i >= elements.size)
          /\ Answer(elements, TRUE)
  BY DEF Delete
<1> QED BY <1>6, <1>7, <1>8, <1>9, <1>10

\* ChangeExtensible(ctx, false).
LEMMA PreventExtensionsStep ==
  ASSUME Whole(elements), PreventExtensions
  PROVE  /\ Kept
         /\ Tidy(elements) => Within(elements, elements') /\ Arrays!Close
<1>1. /\ Whole(elements') /\ (Tidy(elements) => Tidy(elements') /\ SameArray(elements, elements'))
  <2>1. elements' = MakeSparse(elements)
    BY DEF PreventExtensions
  <2> QED BY ONLY Whole(elements), <2>1, SparseSame
<1>2. ASSUME SameArray(elements, elements') PROVE Within(elements, elements') /\ Arrays!Close
  <2>1. /\ Owned(elements') = Owned(elements)
        /\ \A j \in Owned(elements) : Own(elements', j) = Own(elements, j)
        /\ elements'.length = elements.length /\ elements'.writable = elements.writable
    BY <1>2 DEF SameArray
  <2>2. [j \in Owned(elements') |-> Own(elements', j)] = [j \in Owned(elements) |-> Own(elements, j)]
    BY <2>1
  <2>3. extensible' = FALSE /\ inherited' = inherited /\ answer' = answer
    BY DEF PreventExtensions
  <2> QED BY <2>1, <2>2, <2>3 DEF Within, Arrays!Close
<1> QED BY <1>1, <1>2 DEF Kept

\* ChangeLengthWritable leaves the elements alone.
LEMMA WritableWhole ==
  ASSUME NEW e, Whole(e), NEW w \in Flag, NEW f, f = WithWritable(e, w)
  PROVE  /\ Whole(f) /\ (Tidy(e) => Tidy(f))
         /\ Owned(f) = Owned(e) /\ \A j \in Owned(e) : Own(f, j) = Own(e, j)
         /\ f.length = e.length
         /\ f.writable = (e.writable /\ w # FALSE)
<1>1. Stored(e)
  BY DEF Whole
<1>2. /\ e = [dense |-> e.dense, writable |-> e.writable, length |-> e.length,
              size |-> e.size, vector |-> e.vector, sparse |-> e.sparse]
      /\ e.dense \in BOOLEAN /\ e.writable \in BOOLEAN
      /\ e.size \in Nat /\ e.size <= Room(e) /\ Room(e) \in Nat /\ Room(e) <= MaxVectorSize
      /\ VectorIndices(e) \subseteq Indices
      /\ \A i \in 0..(e.size - 1) : i \in DOMAIN e.vector
  BY <1>1, StoredFieldsOf
<1>3. f = [dense |-> e.dense, writable |-> e.writable /\ w # FALSE, length |-> e.length,
           size |-> e.size, vector |-> e.vector, sparse |-> e.sparse]
  <2>1. CASE w = FALSE
    <3>1. f = [e EXCEPT !.writable = FALSE]
      BY <2>1 DEF WithWritable
    <3> QED BY <1>2, <2>1, <3>1
  <2>2. CASE w # FALSE
    <3>1. f = e /\ (e.writable /\ w # FALSE) = e.writable
      BY <1>2, <2>2 DEF WithWritable
    <3> QED BY <1>2, <3>1
  <2> QED BY <2>1, <2>2
<1>4. PICK b \in BOOLEAN : b = (e.writable /\ w # FALSE)
  OBVIOUS
<1>5. /\ f.dense = e.dense /\ f.writable = b /\ f.length = e.length
      /\ f.size = e.size /\ f.vector = e.vector /\ f.sparse = e.sparse
      /\ f = [dense |-> f.dense, writable |-> f.writable, length |-> f.length,
              size |-> f.size, vector |-> f.vector, sparse |-> f.sparse]
  BY <1>3, <1>4
<1>6. Stored(f)
  <2>1. /\ e.vector \in VectorOf(Room(e)) /\ e.length \in Lengths
        /\ e.sparse \in [DOMAIN e.sparse -> StoredSlots] /\ DOMAIN e.sparse \subseteq Indices
    BY <1>1 DEF Stored
  <2>2. \A i \in 0..(e.size - 1) : e.vector[i] # Empty => i \in Indices
    BY <1>2 DEF VectorIndices, InVector
  <2> QED BY <1>2, <1>5, <2>1, <2>2, StoredRecord
<1>7. VectorIndices(f) = VectorIndices(e)
  BY <1>5 DEF VectorIndices, InVector
<1>8. Owned(f) = Owned(e) /\ \A j \in Owned(e) : Own(f, j) = Own(e, j)
  BY <1>5 DEF Owned, Own
<1>9. Whole(f) /\ (Tidy(e) => Tidy(f))
  BY <1>5, <1>6, <1>7 DEF Whole, Apart, Tidy
<1> QED BY <1>4, <1>5, <1>8, <1>9

\* The elements above a length that are not configurable are in the map.
LEMMA LockedEnds ==
  ASSUME NEW e, Whole(e), Tidy(e), NEW n
  PROVE  {i \in Owned(e) : i >= n /\ ~Own(e, i).attributes.configurable} = Ends(e, n)
<1>1. /\ Owned(e) = VectorIndices(e) \cup DOMAIN e.sparse
      /\ VectorIndices(e) \cap DOMAIN e.sparse = {}
      /\ \A i \in Owned(e) :
           Own(e, i) = IF i \in VectorIndices(e) THEN Default(e.vector[i]) ELSE e.sparse[i]
  BY OwnedOf
<1>2. \A i \in VectorIndices(e) : Own(e, i).attributes.configurable
  BY <1>1 DEF Default
<1>3. \A i \in DOMAIN e.sparse : Own(e, i) = e.sparse[i]
  BY <1>1
<1> QED BY <1>1, <1>2, <1>3 DEF Ends, Locked, Above

\* A new length given to an array whose length is writable: JSArray::SetLength.
LEMMA SetLengthWhole ==
  ASSUME NEW e, Whole(e), NEW len \in Lengths, NEW f, f = SetLength(e, len)
  PROVE  /\ Whole(f) /\ f.writable = e.writable
         /\ Tidy(e) => Tidy(f) /\ Within(e, f)
         /\ /\ Tidy(e) /\ ~GoesBelow(e, len)
            /\ e.dense /\ len < e.length => Ends(e, len) = {}
            => /\ CutAt(e, f, EndOf(e, len))
               /\ SetLengthDone(e, len) <=> Ends(e, len) = {}
<1>1. Stored(e)
  BY DEF Whole
<1>2. /\ e.length \in Nat /\ len \in Nat /\ e.dense \in BOOLEAN /\ MaxLength \in Nat
  BY <1>1, StoredFieldsOf DEF Lengths
<1>3. CASE len >= e.length
  <2>1. f = WithLength(e, len)
    BY <1>3 DEF SetLength, WithLength
  <2>2. e.dense => \A i \in DOMAIN e.sparse : i < len
    <3>1. \A i \in DOMAIN e.sparse : i \in Nat
      BY <1>1, StoredFieldsOf DEF Indices
    <3> QED BY <1>2, <1>3, <3>1 DEF Whole, Apart
  <2>3. /\ Whole(f) /\ f.dense = e.dense /\ f.length = len /\ f.writable = e.writable
        /\ VectorIndices(f) = VectorIndices(e) /\ f.vector = e.vector /\ f.sparse = e.sparse
    BY ONLY Whole(e), len \in Lengths, <2>1, <2>2, LengthWhole
  <2>4. ASSUME Tidy(e)
        PROVE  /\ Tidy(f) /\ Within(e, f)
               /\ CutAt(e, f, EndOf(e, len)) /\ (SetLengthDone(e, len) <=> Ends(e, len) = {})
    <3>1. \A i \in VectorIndices(e) \cup DOMAIN e.sparse : i \in Nat /\ i < len
      <4>1. \A i \in VectorIndices(e) \cup DOMAIN e.sparse : i \in Nat
        BY <1>1, StoredFieldsOf DEF Indices
      <4> QED BY <1>2, <1>3, <2>4, <4>1 DEF Tidy
    <3>2. Tidy(f)
      BY <2>3, <2>4, <3>1 DEF Tidy
    <3>3. Ends(e, len) = {}
      BY <1>2, <3>1 DEF Ends, Above
    <3>4. CutAt(e, f, len)
      <4>1. /\ \A i \in VectorIndices(f) : i \in VectorIndices(e) /\ f.vector[i] = e.vector[i]
            /\ \A i \in DOMAIN f.sparse : i \in DOMAIN e.sparse /\ f.sparse[i] = e.sparse[i]
            /\ \A i \in VectorIndices(e) : i < len => i \in VectorIndices(f)
            /\ \A i \in DOMAIN e.sparse : i < len => i \in DOMAIN f.sparse
            /\ f.length = len /\ f.writable = e.writable /\ Whole(f)
        BY <2>3
      <4> QED BY ONLY Whole(e), <2>4, <3>2, <4>1, CutOf
    <3>5. SetLengthDone(e, len) /\ EndOf(e, len) = len
      BY <1>3, <3>3 DEF SetLengthDone, EndOf
    <3>6. Within(e, f)
      BY <3>4 DEF CutAt, Within
    <3> QED BY <3>2, <3>3, <3>4, <3>5, <3>6
  <2> QED BY <2>3, <2>4
<1>4. CASE len < e.length /\ e.dense
  <2>1. f = WithLength(ShrunkDense(e, len), len)
    BY <1>2, <1>4 DEF SetLength, WithLength
  <2>2. /\ Whole(f) /\ f.length = len /\ f.writable = e.writable
        /\ Tidy(e) => Tidy(f) /\ CutAt(e, f, len)
    BY ONLY Whole(e), <1>4, len \in Lengths, <2>1, DenseShrinks
  <2>3. CutAt(e, f, len) => Within(e, f)
    BY DEF CutAt, Within
  <2>4. Ends(e, len) = {} => EndOf(e, len) = len
    BY DEF EndOf
  <2>5. SetLengthDone(e, len)
    BY <1>4 DEF SetLengthDone
  <2> QED BY <1>4, <2>2, <2>3, <2>4, <2>5
<1>5. CASE len < e.length /\ ~e.dense
  <2>1. f = ShrunkSparse(e, len)
    BY <1>2, <1>5 DEF SetLength
  <2>2. /\ Whole(f) /\ f.writable = e.writable
        /\ Tidy(e) => Tidy(f) /\ Within(e, f)
        /\ Tidy(e) /\ ~GoesBelow(e, len) =>
             /\ CutAt(e, f, EndOf(e, len))
             /\ Stops(e, len) = {} <=> Ends(e, len) = {}
    BY ONLY Whole(e), <1>5, len \in Lengths, <2>1, SparseShrinks
  <2>3. SetLengthDone(e, len) <=> Stops(e, len) = {}
    BY <1>2, <1>5 DEF SetLengthDone
  <2> QED BY <2>2, <2>3
<1> QED BY <1>2, <1>3, <1>4, <1>5

\* What SetLength of ArrayModel asks of a step.
LEMMA SetLengthView ==
  ASSUME Whole(elements), Tidy(elements), NEW CONSTANT l, NEW CONSTANT w, Keep,
         IF ~elements.writable /\ (l # elements.length \/ w = TRUE)
         THEN SameArray(elements, elements') /\ answer' = FALSE
         ELSE /\ Owned(elements') = {i \in Owned(elements) : i < EndOf(elements, l)}
              /\ \A i \in Owned(elements') : Own(elements', i) = Own(elements, i)
              /\ elements'.length = EndOf(elements, l)
              /\ elements'.writable = (elements.writable /\ w # FALSE)
              /\ answer' = (Ends(elements, l) = {})
  PROVE  Arrays!SetLength(l, w)
<1> DEFINE map == [j \in Owned(elements) |-> Own(elements, j)]
           locked == {i \in DOMAIN map : i >= l /\ ~map[i].attributes.configurable}
           end == IF locked = {} THEN l ELSE 1 + CHOOSE k \in locked : \A j \in locked : j <= k
<1>1. Arrays!SetLength(l, w) <=>
        IF ~elements.writable /\ (l # elements.length \/ w = TRUE)
        THEN Arrays!Refused
        ELSE /\ [j \in Owned(elements') |-> Own(elements', j)]
                  = [x \in {i \in DOMAIN map : i < end} |-> map[x]]
             /\ elements'.length = end
             /\ elements'.writable = (elements.writable /\ w # FALSE)
             /\ answer' = (locked = {})
             /\ extensible' = extensible /\ inherited' = inherited
  BY DEF Arrays!SetLength
<1>2. DOMAIN map = Owned(elements) /\ \A j \in Owned(elements) : map[j] = Own(elements, j)
  OBVIOUS
<1> HIDE DEF map
<1>3. locked = Ends(elements, l)
  <2>1. locked = {i \in Owned(elements) : i >= l /\ ~Own(elements, i).attributes.configurable}
    BY <1>2
  <2> HIDE DEF locked
  <2> QED BY <2>1, LockedEnds
<1> HIDE DEF locked
<1>4. end = EndOf(elements, l)
  <2>1. CASE locked = {}
    BY <1>3, <2>1 DEF EndOf
  <2>2. CASE locked # {}
    <3>1. locked \subseteq Indices
      <4>1. Stored(elements)
        BY DEF Whole
      <4> QED BY <1>3, <4>1, StoredFieldsOf DEF Ends, Locked
    <3>2. Highest(locked) \in Nat
      <4>1. Highest(locked) \in Indices
        BY <2>2, <3>1, HighestIn
      <4>2. MaxLength \in Nat
        BY ElementsAssumption
      <4> QED BY <4>1, <4>2 DEF Indices
    <3>3. end = 1 + Highest(locked)
      BY <2>2 DEF Highest
    <3> QED BY <1>3, <2>2, <3>2, <3>3 DEF EndOf
  <2> QED BY <2>1, <2>2
<1> HIDE DEF end
<1>5. CASE ~elements.writable /\ (l # elements.length \/ w = TRUE)
  <2>1. Arrays!Refused
    BY <1>5, RefusedView
  <2> QED BY <1>1, <1>5, <2>1
<1>6. CASE ~(~elements.writable /\ (l # elements.length \/ w = TRUE))
  <2>1. /\ Owned(elements') = {i \in Owned(elements) : i < end}
        /\ \A i \in Owned(elements') : Own(elements', i) = Own(elements, i)
        /\ elements'.length = end
        /\ elements'.writable = (elements.writable /\ w # FALSE)
        /\ answer' = (locked = {})
    BY <1>3, <1>4, <1>6
  <2>2. [j \in Owned(elements') |-> Own(elements', j)] = [x \in {i \in DOMAIN map : i < end} |-> map[x]]
    BY <1>2, <2>1
  <2>3. extensible' = extensible /\ inherited' = inherited
    BY DEF Keep
  <2> QED BY <1>1, <1>6, <2>1, <2>2, <2>3
<1> QED BY <1>5, <1>6

\* DefineLengthProperty, all its ways.
LEMMA DefineLengthStep ==
  ASSUME NEW CONSTANT len \in Lengths \cup {Absent}, NEW CONSTANT w \in Flag,
         Whole(elements), DefineLength(len, w)
  PROVE  /\ Kept /\ Keep
         /\ Tidy(elements) => Within(elements, elements')
         /\ /\ Tidy(elements) /\ LockedHold
            /\ len \in Lengths => ~GoesBelow(elements, len)
            => Arrays!SetLength(IF len \in Lengths THEN len ELSE elements.length, w)
<1> DEFINE same == len \in {Absent, elements.length}
<1>0. Stored(elements)
  BY DEF Whole
<1>1. /\ elements.writable \in BOOLEAN /\ elements.length \in Nat /\ elements.length \in Lengths
      /\ Absent \notin Lengths /\ MaxLength \in Nat
  BY <1>0, StoredFieldsOf, ElementsAssumption DEF Lengths
<1>2. CASE same /\ Answer(WithWritable(elements, w), WritableGranted(elements, w))
  <2>1. /\ elements' = WithWritable(elements, w)
        /\ answer' = (w # TRUE \/ elements.writable) /\ Keep
    BY <1>2 DEF Answer, WritableGranted
  <2>2. /\ Whole(elements') /\ (Tidy(elements) => Tidy(elements'))
        /\ Owned(elements') = Owned(elements)
        /\ \A j \in Owned(elements) : Own(elements', j) = Own(elements, j)
        /\ elements'.length = elements.length
        /\ elements'.writable = (elements.writable /\ w # FALSE)
    BY ONLY Whole(elements), w \in Flag, <2>1, WritableWhole
  <2>3. PICK l \in Lengths : l = elements.length
    BY <1>1
  <2>4. (IF len \in Lengths THEN len ELSE elements.length) = l
    BY <1>1, <1>2, <2>3
  <2>5. ASSUME Tidy(elements) PROVE Arrays!SetLength(l, w)
    <3>1. \A i \in Owned(elements) : i < l
      <4>1. Owned(elements) = VectorIndices(elements) \cup DOMAIN elements.sparse
        BY <2>5, OwnedOf
      <4> QED BY <2>3, <2>5, <4>1 DEF Tidy
    <3>2. Ends(elements, l) = {} /\ EndOf(elements, l) = l
      <4>1. \A i \in DOMAIN elements.sparse : i < l /\ i \in Nat /\ l \in Nat
        BY <1>0, <1>1, <2>3, <2>5, StoredFieldsOf DEF Tidy, Indices
      <4> QED BY <4>1 DEF EndOf, Ends, Above
    <3>3. CASE ~elements.writable /\ (l # elements.length \/ w = TRUE)
      <4>1. w = TRUE /\ elements.writable = FALSE
        BY <1>1, <2>3, <3>3
      <4>2. SameArray(elements, elements') /\ answer' = FALSE
        BY <2>1, <2>2, <4>1 DEF SameArray
      <4> QED BY <2>1, <2>5, <3>3, <4>2, SetLengthView
    <3>4. CASE ~(~elements.writable /\ (l # elements.length \/ w = TRUE))
      <4>1. answer' = TRUE
        BY <2>1, <2>3, <3>4
      <4>2. /\ Owned(elements') = {i \in Owned(elements) : i < EndOf(elements, l)}
            /\ \A i \in Owned(elements') : Own(elements', i) = Own(elements, i)
            /\ elements'.length = EndOf(elements, l)
            /\ elements'.writable = (elements.writable /\ w # FALSE)
            /\ answer' = (Ends(elements, l) = {})
        BY <2>2, <2>3, <3>1, <3>2, <4>1
      <4> QED BY <2>1, <2>5, <3>4, <4>2, SetLengthView
    <3> QED BY <3>3, <3>4
  <2> QED BY <2>1, <2>2, <2>4, <2>5 DEF Kept, Within
<1>3. CASE ~same /\ ~elements.writable /\ Answer(elements, FALSE)
  <2>1. elements' = elements /\ answer' = FALSE /\ Keep
    BY <1>3 DEF Answer
  <2>2. SameArray(elements, elements') /\ Within(elements, elements') /\ Kept
    BY <2>1 DEF SameArray, Within, Kept
  <2>3. len \in Lengths /\ len # elements.length
    BY <1>3
  <2>4. ASSUME Tidy(elements) PROVE Arrays!SetLength(len, w)
    BY <1>3, <2>1, <2>2, <2>3, <2>4, SetLengthView
  <2> QED BY <2>1, <2>2, <2>3, <2>4
<1>4. CASE /\ ~same /\ elements.writable
           /\ Answer(WithWritable(SetLength(elements, len), w), SetLengthDone(elements, len))
  <2>1. len \in Lengths /\ elements.writable = TRUE
    BY <1>1, <1>4
  <2>2. PICK f : f = SetLength(elements, len)
    OBVIOUS
  <2>3. elements' = WithWritable(f, w) /\ answer' = SetLengthDone(elements, len) /\ Keep
    BY <1>4, <2>2 DEF Answer
  <2>4. /\ Whole(f) /\ f.writable = elements.writable
        /\ Tidy(elements) => Tidy(f) /\ Within(elements, f)
        /\ /\ Tidy(elements) /\ ~GoesBelow(elements, len)
           /\ elements.dense /\ len < elements.length => Ends(elements, len) = {}
           => /\ CutAt(elements, f, EndOf(elements, len))
              /\ SetLengthDone(elements, len) <=> Ends(elements, len) = {}
    BY ONLY Whole(elements), <2>1, <2>2, SetLengthWhole
  <2>5. /\ Whole(elements') /\ (Tidy(f) => Tidy(elements'))
        /\ Owned(elements') = Owned(f) /\ \A j \in Owned(f) : Own(elements', j) = Own(f, j)
        /\ elements'.length = f.length
        /\ elements'.writable = (f.writable /\ w # FALSE)
    BY ONLY <2>4, w \in Flag, <2>3, WritableWhole
  <2>6. ASSUME Tidy(elements), LockedHold, ~GoesBelow(elements, len)
        PROVE  Arrays!SetLength(len, w)
    <3>1. elements.dense /\ len < elements.length => Ends(elements, len) = {}
      <4> SUFFICES ASSUME elements.dense, len < elements.length, NEW i \in Ends(elements, len) PROVE FALSE
        OBVIOUS
      <4>1. i \in Locked(elements) /\ i >= len
        BY DEF Ends, Above
      <4>2. i \in Owned(f)
        BY <2>5, <2>6, <4>1 DEF LockedHold
      <4>3. f.length = len
        <5>1. f = WithLength(ShrunkDense(elements, len), len)
          <6>1. ~(len >= elements.length)
            BY <1>1, <2>1 DEF Lengths
          <6> QED BY <2>2, <6>1 DEF SetLength, WithLength
        <5> QED BY ONLY Whole(elements), elements.dense, <2>1, len < elements.length, <5>1, DenseShrinks
      <4>4. i < len
        <5>1. Owned(f) = VectorIndices(f) \cup DOMAIN f.sparse
          BY <2>4, <2>6, OwnedOf
        <5> QED BY <2>4, <2>6, <4>2, <4>3, <5>1 DEF Tidy
      <4>5. i \in Nat /\ len \in Nat
        BY <1>0, <1>1, <2>1, <4>1, StoredFieldsOf DEF Locked, Indices, Lengths
      <4> QED BY <4>1, <4>4, <4>5
    <3>2. CutAt(elements, f, EndOf(elements, len)) /\ (SetLengthDone(elements, len) <=> Ends(elements, len) = {})
      BY <2>4, <2>6, <3>1
    <3>3. SetLengthDone(elements, len) = (Ends(elements, len) = {})
      <4>1. SetLengthDone(elements, len) \in BOOLEAN
        BY DEF SetLengthDone
      <4> QED BY <3>2, <4>1
    <3>4. /\ Owned(elements') = {i \in Owned(elements) : i < EndOf(elements, len)}
          /\ \A i \in Owned(elements') : Own(elements', i) = Own(elements, i)
          /\ elements'.length = EndOf(elements, len)
          /\ elements'.writable = (elements.writable /\ w # FALSE)
          /\ answer' = (Ends(elements, len) = {})
      BY <2>3, <2>4, <2>5, <3>2, <3>3 DEF CutAt
    <3> QED BY <2>1, <2>3, <2>6, <3>4, SetLengthView
  <2>7. Tidy(elements) => Within(elements, elements')
    BY <2>4, <2>5 DEF Within
  <2> QED BY <2>1, <2>3, <2>4, <2>5, <2>6, <2>7 DEF Kept
<1> QED BY <1>2, <1>3, <1>4 DEF DefineLength

-----------------------------------------------------------------------------
(* The invariant                                                           *)

EInv ==
  /\ Whole(elements) /\ Tidy(elements) /\ OnlyData(elements)
  /\ extensible \in BOOLEAN /\ answer \in BOOLEAN
  /\ inherited \in Prototypes /\ (DOMAIN inherited # {} => protoIndexed)

\* An array literal, and new Array(len).
LEMMA CreatedWhole ==
  ASSUME NEW f, NEW len \in Lengths, DOMAIN f \subseteq Indices, DOMAIN f \subseteq 0..(len - 1),
         \A i \in DOMAIN f : f[i] \in Values,
         NEW e, e = Created(f, len)
  PROVE  /\ Whole(e) /\ Tidy(e) /\ e.dense /\ e.length = len
         /\ \A i \in DOMAIN e.sparse : e.sparse[i].attributes.type = "data"
<1> DEFINE size == IF len > MaxVectorSize THEN MaxVectorSize ELSE len
           c == Capacity(size)
           v == [i \in 0..(c - 1) |-> IF i >= size THEN Undefined
                                      ELSE IF i \in DOMAIN f THEN f[i] ELSE Empty]
           m == [i \in {j \in DOMAIN f : j >= MaxVectorSize} |-> Default(f[i])]
<1>1. /\ MaxVectorSize \in Nat /\ MaxLength \in Nat /\ len \in Nat
      /\ size \in Nat /\ size <= len /\ size <= MaxVectorSize
      /\ Undefined \in Values
  BY ElementsAssumption, DescriptorAssumption DEF Lengths
<1>2. e = [dense |-> TRUE, writable |-> TRUE, length |-> len, size |-> size,
           vector |-> v, sparse |-> m]
  BY DEF Created
<1>3. c \in Nat /\ size <= c /\ c <= MaxVectorSize
  BY <1>1, CapacityBounds
<1> HIDE DEF c, size
<1>4. v \in VectorOf(c)
  BY <1>1 DEF VectorOf
<1>5. m \in [DOMAIN m -> StoredSlots] /\ DOMAIN m = {j \in DOMAIN f : j >= MaxVectorSize}
      /\ \A i \in DOMAIN m : m[i].attributes.type = "data"
  <2>1. \A x \in Values : Default(x) \in StoredSlots /\ Default(x).attributes.type = "data"
    BY DEF Default, StoredSlots, StoredAttributes
  <2>2. DOMAIN m = {j \in DOMAIN f : j >= MaxVectorSize} /\ \A i \in DOMAIN m : m[i] = Default(f[i])
    OBVIOUS
  <2>3. \A i \in DOMAIN m : m[i] \in StoredSlots /\ m[i].attributes.type = "data"
    BY <2>1, <2>2
  <2>4. m = [i \in DOMAIN m |-> m[i]]
    BY <2>2
  <2> HIDE DEF m
  <2> QED BY <2>2, <2>3, <2>4
<1>6. \A i \in 0..(size - 1) : v[i] = IF i \in DOMAIN f THEN f[i] ELSE Empty
  BY <1>1, <1>3
<1>7. DOMAIN v = 0..(c - 1)
  OBVIOUS
<1> HIDE DEF v, m
<1>8. /\ e.dense = TRUE /\ e.writable = TRUE /\ e.length = len
      /\ e.size = size /\ e.vector = v /\ e.sparse = m
      /\ e = [dense |-> e.dense, writable |-> e.writable, length |-> e.length,
              size |-> e.size, vector |-> e.vector, sparse |-> e.sparse]
  BY ONLY <1>2
<1>9. Stored(e) /\ Room(e) = c
  <2>1. \A i \in 0..(size - 1) : v[i] # Empty => i \in Indices
    BY <1>6
  <2>2. DOMAIN m \subseteq Indices
    BY <1>5
  <2> QED BY <1>1, <1>3, <1>4, <1>5, <1>8, <2>1, <2>2, StoredRecord
<1>10. \A i \in DOMAIN m : MaxVectorSize <= i /\ i < len
  <2>1. \A i \in 0..(len - 1) : i \in Nat /\ i < len
    BY <1>1
  <2> QED BY <1>1, <1>5, <2>1
<1>11. \A i \in VectorIndices(e) : i < len
  <2> SUFFICES ASSUME NEW i \in VectorIndices(e) PROVE i < len
    OBVIOUS
  <2>1. i \in Nat /\ i < size
    BY <1>3, <1>7, <1>8 DEF VectorIndices, InVector
  <2> QED BY <1>1, <2>1
<1> QED BY <1>5, <1>8, <1>9, <1>10, <1>11 DEF Whole, Apart, Tidy

\* The first state.
LEMMA InitElements ==
  ASSUME Init
  PROVE  EInv
<1>1. /\ extensible = TRUE /\ answer = TRUE /\ inherited \in Prototypes
      /\ DOMAIN inherited # {} => protoIndexed
  BY DEF Init
<1>2. \E len \in Lengths :
        \/ \E f \in Literals : DOMAIN f \subseteq 0..(len - 1) /\ elements = Created(f, len)
        \/ elements = [Created(<<>>, 0) EXCEPT !.length = len]
  BY DEF Init
<1>3. PICK len \in Lengths :
        \/ \E f \in Literals : DOMAIN f \subseteq 0..(len - 1) /\ elements = Created(f, len)
        \/ elements = [Created(<<>>, 0) EXCEPT !.length = len]
  BY <1>2
<1>4. /\ Whole(elements) /\ Tidy(elements) /\ elements.dense
      /\ \A i \in DOMAIN elements.sparse : elements.sparse[i].attributes.type = "data"
  <2>1. CASE \E f \in Literals : DOMAIN f \subseteq 0..(len - 1) /\ elements = Created(f, len)
    <3>1. PICK f \in Literals : DOMAIN f \subseteq 0..(len - 1) /\ elements = Created(f, len)
      BY <2>1
    <3>2. DOMAIN f \subseteq Indices /\ \A i \in DOMAIN f : f[i] \in Values
      BY ElementsAssumption
    <3> QED BY <3>1, <3>2, CreatedWhole
  <2>2. CASE elements = [Created(<<>>, 0) EXCEPT !.length = len]
    <3>1. PICK f : f = <<>>
      OBVIOUS
    <3>2. DOMAIN f = {}
      BY <3>1
    <3>3. PICK z : z = Created(f, 0)
      OBVIOUS
    <3>4. PICK n \in Lengths : n = 0
      BY ElementsAssumption DEF Lengths
    <3>5. /\ Whole(z) /\ Tidy(z) /\ z.dense /\ z.length = 0
          /\ \A i \in DOMAIN z.sparse : z.sparse[i].attributes.type = "data"
      BY <3>2, <3>3, <3>4, CreatedWhole
    <3>6. elements = WithLength(z, len)
      BY <2>2, <3>1, <3>3 DEF WithLength
    <3>7. VectorIndices(z) = {} /\ DOMAIN z.sparse = {}
      <4>1. Stored(z)
        BY <3>5 DEF Whole
      <4>2. /\ VectorIndices(z) \subseteq Nat /\ DOMAIN z.sparse \subseteq Nat
        BY <4>1, StoredFieldsOf DEF Indices
      <4> QED BY <3>5, <4>2 DEF Tidy
    <3>8. /\ Whole(elements) /\ elements.dense = z.dense
          /\ VectorIndices(elements) = VectorIndices(z) /\ elements.sparse = z.sparse
      BY ZenonT(60), <3>5, <3>6, <3>7, LengthWhole
    <3> QED BY <3>5, <3>7, <3>8 DEF Tidy
  <2> QED BY <1>3, <2>1, <2>2
<1>5. OnlyData(elements)
  <2>1. /\ Owned(elements) = VectorIndices(elements) \cup DOMAIN elements.sparse
        /\ \A i \in Owned(elements) :
             Own(elements, i) = IF i \in VectorIndices(elements)
                                THEN Default(elements.vector[i]) ELSE elements.sparse[i]
    BY <1>4, OwnedOf
  <2>2. \A x : Default(x).attributes.type = "data"
    BY DEF Default
  <2> QED BY <1>4, <2>1, <2>2 DEF OnlyData
<1> QED BY <1>1, <1>4, <1>5 DEF EInv

\* Definitions with descriptors that are no accessors make none.
LEMMA DefinesData ==
  ASSUME NEW CONSTANT i \in Indices, NEW CONSTANT d \in Descriptors, d.type # "accessor",
         Whole(elements), Tidy(elements), Defines(i, d),
         \A j \in Owned(elements) : Own(elements, j).attributes.type = "data"
  PROVE  \A j \in Owned(elements') : Own(elements', j).attributes.type = "data"
<1>1. ASSUME NEW s, s.attributes.type = "data", HasElement(elements, elements', i, s)
      PROVE  \A j \in Owned(elements') : Own(elements', j).attributes.type = "data"
  BY <1>1 DEF HasElement
<1>2. SameArray(elements, elements') =>
        \A j \in Owned(elements') : Own(elements', j).attributes.type = "data"
  BY DEF SameArray
<1>3. NewSlot(d).attributes.type = "data"
  BY DEF NewSlot
<1>4. i \in Owned(elements) => Changed(Own(elements, i), d).attributes.type = "data"
  <2> SUFFICES ASSUME i \in Owned(elements) PROVE Changed(Own(elements, i), d).attributes.type = "data"
    OBVIOUS
  <2>1. PICK s \in StoredSlots : s = Own(elements, i)
    BY OwnStored
  <2>2. s.attributes.type = "data"
    BY <2>1
  <2>3. Changed(s, d) = SpecChanged(s, d)
    BY <2>2, ChangedIsSpec
  <2>4. SpecChanged(s, d).attributes.type = IF d.type = "generic" THEN "data" ELSE d.type
    BY <2>2 DEF SpecChanged
  <2> QED BY <2>1, <2>3, <2>4, DescriptorKinds
<1> QED BY <1>1, <1>2, <1>3, <1>4 DEF Defines

\* Neither do puts.
LEMMA PutData ==
  ASSUME NEW CONSTANT i \in Indices, NEW CONSTANT v \in Values, Put(i, v),
         Whole(elements), Tidy(elements),
         \A j \in Owned(elements) : Own(elements, j).attributes.type = "data"
  PROVE  \A j \in Owned(elements') : Own(elements', j).attributes.type = "data"
<1>1. CASE FastPut(i) /\ DefineDense(i, v)
  <2>1. elements.dense /\ i < MaxVectorSize /\ DefineDense(i, v)
    BY <1>1 DEF FastPut
  <2>2. HasElement(elements, elements', i, Default(Filled(i, v)))
    BY <2>1, DefineDenseStep
  <2>3. Default(Filled(i, v)).attributes.type = "data"
    BY DEF Default
  <2> QED BY <2>2, <2>3 DEF HasElement
<1>2. CASE DefineOwn(i, IF i \in Owned(elements) THEN ValueOnly(v) ELSE DefaultData(v))
  <2>1. PICK d \in Descriptors : d = IF i \in Owned(elements) THEN ValueOnly(v) ELSE DefaultData(v)
    BY PutDescriptors
  <2>2. d.type = "data"
    BY <2>1 DEF ValueOnly, DefaultData
  <2>3. Defines(i, d)
    BY <1>2, <2>1, DefineOwnStep
  <2> QED BY <2>2, <2>3, DefinesData
<1>3. CASE Answer(elements, FALSE)
  BY <1>3 DEF Answer
<1> QED BY <1>1, <1>2, <1>3 DEF Put

\* Every call answers.
LEMMA Answers ==
  ASSUME answer \in BOOLEAN, Next
  PROVE  answer' \in BOOLEAN
<1>1. \A i, d : DefineSparse(i, d) => answer' \in BOOLEAN
  BY DEF DefineSparse, Answer, Returned
<1>2. \A i, v : DefineDense(i, v) => answer' \in BOOLEAN
  BY DEF DefineDense, Answer
<1>3. \A i, d : DefineOwn(i, d) => answer' \in BOOLEAN
  BY <1>1, <1>2 DEF DefineOwn, Answer
<1>4. \A i, v : Put(i, v) => answer' \in BOOLEAN
  BY <1>2, <1>3 DEF Put, Answer
<1>5. \A i : Delete(i) => answer' \in BOOLEAN
  BY DEF Delete, Answer
<1>6. \A l, w : DefineLength(l, w) => answer' \in BOOLEAN
  BY DEF DefineLength, Answer, WritableGranted, SetLengthDone
<1>7. PreventExtensions => answer' \in BOOLEAN
  BY DEF PreventExtensions
<1> QED BY <1>3, <1>4, <1>5, <1>6, <1>7 DEF Next

\* Descriptors that may make a data property of an accessor carry a value, as
\* the merge that leaves the accessor's cell is left out (README, section 6).
ValuesGiven == NoAccessors \/ \A d \in Inputs : d.type = "data" => d.value # Absent

\* A call keeps the invariant.
LEMMA CallKeeps ==
  ASSUME EInv, Next
  PROVE  EInv'
<1>1. /\ Whole(elements) /\ Tidy(elements) /\ OnlyData(elements)
      /\ extensible \in BOOLEAN /\ answer \in BOOLEAN
      /\ inherited \in Prototypes /\ (DOMAIN inherited # {} => protoIndexed)
  BY DEF EInv
<1>2. answer' \in BOOLEAN
  BY <1>1, Answers
<1>3. Keep => /\ extensible' \in BOOLEAN
              /\ inherited' \in Prototypes /\ (DOMAIN inherited' # {} => protoIndexed')
  BY <1>1 DEF Keep
<1>4. Within(elements, elements') => OnlyData(elements')
  BY <1>1 DEF Within, OnlyData
<1>5. ASSUME NEW i \in Indices, NEW d \in Inputs, DefineOwn(i, d) PROVE EInv'
  <2>1. d \in Descriptors
    BY ElementsAssumption
  <2>2. Kept /\ Keep /\ Defines(i, d)
    BY <1>1, <1>5, <2>1, DefineOwnStep
  <2>3. OnlyData(elements')
    <3> SUFFICES ASSUME NoAccessors
                 PROVE  \A j \in Owned(elements') : Own(elements', j).attributes.type = "data"
      BY DEF OnlyData
    <3>1. /\ d.type # "accessor"
          /\ \A j \in Owned(elements) : Own(elements, j).attributes.type = "data"
      BY <1>1 DEF NoAccessors, OnlyData
    <3> QED BY <1>1, <2>1, <2>2, <3>1, DefinesData
  <2> QED BY <1>1, <1>2, <1>3, <2>2, <2>3 DEF EInv, Kept
<1>6. ASSUME NEW i \in Indices, NEW v \in PutValues, Put(i, v) PROVE EInv'
  <2>1. v \in Values
    BY ElementsAssumption
  <2>2. Kept /\ Keep
    BY <1>1, <1>6, <2>1, PutStep
  <2>3. OnlyData(elements')
    <3> SUFFICES ASSUME NoAccessors
                 PROVE  \A j \in Owned(elements') : Own(elements', j).attributes.type = "data"
      BY DEF OnlyData
    <3>1. \A j \in Owned(elements) : Own(elements, j).attributes.type = "data"
      BY <1>1 DEF OnlyData
    <3> QED BY <1>1, <1>6, <2>1, <3>1, PutData
  <2> QED BY <1>1, <1>2, <1>3, <2>2, <2>3 DEF EInv, Kept
<1>7. ASSUME NEW i \in Indices, Delete(i) PROVE EInv'
  <2>1. Kept /\ Keep /\ Within(elements, elements')
    BY <1>1, <1>7, DeleteStep
  <2> QED BY <1>1, <1>2, <1>3, <1>4, <2>1 DEF EInv, Kept
<1>8. ASSUME NEW len \in Lengths \cup {Absent}, NEW w \in Flag, DefineLength(len, w) PROVE EInv'
  <2>1. Kept /\ Keep /\ Within(elements, elements')
    BY <1>1, <1>8, DefineLengthStep
  <2> QED BY <1>1, <1>2, <1>3, <1>4, <2>1 DEF EInv, Kept
<1>9. ASSUME PreventExtensions PROVE EInv'
  <2>1. Kept /\ Within(elements, elements')
    BY <1>1, <1>9, PreventExtensionsStep
  <2>2. extensible' = FALSE /\ inherited' = inherited /\ protoIndexed' = protoIndexed
    BY <1>9 DEF PreventExtensions
  <2> QED BY <1>1, <1>2, <1>4, <2>1, <2>2 DEF EInv, Kept
<1> QED BY <1>5, <1>6, <1>7, <1>8, <1>9 DEF Next

\* A call that does not depart is the call of ArrayModel.
LEMMA CallIsArrayCall ==
  ASSUME EInv, ValuesGiven
  PROVE  AreArrayCalls
<1> SUFFICES ASSUME ~Departs PROVE AreArrayCalls
  BY DEF AreArrayCalls
<1>1. /\ Whole(elements) /\ Tidy(elements) /\ OnlyData(elements)
      /\ inherited \in Prototypes /\ (DOMAIN inherited # {} => protoIndexed)
  BY DEF EInv
<1>2. LengthHolds /\ ClosedHolds /\ LockedHold
  BY DEF Departs
<1>3. ASSUME NEW i \in Indices, NEW d \in Inputs, DefineOwn(i, d) PROVE Arrays!DefineElement(i, d)
  <2>1. d \in Descriptors
    BY ElementsAssumption
  <2>2. Keep /\ Defines(i, d)
    BY <1>1, <1>3, <2>1, DefineOwnStep
  <2>3. i \in Owned(elements) =>
          ~(Own(elements, i).attributes.type = "accessor" /\ d.type = "data" /\ d.value = Absent)
    BY <1>1 DEF ValuesGiven, OnlyData
  <2> QED BY <1>1, <1>2, <2>1, <2>2, <2>3, DefineView
<1>4. ASSUME NEW i \in Indices, NEW v \in PutValues, Put(i, v) PROVE Arrays!PutElement(i, v)
  <2>1. v \in Values /\ \A j \in DOMAIN inherited : inherited[j] \in StoredSlots
    BY <1>1, ElementsAssumption
  <2> QED BY <1>1, <1>2, <1>4, <2>1, PutView
<1>5. ASSUME NEW i \in Indices, Delete(i) PROVE Arrays!DeleteElement(i)
  BY <1>1, <1>5, DeleteStep
<1>6. ASSUME NEW len \in Lengths, NEW w \in Flag, DefineLength(len, w), ~ReachesBelow(len)
      PROVE  Arrays!SetLength(len, w)
  <2>1. ~GoesBelow(elements, len)
    BY <1>6 DEF ReachesBelow, GoesBelow, Ends
  <2>2. (IF len \in Lengths THEN len ELSE elements.length) = len
    OBVIOUS
  <2>3. PICK n : n = IF len \in Lengths THEN len ELSE elements.length
    OBVIOUS
  <2>4. Arrays!SetLength(IF len \in Lengths THEN len ELSE elements.length, w)
    BY <1>1, <1>2, <1>6, <2>1, DefineLengthStep
  <2> QED BY <2>2, <2>4
<1>7. ASSUME NEW w \in Flag, DefineLength(Absent, w) PROVE Arrays!SetLength(elements.length, w)
  <2>1. Absent \notin Lengths
    BY ElementsAssumption
  <2>2. (IF Absent \in Lengths THEN Absent ELSE elements.length) = elements.length
    BY <2>1
  <2>3. Arrays!SetLength(IF Absent \in Lengths THEN Absent ELSE elements.length, w)
    BY <1>1, <1>2, <1>7, <2>1, DefineLengthStep
  <2> QED BY <2>2, <2>3
<1>8. PreventExtensions => Arrays!Close
  BY <1>1, PreventExtensionsStep
<1> QED BY <1>3, <1>4, <1>5, <1>6, <1>7, <1>8 DEF AreArrayCalls

-----------------------------------------------------------------------------
(* Compiled stores                                                         *)

\* The store that grows: the size is set behind the index.
Grown(e, i, x) == [e EXCEPT !.vector[i] = x, !.size = i + 1]

\* A compiled store behind the end of the vector leaves the representation whole,
\* and adds its element when the array is dense and the index is the next.
LEMMA GrowWhole ==
  ASSUME NEW e, Whole(e), NEW i \in Indices, e.size <= i, i < Room(e), NEW x \in Values,
         NEW f, f = Longer(Grown(e, i, x), i)
  PROVE  /\ Whole(f) /\ f.dense = e.dense
         /\ e.dense /\ i = e.size => HasElement(e, f, i, Default(x))
<1>0. Stored(e)
  BY DEF Whole
<1>1. /\ e = [dense |-> e.dense, writable |-> e.writable, length |-> e.length,
              size |-> e.size, vector |-> e.vector, sparse |-> e.sparse]
      /\ e.dense \in BOOLEAN /\ e.writable \in BOOLEAN
      /\ e.length \in Nat /\ e.length <= MaxLength
      /\ e.size \in Nat /\ Room(e) \in Nat /\ e.size <= Room(e) /\ Room(e) <= MaxVectorSize
      /\ DOMAIN e.vector = 0..(Room(e) - 1)
      /\ MaxVectorSize \in Nat /\ MaxLength \in Nat
      /\ VectorIndices(e) \subseteq Indices
  BY <1>0, StoredFieldsOf
<1>2. i \in Nat /\ i < MaxLength /\ i + 1 \in Nat /\ i + 1 <= Room(e) /\ i \in DOMAIN e.vector
  BY <1>1 DEF Indices
<1> DEFINE v == [e.vector EXCEPT ![i] = x]
<1>3. PICK g : g = Grown(e, i, x)
  OBVIOUS
<1>4. g = [dense |-> e.dense, writable |-> e.writable, length |-> e.length,
           size |-> i + 1, vector |-> v, sparse |-> e.sparse]
  BY <1>1, <1>3 DEF Grown
<1>5. /\ v \in VectorOf(Room(e)) /\ v[i] = x /\ DOMAIN v = DOMAIN e.vector
      /\ \A j \in DOMAIN e.vector : j # i => v[j] = e.vector[j]
  <2>1. e.vector \in VectorOf(Room(e))
    BY <1>0 DEF Stored
  <2> QED BY <1>2, <2>1 DEF VectorOf
<1> HIDE DEF v
<1>6. /\ g.dense = e.dense /\ g.writable = e.writable /\ g.length = e.length
      /\ g.size = i + 1 /\ g.vector = v /\ g.sparse = e.sparse
      /\ g = [dense |-> g.dense, writable |-> g.writable, length |-> g.length,
              size |-> g.size, vector |-> g.vector, sparse |-> g.sparse]
  BY ONLY <1>4
<1>7. Stored(g)
  <2>1. /\ e.length \in Lengths
        /\ e.sparse \in [DOMAIN e.sparse -> StoredSlots] /\ DOMAIN e.sparse \subseteq Indices
    BY <1>0 DEF Stored
  <2>2. \A j \in 0..(g.size - 1) : g.vector[j] # Empty => j \in Indices
    BY <1>1, <1>2, <1>6 DEF Indices
  <2> QED BY <1>1, <1>2, <1>5, <1>6, <2>1, <2>2, StoredRecord
<1>8. f = Longer(g, i)
  BY <1>3
<1>9. /\ Stored(f) /\ f.length = LengthWith(e.length, i)
      /\ f.size = i + 1 /\ f.dense = e.dense /\ f.writable = e.writable
      /\ f.vector = v /\ f.sparse = e.sparse
  <2>1. /\ Stored(f) /\ f.length = LengthWith(g.length, i)
        /\ f.size = g.size /\ f.dense = g.dense /\ f.writable = g.writable
        /\ f.vector = g.vector /\ f.sparse = g.sparse
    BY ONLY <1>7, i \in Indices, <1>8, LongerEffect
  <2> QED BY <1>6, <2>1
<1>10. Whole(f)
  <2>1. ASSUME e.dense, NEW j \in DOMAIN e.sparse PROVE MaxVectorSize <= j /\ j < f.length
    <3>1. MaxVectorSize <= j /\ j < e.length /\ j \in Nat
      <4>1. DOMAIN e.sparse \subseteq Nat
        BY <1>0, StoredFieldsOf DEF Indices
      <4> QED BY <2>1, <4>1 DEF Whole, Apart
    <3>2. f.length \in Nat /\ e.length <= f.length
      BY <1>1, <1>2, <1>9 DEF LengthWith
    <3> QED BY <1>1, <3>1, <3>2
  <2> QED BY <1>9, <2>1 DEF Whole, Apart
<1>11. ASSUME e.dense, i = e.size PROVE HasElement(e, f, i, Default(x))
  <2>1. PICK s : s = Default(x)
    OBVIOUS
  <2>2. \A j \in DOMAIN e.sparse : MaxVectorSize <= j
    BY <1>11 DEF Whole, Apart
  <2>3. i \notin DOMAIN e.sparse
    BY <1>1, <1>2, <2>2
  <2>4. i \in VectorIndices(f)
    <3>1. x # Empty
      BY ElementsAssumption
    <3> QED BY <1>2, <1>5, <1>9, <3>1 DEF VectorIndices, InVector
  <2>5. \A j \in VectorIndices(f) \ {i} : j \in VectorIndices(e) /\ f.vector[j] = e.vector[j]
    <3> SUFFICES ASSUME NEW j \in VectorIndices(f), j # i
                 PROVE  j \in VectorIndices(e) /\ f.vector[j] = e.vector[j]
      OBVIOUS
    <3>1. j \in DOMAIN e.vector /\ j < i + 1 /\ v[j] # Empty
      BY <1>5, <1>9 DEF VectorIndices, InVector
    <3>2. j \in Nat /\ j < e.size /\ v[j] = e.vector[j]
      BY <1>1, <1>2, <1>5, <1>11, <3>1
    <3> QED BY <1>9, <3>1, <3>2 DEF VectorIndices, InVector
  <2>6. VectorIndices(e) \subseteq VectorIndices(f)
    <3> SUFFICES ASSUME NEW j \in VectorIndices(e) PROVE j \in VectorIndices(f)
      OBVIOUS
    <3>1. j \in DOMAIN e.vector /\ j < e.size /\ e.vector[j] # Empty /\ j \in Nat
      BY <1>1 DEF VectorIndices, InVector
    <3>2. j < i + 1 /\ v[j] = e.vector[j]
      BY <1>1, <1>2, <1>5, <1>11, <3>1
    <3> QED BY <1>5, <1>9, <3>1, <3>2 DEF VectorIndices, InVector
  <2>7. \A j \in DOMAIN e.sparse : j \notin VectorIndices(e)
    BY <1>11, OwnedOf
  <2>8. Adds(e, f, i, s)
    BY <1>5, <1>9, <2>1, <2>4, <2>5, <2>6, <2>7 DEF Adds
  <2>9. f.dense
    BY <1>9, <1>11
  <2>10. HasElement(e, f, i, s)
    BY ONLY Whole(e), <1>10, <1>11, <2>8, <2>9, i \in Indices, ElementAdded
  <2> QED BY <2>1, <2>10
<1> QED BY <1>9, <1>10, <1>11

\* What compiled stores leave of the invariant: they may leave elements above
\* length, when an array is not in order.
CInv ==
  /\ Whole(elements)
  /\ inherited \in Prototypes /\ (DOMAIN inherited # {} => protoIndexed)

\* A vector in order has nothing at or above length.
LEMMA InOrderTidy ==
  ASSUME Whole(elements), InOrder
  PROVE  Tidy(elements)
<1>1. Stored(elements)
  BY DEF Whole
<1>2. /\ elements.size \in Nat /\ elements.length \in Nat /\ elements.size <= elements.length
      /\ elements.dense /\ VectorIndices(elements) \subseteq Nat
  BY <1>1, StoredFieldsOf DEF InOrder, Indices
<1>3. \A i \in VectorIndices(elements) : i < elements.length
  BY <1>2 DEF VectorIndices, InVector
<1> QED BY <1>2, <1>3 DEF Whole, Apart, Tidy

\* The four ways of a[i] = v in compiled code.
LEMMA StoreSteps ==
  ASSUME CInv, NEW CONSTANT i \in Indices, NEW CONSTANT v \in PutValues,
         Overwrite(i, v) \/ StoreHole(i, v) \/ Grow(i, v) \/ Miss(i, v)
  PROVE  /\ Whole(elements') /\ Keep
         /\ InOrder /\ i <= elements.size => Arrays!PutElement(i, v)
<1>0. v \in Values /\ Whole(elements)
  BY ElementsAssumption DEF CInv
<1>1. InOrder => /\ Tidy(elements) /\ LengthHolds /\ ClosedHolds
                 /\ elements.dense /\ DOMAIN inherited = {} /\ elements.size <= elements.length
  BY <1>0, InOrderTidy DEF InOrder, LengthHolds, ClosedHolds, CInv
<1>2. Stored(elements)
  BY <1>0 DEF Whole
<1>3. /\ elements.size \in Nat /\ elements.size <= Room(elements) /\ Room(elements) <= MaxVectorSize
      /\ Room(elements) \in Nat /\ MaxVectorSize \in Nat /\ MaxLength \in Nat
      /\ i \in Nat /\ elements.length \in Nat
  BY <1>2, StoredFieldsOf DEF Indices
<1>4. ASSUME i < elements.size, Answer([elements EXCEPT !.vector[i] = v], TRUE)
      PROVE  /\ Whole(elements') /\ Keep
             /\ InOrder /\ i <= elements.size => Arrays!PutElement(i, v)
  <2>1. elements' = Written(elements, i, v) /\ answer' = TRUE /\ Keep
    BY <1>4 DEF Answer, Written
  <2>2. /\ Whole(elements')
        /\ elements.dense /\ i < elements.length =>
             (Tidy(elements) => Tidy(elements')) /\ HasElement(elements, elements', i, Default(v))
    BY ONLY <1>0, i \in Indices, <1>4, <2>1, PlainWrite
  <2>3. ASSUME InOrder PROVE Arrays!PutElement(i, v)
    <3>1. HasElement(elements, elements', i, Default(v))
      BY <1>1, <1>3, <1>4, <2>2, <2>3
    <3>2. i < MaxVectorSize
      BY <1>3, <1>4
    <3> QED BY <1>0, <1>1, <2>1, <2>3, <3>1, <3>2, StoredIsPut
  <2> QED BY <2>1, <2>2, <2>3
<1>5. CASE Overwrite(i, v)
  BY <1>4, <1>5 DEF Overwrite, InVector
<1>6. CASE StoreHole(i, v)
  BY <1>4, <1>6 DEF StoreHole
<1>7. CASE Grow(i, v)
  <2>1. /\ elements.size <= i /\ i < Room(elements)
        /\ elements' = Longer(Grown(elements, i, v), i) /\ answer' = TRUE /\ Keep
    BY <1>7 DEF Grow, Answer, Grown
  <2>2. /\ Whole(elements')
        /\ elements.dense /\ i = elements.size => HasElement(elements, elements', i, Default(v))
    BY ONLY <1>0, i \in Indices, <2>1, GrowWhole
  <2>3. ASSUME InOrder, i <= elements.size PROVE Arrays!PutElement(i, v)
    <3>1. i = elements.size
      BY <1>3, <2>1, <2>3
    <3>2. HasElement(elements, elements', i, Default(v))
      BY <1>1, <2>2, <2>3, <3>1
    <3>3. i < MaxVectorSize
      BY <1>3, <2>1
    <3> QED BY <1>0, <1>1, <2>1, <2>3, <3>2, <3>3, StoredIsPut
  <2> QED BY <2>1, <2>2, <2>3
<1>8. CASE Miss(i, v)
  <2>1. Put(i, v)
    BY <1>8 DEF Miss
  <2>2. Kept /\ Keep
    BY <1>0, <2>1, PutStep
  <2>3. ASSUME InOrder PROVE Arrays!PutElement(i, v)
    <3>1. /\ \A j \in DOMAIN inherited : inherited[j] \in StoredSlots
          /\ DOMAIN inherited # {} => protoIndexed
      BY ElementsAssumption DEF CInv
    <3> QED BY <1>0, <1>1, <2>1, <2>3, <3>1, PutView
  <2> QED BY <2>2, <2>3 DEF Kept
<1> QED BY <1>5, <1>6, <1>7, <1>8

\* Calls and compiled stores together.
LEMMA CompiledKeeps ==
  ASSUME CInv, CNext
  PROVE  CInv'
<1>0. Whole(elements) /\ inherited \in Prototypes /\ (DOMAIN inherited # {} => protoIndexed)
  BY DEF CInv
<1>1. Whole(elements') /\ Keep => CInv'
  BY <1>0 DEF CInv, Keep
<1>2. ASSUME NEW i \in Indices, NEW d \in Inputs, DefineOwn(i, d) PROVE CInv'
  <2>1. d \in Descriptors
    BY ElementsAssumption
  <2> QED BY <1>0, <1>1, <1>2, <2>1, DefineOwnStep DEF Kept
<1>3. ASSUME NEW i \in Indices, NEW v \in PutValues, Put(i, v) PROVE CInv'
  <2>1. v \in Values
    BY ElementsAssumption
  <2> QED BY <1>0, <1>1, <1>3, <2>1, PutStep DEF Kept
<1>4. ASSUME NEW i \in Indices, Delete(i) PROVE CInv'
  BY <1>0, <1>1, <1>4, DeleteStep DEF Kept
<1>5. ASSUME NEW len \in Lengths \cup {Absent}, NEW w \in Flag, DefineLength(len, w) PROVE CInv'
  BY <1>0, <1>1, <1>5, DefineLengthStep DEF Kept
<1>6. ASSUME PreventExtensions PROVE CInv'
  <2>1. Whole(elements')
    BY <1>0, <1>6, PreventExtensionsStep DEF Kept
  <2>2. inherited' = inherited /\ protoIndexed' = protoIndexed
    BY <1>6 DEF PreventExtensions
  <2> QED BY <1>0, <2>1, <2>2 DEF CInv
<1>7. ASSUME NEW i \in Indices, NEW v \in PutValues,
             Overwrite(i, v) \/ StoreHole(i, v) \/ Grow(i, v) \/ Miss(i, v)
      PROVE  CInv'
  BY <1>1, <1>7, StoreSteps
<1> QED BY <1>2, <1>3, <1>4, <1>5, <1>6, <1>7 DEF CNext, Runtime

-----------------------------------------------------------------------------
(* The theorems                                                            *)

\* Definitions, puts, deletions and lengths in any order keep the invariant.
LEMMA CallsInvariance == Spec => []EInv
<1>1. Init => EInv
  BY InitElements
<1>2. EInv /\ [Next]_evars => EInv'
  <2> SUFFICES ASSUME EInv, [Next]_evars PROVE EInv'
    OBVIOUS
  <2>1. CASE Next
    BY <2>1, CallKeeps
  <2>2. CASE UNCHANGED evars
    <3>1. /\ elements' = elements /\ extensible' = extensible /\ answer' = answer
          /\ inherited' = inherited /\ protoIndexed' = protoIndexed
      BY <2>2 DEF evars
    <3> QED BY <3>1 DEF EInv
  <2> QED BY <2>1, <2>2
<1> QED BY <1>1, <1>2, PTL DEF Spec

\* The elements and their storage are always of their types, the size of the
\* vector within its memory and that within kMaxVectorSize.
THEOREM ElementsStayStored == Spec => []ElementsTypeOK
<1>1. EInv => ElementsTypeOK
  <2> SUFFICES ASSUME EInv PROVE ElementsTypeOK
    OBVIOUS
  <2>1. Stored(elements) /\ extensible \in BOOLEAN /\ answer \in BOOLEAN
    BY DEF EInv, Whole
  <2>2. /\ DOMAIN elements = {"dense", "writable", "length", "size", "vector", "sparse"}
        /\ elements.dense \in BOOLEAN /\ elements.writable \in BOOLEAN
        /\ elements.size \in Nat /\ elements.size <= MaxVectorSize /\ MaxVectorSize \in Nat
        /\ elements.size <= Room(elements)
        /\ \A i \in DOMAIN elements.vector : elements.vector[i] \in Values \cup {Empty}
        /\ DOMAIN elements.sparse \subseteq Indices
        /\ \A i \in DOMAIN elements.sparse : elements.sparse[i] \in StoredSlots
    BY <2>1, StoredFieldsOf
  <2>3. elements.length \in Lengths
    BY <2>1 DEF Stored
  <2> QED BY <2>1, <2>2, <2>3 DEF ElementsTypeOK, Room
<1> QED BY <1>1, CallsInvariance, PTL

\* Whatever an array went through, an element is in its vector or in its map
\* and not in both, and the vector of a sparse array holds nothing.
THEOREM ElementsHaveOneHome == Spec => []OneHomePerElement
<1>1. EInv => OneHomePerElement
  BY DEF EInv, Whole, Apart, Tidy, OneHomePerElement
<1> QED BY <1>1, CallsInvariance, PTL

\* No element is at or above length, in either representation.
THEOREM ElementsStayBelowLength == Spec => []LengthAboveElements
<1>1. EInv => LengthAboveElements
  BY DEF EInv, Tidy, LengthAboveElements
<1> QED BY <1>1, CallsInvariance, PTL

\* Every call on every array, of any size, is the call ECMAScript 5 describes,
\* apart from the known departures.
THEOREM CallsRefineArray == ValuesGiven => (Spec => CallsAreArrayCalls)
<1> SUFFICES ASSUME ValuesGiven PROVE Spec => CallsAreArrayCalls
  OBVIOUS
<1>1. EInv => AreArrayCalls
  BY CallIsArrayCall
<1> QED BY <1>1, CallsInvariance, PTL DEF CallsAreArrayCalls

\* A compiled store into a vector in order, or right behind it, is the put,
\* although it looks at neither length nor flags.
THEOREM CompiledStoresArePuts == CSpec => CompiledStoreIsPut
<1>1. CInit => CInv
  <2> SUFFICES ASSUME CInit PROVE CInv
    OBVIOUS
  <2>1. Init
    BY DEF CInit
  <2> QED BY <2>1, InitElements DEF EInv, CInv
<1>2. CInv /\ [CNext]_cvars => CInv'
  <2> SUFFICES ASSUME CInv, [CNext]_cvars PROVE CInv'
    OBVIOUS
  <2>1. CASE CNext
    BY <2>1, CompiledKeeps
  <2>2. CASE UNCHANGED cvars
    <3>1. elements' = elements /\ inherited' = inherited /\ protoIndexed' = protoIndexed
      BY <2>2 DEF cvars
    <3> QED BY <3>1 DEF CInv
  <2> QED BY <2>1, <2>2
<1>3. CInv => StoresArePuts
  BY StoreSteps DEF StoresArePuts
<1> QED BY <1>1, <1>2, <1>3, PTL DEF CSpec, CompiledStoreIsPut
=============================================================================
