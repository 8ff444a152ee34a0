------------------------------ MODULE ArrayCall ------------------------------
(***************************************************************************)
(* The arrays that the functions of Array.prototype work on                *)
(* (runtime/array.cc), and those of the functions that call no script: the *)
(* loops over HasProperty, Get, Put and Delete, in the order of the code.  *)
(*                                                                         *)
(* An array is what those four see of it: its elements, Hole where it has  *)
(* none, its length, the elements that are read-only and not configurable, *)
(* and the error that ended the call.  An index is a uint32_t, that is a   *)
(* number modulo Modulus; the names from Modulus - 1 on are no array       *)
(* indices and do not move the length.                                     *)
(***************************************************************************)
EXTENDS Integers, Sequences, SequencesExt, FiniteSetsExt

CONSTANTS
  Elements,    \* the values in arrays
  Undefined,
  Hole,        \* no element
  Modulus,     \* 2^32
  Beyond       \* bound: the names from Modulus on that push may reach

ASSUME ArrayAssumption ==
  /\ Modulus \in Nat \ {0, 1} /\ Beyond \in Nat
  /\ Undefined \in Elements /\ Hole \notin Elements

Places == 0..(Modulus + Beyond)
IsIndex(i) == i < Modulus - 1
UInt32(n) == n % Modulus

Has(a, i) == a.at[i] # Hole
Get(a, i) == IF Has(a, i) THEN a.at[i] ELSE Undefined
Failed(a) == a.error # "none"
\* Op of the array that a stands for, worked out once.
Value(a, Op(_)) == CHOOSE r \in {Op(b) : b \in {a}} : TRUE
Throw(a, error) == [a EXCEPT !.error = error]

\* Every call returns at once when the one before it has reported an error.
PutAt(a, i, v) ==
  IF Failed(a) THEN a
  ELSE IF i \in a.locked THEN Throw(a, "Type")
  ELSE [a EXCEPT !.at[i] = v, !.len = IF IsIndex(i) /\ i >= @ THEN i + 1 ELSE @]

DeleteAt(a, i) ==
  IF Failed(a) THEN a
  ELSE IF i \in a.locked THEN Throw(a, "Type")
  ELSE [a EXCEPT !.at[i] = Hole]

\* "length" assigned: elements go from the end, up to a locked one.
CutTo(a, n) == [a EXCEPT !.len = n,
                         !.at = [i \in Places |-> IF i >= n /\ IsIndex(i) THEN Hole ELSE @[i]]]
Stops(a, n) == {i + 1 : i \in {i \in a.locked : i >= n /\ IsIndex(i)}}

PutLength(a, n) == Value(a, LAMBDA b :
  IF Failed(b) THEN b
  ELSE IF n >= Modulus THEN Throw(b, "Range")
  ELSE IF Stops(b, n) = {} THEN CutTo(b, n)
  ELSE Throw(CutTo(b, Max(Stops(b, n))), "Type"))

-----------------------------------------------------------------------------
Upwards(from, to) == [n \in 1..(IF to < from THEN 0 ELSE to - from + 1) |-> from + n - 1]
Downwards(from, to) == Reverse(Upwards(to, from))

\* Mutant: the element is taken away before it is put.
MoveTaking(a, from, to) ==
  IF Failed(a) THEN a
  ELSE IF Has(a, from) THEN PutAt(DeleteAt(a, from), to, a.at[from]) ELSE DeleteAt(a, to)

\* The step that shift, unshift and splice repeat.
Move(a, from, to) ==
  IF Failed(a) THEN a
  ELSE IF Has(a, from) THEN PutAt(a, to, a.at[from]) ELSE DeleteAt(a, to)

\* A loop: Op for each of some numbers, on the array the one before has left.
Each(a, numbers, Op(_, _)) ==
  LET left[n \in 0..Len(numbers)] ==
        IF n = 0 THEN a ELSE Value(left[n - 1], LAMBDA b : Op(b, numbers[n]))
  IN left[Len(numbers)]

MoveAll(a, places, by) == Each(a, places, LAMBDA b, k : Move(b, k, UInt32(k + by)))
DeleteAll(a, places) == Each(a, places, LAMBDA b, k : DeleteAt(b, k))
Put(a, from, items) ==
  Each(a, Upwards(1, Len(items)), LAMBDA b, n : PutAt(b, from + n - 1, items[n]))

Returning(a, v) == [array |-> a, value |-> v]

Pop(a) ==
  IF a.len = 0 THEN Returning(PutLength(a, 0), Undefined)
  ELSE Returning(PutLength(DeleteAt(a, a.len - 1), a.len - 1), Get(a, a.len - 1))

Push(a, items) ==
  LET n == a.len + Len(items) IN Returning(PutLength(Put(a, a.len, items), n), n)

Exchange(a, lower) ==
  LET upper == a.len - lower - 1
  IN IF Has(a, lower) /\ Has(a, upper)
     THEN PutAt(PutAt(a, lower, a.at[upper]), upper, a.at[lower])
     ELSE IF Has(a, upper) THEN DeleteAt(PutAt(a, lower, a.at[upper]), upper)
     ELSE IF Has(a, lower) THEN PutAt(DeleteAt(a, lower), upper, a.at[lower])
     ELSE a
ExchangeAll(a, places) == Each(a, places, LAMBDA b, k : Exchange(b, k))
ReverseOf(a) ==
  Returning(ExchangeAll(a, Upwards(0, (a.len \div 2) - 1)), Undefined)

Shift(a) ==
  IF a.len = 0 THEN Returning(PutLength(a, 0), Undefined)
  ELSE LET moved == MoveAll(a, Upwards(1, a.len - 1), -1)
       IN Returning(PutLength(DeleteAt(moved, a.len - 1), a.len - 1), Get(a, 0))

\* Mutant: from the start on.
UnshiftUpwards(a, items) ==
  LET n == Len(items)
      moved == IF n = 0 THEN a ELSE MoveAll(a, Upwards(0, a.len - 1), n)
  IN Returning(PutLength(Put(moved, 0, items), UInt32(a.len + n)), UInt32(a.len + n))

Unshift(a, items) ==
  LET n == Len(items)
      moved == IF n = 0 THEN a ELSE MoveAll(a, Downwards(a.len - 1, 0), n)
  IN Returning(PutLength(Put(moved, 0, items), UInt32(a.len + n)), UInt32(a.len + n))

\* What slice and splice make of an index that may be negative.
Relative(a, x) == IF x < 0 THEN Max({x + a.len, 0}) ELSE Min({x, a.len})

\* A new array from those of a, holes included.
Copied(a, from, count) == [n \in 1..count |-> a.at[from + n - 1]]

Slice(a, start, end) ==
  LET k == Relative(a, start)
      final == Relative(a, end)
  IN Returning(a, Copied(a, k, IF final > k THEN final - k ELSE 0))

Splice(a, start, deleted, items) ==
  LET from == Relative(a, start)
      count == Min({Max({deleted, 0}), a.len - from})
      n == Len(items)
      size == UInt32(a.len - count + n)
      moved ==
        IF n < count
        THEN DeleteAll(MoveAll(a, Upwards(from + count, a.len - 1), n - count),
                       Downwards(a.len - 1, size))
        ELSE IF n > count THEN MoveAll(a, Downwards(a.len - 1, from + count), n - count)
        ELSE a
  IN Returning(PutLength(Put(moved, from, items), size), Copied(a, from, count))

Concat(a, items) ==
  LET joined[n \in 0..Len(items)] ==
        IF n = 0 THEN Copied(a, 0, a.len)
        ELSE IF items[n].isArray THEN joined[n - 1] \o items[n].items
        ELSE Append(joined[n - 1], items[n].item)
  IN Returning(a, joined[Len(items)])

\* The places looked at are those from k on, or down from k.
FirstOf(a, x, places) ==
  LET hits == {n \in DOMAIN places : Has(a, places[n]) /\ a.at[places[n]] = x}
  IN Returning(a, IF hits = {} THEN -1 ELSE places[Min(hits)])

IndexOf(a, x, from) ==
  LET k == IF from >= 0 THEN from ELSE IF a.len < -from THEN 0 ELSE a.len + from
  IN IF a.len = 0 \/ from >= a.len THEN Returning(a, -1)
     ELSE FirstOf(a, x, Upwards(k, a.len - 1))

LastIndexOf(a, x, from) ==
  LET k == IF from < 0 THEN a.len + from ELSE IF from > a.len - 1 THEN a.len - 1 ELSE from
  IN IF a.len = 0 \/ -from > a.len THEN Returning(a, -1)
     ELSE FirstOf(a, x, Downwards(k, 0))
=============================================================================
