----------------------------- MODULE ArrayProofs -----------------------------
(***************************************************************************)
(* The built-ins of Array.prototype (runtime/array.cc), for arrays of any  *)
(* length, callbacks that change the array as often as they like, and      *)
(* comparison functions that answer anything.                              *)
(*                                                                         *)
(* The functions that call one for every element visit what ES5 says       *)
(* (LoopsMatchES5); indexOf and lastIndexOf find what there is.  sort: the *)
(* stack of ranges stays low and never overflows (SortStackBound), by the  *)
(* halving of ranges; it keeps every element and leaves them in order      *)
(* (SortMatchesES5), by the ranges that are still to be sorted: first      *)
(* about any sequence and any order, then the steps.                       *)
(*                                                                         *)
(* The functions that call no script leave, and answer, what ES5 says      *)
(* (DirectCallsMatchES5), and lose no element when they fail on the way    *)
(* (FailureLosesNothing), by what each of their loops has done after any   *)
(* number of places.                                                       *)
(***************************************************************************)
EXTENDS ArrayBuiltins, FiniteSetTheorems, SequenceTheorems, WellFoundedInduction, TLAPS

-----------------------------------------------------------------------------
(* Arrays                                                                  *)

LEMMA PlacesHold ==
  /\ Modulus \in Nat /\ Modulus > 1 /\ Beyond \in Nat
  /\ 0..Modulus \subseteq Places
  /\ 0..2 \subseteq Places
  /\ IsFiniteSet(Places)
<1>1. IsFiniteSet(Places)
  BY ArrayAssumption, FS_Interval DEF Places
<1> QED BY <1>1, ArrayAssumption DEF Places

\* A set of natural numbers that has one has a smallest one.
LEMMA LeastNumber ==
  ASSUME NEW T, T \subseteq Nat, T # {}
  PROVE  \E p \in T : \A q \in T : p <= q
<1> DEFINE R == OpToRel(<, Nat)
           Less == {s \in Nat \X Nat : s[1] < s[2]}
<1>1. R = Less
  BY DEF OpToRel
<1>2. IsWellFoundedOn(R, Nat)
  BY NatLessThanWellFounded
<1> HIDE DEF R
<1>3. PICK p \in T : \A q \in T : ~(<<q, p>> \in R)
  BY <1>2, WFMin
<1>4. ASSUME NEW q \in T PROVE p <= q
  <2>1. <<q, p>> \notin Less
    BY <1>1, <1>3
  <2>2. ~(q < p)
    BY <2>1
  <2> QED BY <2>2
<1> QED BY <1>4

\* The greatest and the least of some numbers.
LEMMA Extremes ==
  ASSUME NEW k \in Nat, NEW S, S \subseteq 0..k, S # {}
  PROVE  /\ Max(S) \in S /\ \A y \in S : Max(S) >= y
         /\ Min(S) \in S /\ \A y \in S : Min(S) <= y
<1>1. PICK p \in S : \A y \in S : p <= y
  <2>1. S \subseteq Nat
    OBVIOUS
  <2> QED BY <2>1, LeastNumber
<1>2. PICK g \in S : \A y \in S : g >= y
  <2> DEFINE T == {k - x : x \in S}
  <2>1. T \subseteq Nat /\ T # {}
    OBVIOUS
  <2>2. PICK m \in T : \A z \in T : m <= z
    BY <2>1, LeastNumber
  <2>3. PICK x \in S : m = k - x
    BY <2>2
  <2>4. ASSUME NEW y \in S PROVE x >= y
    <3>1. k - y \in T
      OBVIOUS
    <3>2. k - x <= k - y
      BY <2>2, <2>3, <3>1
    <3>3. x \in Nat /\ y \in Nat
      OBVIOUS
    <3> QED BY <3>2, <3>3
  <2> QED BY <2>4
<1> QED BY <1>1, <1>2 DEF Max, Min

\* What the callbacks may do leaves an array.
LEMMA PutTyped ==
  ASSUME NEW a \in Arrays, NEW i \in Places, NEW v \in Elements
  PROVE  PutAt(a, i, v) \in Arrays
<1> DEFINE n == IF IsIndex(i) /\ i >= a.len THEN i + 1 ELSE a.len
           at == [a.at EXCEPT ![i] = v]
<1>1. n \in 0..(Modulus - 1)
  BY PlacesHold DEF Arrays, IsIndex, Places
<1>2. at \in [Places -> Elements \cup {Hole}]
  BY DEF Arrays
<1>3. [a EXCEPT !.at[i] = v, !.len = n] = [a EXCEPT !.at = at, !.len = n]
  BY DEF Arrays
<1> HIDE DEF n, at
<1>4. [a EXCEPT !.at = at, !.len = n] \in Arrays
  BY <1>1, <1>2 DEF Arrays
<1> QED BY <1>3, <1>4 DEF PutAt, Arrays, Failed, Throw, n

LEMMA DeleteTyped ==
  ASSUME NEW a \in Arrays, NEW i \in Places
  PROVE  DeleteAt(a, i) \in Arrays
BY PlacesHold DEF DeleteAt, Arrays, Failed, Throw, Places

LEMMA CutTyped ==
  ASSUME NEW a \in Arrays, NEW n \in 0..(Modulus - 1)
  PROVE  CutTo(a, n) \in Arrays
BY PlacesHold DEF CutTo, Arrays, IsIndex, Places

LEMMA PutLengthTyped ==
  ASSUME NEW a \in Arrays, NEW n \in 0..2
  PROVE  PutLength(a, n) \in Arrays
<1>1. PutLength(a, n) = IF Failed(a) THEN a
                        ELSE IF n >= Modulus THEN Throw(a, "Range")
                        ELSE IF Stops(a, n) = {} THEN CutTo(a, n)
                        ELSE Throw(CutTo(a, Max(Stops(a, n))), "Type")
  BY DEF PutLength, Value
<1>2. n \in 0..(Modulus - 1) \/ n >= Modulus
  BY PlacesHold
<1>3. CASE Stops(a, n) # {} /\ n \in 0..(Modulus - 1)
  <2>1. Stops(a, n) \subseteq 0..(Modulus - 1)
    BY PlacesHold DEF Stops, IsIndex, Arrays, Places
  <2>2. Max(Stops(a, n)) \in 0..(Modulus - 1)
    BY <1>3, <2>1, PlacesHold, Extremes
  <2>3. CutTo(a, Max(Stops(a, n))) \in Arrays
    BY <2>2, CutTyped
  <2> QED BY <1>1, <1>3, <2>3 DEF Arrays, Throw
<1> QED BY <1>1, <1>2, <1>3, CutTyped DEF Arrays, Throw

\* So that the array is one whenever a callback returns.
LEMMA EffectsTyped ==
  ASSUME array \in Arrays, NEW b \in Effects(array)
  PROVE  b \in Arrays
BY PlacesHold, PutTyped, DeleteTyped, PutLengthTyped DEF Effects

-----------------------------------------------------------------------------
(* every, some, forEach, map, filter, reduce and reduceRight               *)

\* What the loop has been past, and of that what no callback has changed.
Passed == IF Backwards THEN (loop.k + 1)..(start.len - 1) ELSE 0..(loop.k - 1)
Untouched == Passed \ touched
Visited == {visits[n].k : n \in DOMAIN visits}
Bare == Folding /\ call.initial = <<>>

\* The elements that were passed and not visited.
Missed == {i \in Untouched : Has(start, i)} \ Visited

Positions ==
  /\ loop = [size |-> loop.size, k |-> loop.k, acc |-> loop.acc]
  /\ loop.size = start.len
  /\ loop.k \in -1..start.len
  /\ IF Backwards THEN loop.k < start.len ELSE loop.k >= 0

\* What no callback has changed is as it was at the call.
Left == \A i \in Places \ touched : array.at[i] = start.at[i]

Visits ==
  /\ visits \in Seq([k : Int, v : Elements, yes : BOOLEAN])
  /\ \A n \in DOMAIN visits :
       /\ visits[n].k \in Passed
       /\ visits[n].k \notin touched => visits[n].v = start.at[visits[n].k]
  /\ \A m, n \in DOMAIN visits : m < n =>
       IF Backwards THEN visits[m].k > visits[n].k ELSE visits[m].k < visits[n].k

\* Only the element that stands in for an initial value is not visited.
Coverage ==
  /\ Missed # {} => Bare /\ loop.acc # <<>>
  /\ \A i, j \in Missed : i = j

AccOfMap ==
  /\ loop.acc \in Seq(Elements \cup {Hole})
  /\ Len(loop.acc) <= loop.k
  /\ \A i \in Untouched : IF i < Len(loop.acc) THEN loop.acc[i + 1] = start.at[i]
                           ELSE start.at[i] = Hole

Accepted == {n \in DOMAIN visits : visits[n].yes}
AccOfFilter ==
  /\ loop.acc \in Seq(Elements)
  /\ Len(loop.acc) = Cardinality(Accepted)
  /\ \A n \in Accepted : loop.acc[Cardinality({m \in Accepted : m <= n})] = visits[n].v

AccOfFold ==
  /\ loop.acc \in Seq(Elements)
  /\ LET given == [n \in DOMAIN visits |-> visits[n].v]
     IN IF call.initial # <<>> THEN loop.acc = call.initial \o given
        ELSE IF loop.acc = <<>> THEN visits = <<>> /\ array = start
        ELSE Tail(loop.acc) = given

Accumulator ==
  /\ call.fn = "map" => AccOfMap
  /\ call.fn = "filter" => AccOfFilter
  /\ Folding => AccOfFold

LoopInv ==
  call.fn \in Iterating =>
    /\ start \in Arrays /\ start.error = "none"
    /\ Folding => call.initial \in Seq(Elements)
    /\ stage = "call" => array = start /\ visits = <<>> /\ touched = {}
    /\ stage = "loop" => /\ array \in Arrays
                         /\ Positions /\ Left /\ Visits /\ Coverage /\ Accumulator
    /\ LoopsMatchES5

\* The next place lies behind those passed, in the direction of the loop.
LEMMA Advance ==
  ASSUME start \in Arrays, Positions, ~AtEnd, NEW a,
         loop' = [loop EXCEPT !.k = Onward, !.acc = a],
         UNCHANGED <<start, call>>
  PROVE  /\ Positions' /\ loop'.acc = a
         /\ loop.k \in Places /\ loop.k \in 0..(start.len - 1) /\ loop.k \notin Passed
         /\ Passed' = Passed \cup {loop.k}
         /\ \A p \in Passed : IF Backwards THEN p > loop.k ELSE p < loop.k
         /\ Passed \subseteq 0..(start.len - 1) /\ Backwards' = Backwards
         /\ loop'.k = Onward
<1>1. loop' = [size |-> loop.size, k |-> Onward, acc |-> a]
  BY DEF Positions
<1>2. start.len \in Nat /\ start.len < Modulus
  BY PlacesHold DEF Arrays
<1>3. loop.k \in Int /\ loop.size = start.len
  BY <1>2 DEF Positions
<1>4. Backwards' = Backwards
  BY DEF Backwards
<1>5. PICK n, k : n = start.len /\ k = loop.k
  OBVIOUS
<1>6. /\ k \in 0..(n - 1) /\ k \in Places /\ n \in Nat
      /\ loop' = [size |-> loop'.size, k |-> loop'.k, acc |-> loop'.acc]
      /\ loop'.size = n /\ loop'.k = Onward /\ loop'.acc = a /\ start'.len = n
  <2>1. k \in 0..(n - 1)
    BY <1>2, <1>3, <1>5 DEF Positions, AtEnd, Size
  <2>2. k \in Places /\ n \in Nat
    BY <1>2, <1>5, <2>1, PlacesHold
  <2> HIDE DEF Onward
  <2> QED BY <1>1, <1>3, <1>5, <2>1, <2>2
<1>7. CASE Backwards
  <2> Backwards' = Backwards /\ Backwards'
    BY <1>4, <1>7
  <2>1. Onward = k - 1 /\ loop'.k = k - 1
    BY <1>5, <1>6, <1>7 DEF Onward
  <2>2. Passed = (k + 1)..(n - 1) /\ Passed' = (k - 1 + 1)..(n - 1)
    BY <1>5, <1>6, <1>7, <2>1 DEF Passed
  <2>3. (k - 1 + 1)..(n - 1) = ((k + 1)..(n - 1)) \cup {k}
    BY <1>6
  <2>4. \A p \in (k + 1)..(n - 1) : p > k /\ p \in 0..(n - 1)
    BY <1>6
  <2>5. Positions'
    <3>1. loop'.k \in -1..n /\ loop'.k < n
      BY <1>6, <2>1
    <3> QED BY <1>6, <3>1 DEF Positions
  <2>6. k \notin Passed
    BY <1>6, <2>2
  <2> QED BY <1>4, <1>5, <1>6, <1>7, <2>2, <2>3, <2>4, <2>5, <2>6
<1>8. CASE ~Backwards
  <2> Backwards' = Backwards /\ ~Backwards'
    BY <1>4, <1>8
  <2>1. Onward = k + 1 /\ loop'.k = k + 1
    BY <1>5, <1>6, <1>8 DEF Onward
  <2>2. Passed = 0..(k - 1) /\ Passed' = 0..(k + 1 - 1)
    BY <1>5, <1>6, <1>8, <2>1 DEF Passed
  <2>3. 0..(k + 1 - 1) = (0..(k - 1)) \cup {k}
    BY <1>6
  <2>4. \A p \in 0..(k - 1) : p < k /\ p \in 0..(n - 1)
    BY <1>6
  <2>5. Positions'
    <3>1. loop'.k \in -1..n /\ loop'.k >= 0
      BY <1>6, <2>1
    <3> QED BY <1>6, <3>1 DEF Positions
  <2>6. k \notin Passed
    BY <1>6, <2>2
  <2> QED BY <1>4, <1>5, <1>6, <1>8, <2>2, <2>3, <2>4, <2>5, <2>6
<1> QED BY <1>7, <1>8

\* While a loop runs, nothing is said of its result.
LEMMA NothingYet ==
  ASSUME stage # "done"
  PROVE  LoopsMatchES5
BY DEF LoopsMatchES5, VisitsEveryElement, ResultsOfLoops, Ended

LEMMA InitLoops ==
  ASSUME BInit
  PROVE  LoopInv
<1>1. LoopsMatchES5
  BY NothingYet DEF BInit
<1> QED BY <1>1, StartsAssumption DEF BInit, LoopInv, Folding, Failed

\* A step of a function that calls no script, or of sort, is none of a loop.
LEMMA OtherCalls ==
  ASSUME WithoutScript \/ SortBegin \/ SortRange \/ SortShift \/ SortPlace \/ SortPartition
  PROVE  call.fn \notin Iterating /\ call' = call
<1>1. CASE WithoutScript
  BY <1>1 DEF WithoutScript, Doing, Return, Iterating
<1>2. CASE SortBegin
  BY <1>2 DEF SortBegin, Doing, Return, Resume, Iterating
<1>3. CASE SortRange
  BY <1>3 DEF SortRange, Sorting, Return, Resume, Iterating
<1>4. CASE SortShift
  BY <1>4 DEF SortShift, Sorting, Resume, Iterating
<1>5. CASE SortPlace
  BY <1>5 DEF SortPlace, Sorting, Resume, Iterating
<1>6. CASE SortPartition
  BY <1>6 DEF SortPartition, Sorting, Resume, Iterating
<1> QED BY <1>1, <1>2, <1>3, <1>4, <1>5, <1>6

\* A hole, or what a callback has changed, needs no visit.
LEMMA SkipLoops ==
  ASSUME LoopInv, Skip
  PROVE  LoopInv'
<1>1. /\ call.fn \in Iterating /\ stage = "loop" /\ ~AtEnd /\ array.at[loop.k] = Hole
      /\ UNCHANGED <<array, start, call, visits, touched, effects, result, stage>>
      /\ loop' = [loop EXCEPT !.k = Onward]
  BY DEF Skip, Looping, Has
<1>2. /\ start \in Arrays /\ start.error = "none" /\ array \in Arrays
      /\ Folding => call.initial \in Seq(Elements)
      /\ Positions /\ Left /\ Visits /\ Coverage /\ Accumulator
  BY <1>1 DEF LoopInv
<1>3. loop' = [loop EXCEPT !.k = Onward, !.acc = loop.acc]
  BY <1>1, <1>2 DEF Positions
<1>4. /\ Positions' /\ loop'.acc = loop.acc
      /\ loop.k \in Places /\ loop.k \in 0..(start.len - 1) /\ loop.k \notin Passed
      /\ Passed' = Passed \cup {loop.k}
      /\ \A p \in Passed : IF Backwards THEN p > loop.k ELSE p < loop.k
      /\ Passed \subseteq 0..(start.len - 1) /\ Backwards' = Backwards
      /\ loop'.k = Onward
  BY <1>1, <1>2, <1>3, Advance
<1>5. Left'
  BY <1>1, <1>2 DEF Left
<1>6. Visits'
  BY <1>1, <1>2, <1>4 DEF Visits
<1>7. \A i \in Untouched' : i \in Untouched \/ (i = loop.k /\ start.at[i] = Hole)
  BY <1>1, <1>2, <1>4 DEF Untouched, Left
<1>8. Coverage'
  <2>1. Missed' \subseteq Missed
    BY <1>1, <1>7 DEF Missed, Has, Visited
  <2>2. Bare' = Bare
    BY <1>1 DEF Bare, Folding
  <2> QED BY <1>2, <1>4, <2>1, <2>2 DEF Coverage
<1>9. Accumulator'
  <2>1. ASSUME call.fn = "map" PROVE AccOfMap'
    <3>1. ~Backwards
      BY <2>1 DEF Backwards
    <3>2. AccOfMap
      BY <1>2, <2>1 DEF Accumulator
    <3>3. Len(loop.acc) <= loop.k /\ Len(loop.acc) \in Nat /\ loop.k \in Nat /\ loop'.k = loop.k + 1
      BY <1>4, <3>1, <3>2 DEF AccOfMap, Onward
    <3> QED BY <1>1, <1>4, <1>7, <3>2, <3>3 DEF AccOfMap
  <2>2. ASSUME call.fn = "filter" PROVE AccOfFilter'
    <3>1. AccOfFilter
      BY <1>2, <2>2 DEF Accumulator
    <3> QED BY <1>1, <1>4, <3>1 DEF AccOfFilter, Accepted
  <2>3. ASSUME Folding PROVE AccOfFold'
    <3>1. AccOfFold
      BY <1>2, <2>3 DEF Accumulator
    <3> QED BY <1>1, <1>4, <3>1 DEF AccOfFold
  <2> QED BY <1>1, <2>1, <2>2, <2>3 DEF Accumulator, Folding
<1>10. LoopsMatchES5'
  BY <1>1 DEF LoopsMatchES5, VisitsEveryElement, ResultsOfLoops, Ended
<1> QED BY <1>1, <1>2, <1>4, <1>5, <1>6, <1>8, <1>9, <1>10 DEF LoopInv, Folding

\* What the function was given.
LEMMA GivenIsSeq ==
  ASSUME NEW vs \in Seq([k : Int, v : Elements, yes : BOOLEAN])
  PROVE  /\ [n \in DOMAIN vs |-> vs[n].v] \in Seq(Elements)
         /\ Len([n \in DOMAIN vs |-> vs[n].v]) = Len(vs)
<1> DEFINE g == [n \in DOMAIN vs |-> vs[n].v]
<1>1. DOMAIN vs = 1..Len(vs) /\ Len(vs) \in Nat
  OBVIOUS
<1>2. ASSUME NEW n \in 1..Len(vs) PROVE vs[n].v \in Elements
  <2>1. vs[n] \in [k : Int, v : Elements, yes : BOOLEAN]
    BY <1>1, ElementOfSeq
  <2> QED BY <2>1
<1>3. g \in [1..Len(vs) -> Elements]
  BY <1>1, <1>2
<1> QED BY <1>1, <1>3

\* The first element of reduce stands in for the initial value.
LEMMA FirstLoops ==
  ASSUME LoopInv, FirstElement
  PROVE  LoopInv'
<1> DEFINE v == array.at[loop.k]
<1>1. /\ call.fn \in Iterating /\ stage = "loop" /\ ~AtEnd /\ v # Hole
      /\ Folding /\ loop.acc = <<>>
      /\ UNCHANGED <<array, start, call, visits, touched, effects, result, stage>>
      /\ loop' = [loop EXCEPT !.k = Onward, !.acc = <<v>>]
  BY DEF FirstElement, Looping, Has
<1>2. /\ start \in Arrays /\ start.error = "none" /\ array \in Arrays
      /\ call.initial \in Seq(Elements)
      /\ Positions /\ Left /\ Visits /\ Coverage /\ AccOfFold
  BY <1>1 DEF LoopInv, Accumulator
<1>3. /\ Positions' /\ loop'.acc = <<v>>
      /\ loop.k \in Places /\ loop.k \in 0..(start.len - 1) /\ loop.k \notin Passed
      /\ Passed' = Passed \cup {loop.k}
      /\ \A p \in Passed : IF Backwards THEN p > loop.k ELSE p < loop.k
      /\ Passed \subseteq 0..(start.len - 1) /\ Backwards' = Backwards
      /\ loop'.k = Onward
  BY <1>1, <1>2, Advance
<1>4. v \in Elements
  BY <1>1, <1>2, <1>3 DEF Arrays
<1>5. call.initial = <<>> /\ visits = <<>>
  <2>1. ASSUME call.initial # <<>> PROVE FALSE
    <3>1. call.initial \o [n \in DOMAIN visits |-> visits[n].v] = <<>>
      BY <1>1, <1>2, <2>1 DEF AccOfFold
    <3>2. [n \in DOMAIN visits |-> visits[n].v] \in Seq(Elements)
      BY <1>2, GivenIsSeq DEF Visits
    <3> QED BY <1>2, <2>1, <3>1, <3>2
  <2> QED BY <1>1, <1>2, <2>1 DEF AccOfFold
<1>6. Left'
  BY <1>1, <1>2 DEF Left
<1>7. Visits'
  BY <1>1, <1>2, <1>3 DEF Visits
<1>8. Coverage'
  <2>1. Missed = {}
    BY <1>1, <1>2 DEF Coverage
  <2>2. \A i \in Missed' : i = loop.k
    BY <1>1, <1>3, <2>1 DEF Missed, Untouched, Has, Visited
  <2>3. Bare' /\ loop'.acc # <<>>
    BY <1>1, <1>3, <1>4, <1>5 DEF Bare, Folding
  <2> QED BY <2>2, <2>3 DEF Coverage
<1>9. AccOfFold'
  <2>1. Tail(<<v>>) = <<>> /\ <<v>> \in Seq(Elements)
    BY <1>4
  <2>2. [n \in DOMAIN visits |-> visits[n].v] = <<>>
    BY <1>5
  <2> QED BY <1>1, <1>3, <1>5, <2>1, <2>2 DEF AccOfFold
<1>10. LoopsMatchES5'
  BY <1>1 DEF LoopsMatchES5, VisitsEveryElement, ResultsOfLoops, Ended
<1>11. Accumulator'
  BY <1>1, <1>9 DEF Accumulator, Folding
<1> QED BY <1>1, <1>2, <1>3, <1>6, <1>7, <1>8, <1>10, <1>11 DEF LoopInv, Folding

\* One more is visited, whatever the callback does.
LEMMA VisitLoops ==
  ASSUME LoopInv, Visit
  PROVE  LoopInv'
<1> DEFINE k == loop.k
           v == array.at[loop.k]
<1>1. PICK after \in Effects(array), yes \in BOOLEAN :
        /\ array' = after
        /\ touched' = touched \cup {i \in Places : after.at[i] # array.at[i]}
        /\ visits' = Append(visits, [k |-> k, v |-> v, yes |-> yes])
        /\ loop' = [loop EXCEPT !.k = Onward, !.acc = Accumulated(k, v, after, yes)]
        /\ stage' = IF Satisfied(yes) THEN "done" ELSE "loop"
        /\ result' = IF Satisfied(yes) THEN yes ELSE result
        /\ UNCHANGED <<start, call>>
  BY DEF Visit
<1>2. /\ call.fn \in Iterating /\ stage = "loop" /\ ~AtEnd /\ v # Hole
      /\ ~(Folding /\ loop.acc = <<>>)
  BY DEF Visit, Looping, Has
<1>3. /\ start \in Arrays /\ start.error = "none" /\ array \in Arrays
      /\ Folding => call.initial \in Seq(Elements)
      /\ Positions /\ Left /\ Visits /\ Coverage /\ Accumulator
  BY <1>2 DEF LoopInv
<1> DEFINE e == [k |-> k, v |-> v, yes |-> yes]
           acc == Accumulated(k, v, after, yes)
<1>4. /\ Positions' /\ loop'.acc = acc
      /\ k \in Places /\ k \in 0..(start.len - 1) /\ k \notin Passed
      /\ Passed' = Passed \cup {k}
      /\ \A p \in Passed : IF Backwards THEN p > k ELSE p < k
      /\ Passed \subseteq 0..(start.len - 1) /\ Backwards' = Backwards
      /\ loop'.k = Onward
  BY <1>1, <1>2, <1>3, Advance
<1>5. v \in Elements /\ after \in Arrays
  BY <1>1, <1>2, <1>3, <1>4, EffectsTyped DEF Arrays
<1>6. Left'
  BY <1>1, <1>3 DEF Left
<1>7. /\ e \in [k : Int, v : Elements, yes : BOOLEAN]
      /\ visits' \in Seq([k : Int, v : Elements, yes : BOOLEAN])
      /\ Len(visits') = Len(visits) + 1 /\ visits'[Len(visits) + 1] = e
      /\ \A n \in DOMAIN visits : visits'[n] = visits[n]
      /\ DOMAIN visits = 1..Len(visits) /\ DOMAIN visits' = 1..(Len(visits) + 1)
      /\ Len(visits) \in Nat
  BY <1>1, <1>3, <1>4, <1>5 DEF Visits
<1>8. Visits'
  <2>1. ASSUME NEW n \in DOMAIN visits'
        PROVE  /\ visits'[n].k \in Passed'
               /\ visits'[n].k \notin touched' => visits'[n].v = start.at[visits'[n].k]
    <3>1. CASE n = Len(visits) + 1
      <4>1. k \notin touched => v = start.at[k]
        BY <1>3, <1>4 DEF Left
      <4>2. visits'[n].k = k /\ visits'[n].v = v
        BY <1>7, <3>1
      <4> HIDE DEF k, v
      <4> QED BY <1>1, <1>4, <4>1, <4>2
    <3>2. CASE n \in DOMAIN visits
      BY <1>1, <1>3, <1>4, <1>7, <3>2 DEF Visits
    <3> QED BY <1>7, <2>1, <3>1, <3>2
  <2>2. ASSUME NEW m \in DOMAIN visits', NEW n \in DOMAIN visits', m < n
        PROVE  IF Backwards THEN visits'[m].k > visits'[n].k ELSE visits'[m].k < visits'[n].k
    <3>1. m \in DOMAIN visits
      BY <1>7, <2>2
    <3>2. CASE n = Len(visits) + 1
      <4>1. visits'[n].k = k /\ visits'[m] = visits[m] /\ visits[m].k \in Passed
        BY <1>3, <1>7, <3>1, <3>2 DEF Visits
      <4> QED BY <1>4, <4>1
    <3>3. CASE n \in DOMAIN visits
      BY <1>3, <1>7, <2>2, <3>1, <3>3 DEF Visits
    <3> QED BY <1>7, <2>2, <3>2, <3>3
  <2> QED BY <1>1, <1>4, <1>7, <2>1, <2>2 DEF Visits
<1> HIDE DEF e, acc
<1>9. Visited' = Visited \cup {k}
  BY <1>7 DEF Visited, e
<1>10. \A i \in Untouched' : i \in Untouched \/ i = k
  BY <1>1, <1>4 DEF Untouched
<1>11. Coverage'
  <2>1. Missed' \subseteq Missed
    BY <1>1, <1>9, <1>10 DEF Missed, Has
  <2>2. Bare' = Bare /\ (Bare => loop'.acc # <<>>)
    <3>1. ASSUME Bare PROVE acc # <<>>
      <4>1. AccOfFold /\ Folding
        BY <1>3, <3>1 DEF Accumulator, Bare
      <4>2. loop.acc \in Seq(Elements) /\ acc = Append(loop.acc, v)
        BY <4>1 DEF AccOfFold, acc, Accumulated, Folding
      <4> QED BY <1>5, <4>2
    <3> QED BY <1>1, <1>4, <3>1 DEF Bare, Folding
  <2> QED BY <1>3, <2>1, <2>2 DEF Coverage
<1>12. ASSUME call.fn = "map" PROVE AccOfMap'
  <2>1. AccOfMap /\ ~Backwards
    BY <1>3, <1>12 DEF Accumulator, Backwards
  <2>2. k \in Nat /\ loop'.k = k + 1 /\ Passed = 0..(k - 1)
    BY <1>4, <2>1 DEF Onward, Passed
  <2>3. acc = [n \in 1..(k + 1) |-> IF n = k + 1 THEN v
                                    ELSE IF n \in DOMAIN loop.acc THEN loop.acc[n] ELSE Hole]
    BY <1>12 DEF acc, Accumulated, Mapped, Folding
  <2>4. PICK old : old = loop.acc
    OBVIOUS
  <2>5. /\ old \in Seq(Elements \cup {Hole}) /\ DOMAIN old = 1..Len(old)
        /\ Len(old) \in Nat /\ Len(old) <= k
    BY <2>1, <2>4 DEF AccOfMap
  <2>6. acc \in [1..(k + 1) -> Elements \cup {Hole}]
    BY <1>5, <2>3, <2>4, <2>5
  <2> HIDE DEF k, v
  <2>7. acc \in Seq(Elements \cup {Hole}) /\ Len(acc) = k + 1
    BY <2>2, <2>6
  <2>8. ASSUME NEW i \in Untouched' PROVE i < k + 1 /\ acc[i + 1] = start.at[i]
    <3>1. CASE i = k
      <4>1. start.at[k] = v
        BY <1>1, <1>3, <1>4, <2>8, <3>1 DEF Left, Untouched, v, k
      <4>2. acc[k + 1] = v
        BY <2>2, <2>3
      <4> QED BY <2>2, <3>1, <4>1, <4>2
    <3>2. CASE i \in Untouched
      <4>1. i \in 0..(k - 1) /\ i + 1 \in 1..k
        BY <2>2, <3>2 DEF Untouched
      <4>2. IF i < Len(old) THEN old[i + 1] = start.at[i] ELSE start.at[i] = Hole
        BY <2>1, <2>4, <3>2 DEF AccOfMap
      <4>3. acc[i + 1] = IF i + 1 \in DOMAIN old THEN old[i + 1] ELSE Hole
        BY <2>2, <2>3, <2>4, <4>1
      <4>4. i + 1 \in DOMAIN old <=> i < Len(old)
        BY <2>5, <4>1
      <4> QED BY <2>2, <4>1, <4>2, <4>3, <4>4
    <3> QED BY <1>10, <2>8, <3>1, <3>2
  <2> QED BY <1>1, <1>4, <2>2, <2>7, <2>8 DEF AccOfMap
<1>13. ASSUME call.fn = "filter" PROVE AccOfFilter'
  <2>1. AccOfFilter
    BY <1>3, <1>13 DEF Accumulator
  <2>2. acc = IF yes THEN Append(loop.acc, v) ELSE loop.acc
    BY <1>13 DEF acc, Accumulated, Kept, Folding
  <2>3. PICK n : n = Len(visits) + 1
    OBVIOUS
  <2>4. /\ n \in Nat /\ DOMAIN visits = 1..(n - 1) /\ DOMAIN visits' = 1..n
        /\ visits'[n].v = v /\ visits'[n].yes = yes
    BY <1>7, <2>3 DEF e
  <2>5. IsFiniteSet(Accepted) /\ Accepted \subseteq 1..(n - 1) /\ Cardinality(Accepted) \in Nat
    <3>1. Accepted \subseteq 1..(n - 1)
      BY <2>4 DEF Accepted
    <3>2. IsFiniteSet(1..(n - 1))
      BY <2>4, FS_Interval
    <3> QED BY <3>1, <3>2, FS_Subset, FS_CardinalityType
  <2>6. Accepted' = IF yes THEN Accepted \cup {n} ELSE Accepted
    <3>1. \A m \in 1..(n - 1) : visits'[m].yes = visits[m].yes
      BY <1>7, <2>4
    <3>2. Accepted' = {m \in 1..n : visits'[m].yes} /\ Accepted = {m \in 1..(n - 1) : visits[m].yes}
      BY <2>4 DEF Accepted
    <3>3. n \in 1..n /\ n \notin 1..(n - 1) /\ 1..n = 1..(n - 1) \cup {n}
      BY <1>7, <2>3
    <3> QED BY <2>4, <3>1, <3>2, <3>3
  <2> DEFINE rank(m) == Cardinality({x \in Accepted : x <= m})
  <2>7. ASSUME NEW m \in Accepted PROVE rank(m) \in 1..Cardinality(Accepted)
    <3>1. PICK S : S = {x \in Accepted : x <= m}
      OBVIOUS
    <3>2. m \in S /\ S \subseteq Accepted
      BY <2>5, <3>1
    <3>3. /\ Cardinality(S) \in Nat /\ Cardinality(S) <= Cardinality(Accepted)
          /\ IsFiniteSet(S) /\ Cardinality(S) # 0
      BY <2>5, <3>2, FS_Subset, FS_CardinalityType, FS_EmptySet
    <3> QED BY <2>5, <3>1, <3>3
  <2>8. CASE yes
    <3>1. \A m \in Accepted : {x \in Accepted' : x <= m} = {x \in Accepted : x <= m}
      BY <2>4, <2>5, <2>6, <2>8
    <3>2. {x \in Accepted' : x <= n} = Accepted'
      <4>1. \A x \in Accepted' : x <= n
        BY <2>4, <2>5, <2>6, <2>8
      <4> QED BY <4>1
    <3>3. Cardinality(Accepted') = Cardinality(Accepted) + 1
      <4>1. n \notin Accepted
        BY <2>4, <2>5
      <4> QED BY <2>5, <2>6, <2>8, <4>1, FS_AddElement
    <3>4. PICK old : old = loop.acc
      OBVIOUS
    <3>5. old \in Seq(Elements) /\ Len(old) = Cardinality(Accepted)
      BY <2>1, <3>4 DEF AccOfFilter
    <3> HIDE DEF v
    <3>6. /\ acc = Append(old, v) /\ acc \in Seq(Elements) /\ Len(acc) = Len(old) + 1
          /\ acc[Len(old) + 1] = v /\ \A i \in 1..Len(old) : acc[i] = old[i]
      BY <1>5, <2>2, <2>8, <3>4, <3>5
    <3>7. ASSUME NEW m \in Accepted'
          PROVE acc[Cardinality({x \in Accepted' : x <= m})] = visits'[m].v
      <4>1. CASE m = n
        BY <2>4, <3>2, <3>3, <3>5, <3>6, <4>1
      <4>2. CASE m \in Accepted
        <5>1. old[rank(m)] = visits[m].v /\ visits'[m] = visits[m]
          BY <1>7, <2>1, <3>4, <4>2 DEF AccOfFilter, Accepted
        <5>2. acc[rank(m)] = old[rank(m)]
          BY <2>7, <3>5, <3>6, <4>2
        <5> QED BY <3>1, <4>2, <5>1, <5>2
      <4> QED BY <2>6, <2>8, <3>7, <4>1, <4>2
    <3> QED BY <1>4, <3>3, <3>5, <3>6, <3>7 DEF AccOfFilter
  <2>9. CASE ~yes
    <3>1. acc = loop.acc /\ Accepted' = Accepted
      BY <2>2, <2>6, <2>9
    <3>2. \A m \in Accepted : visits'[m] = visits[m]
      BY <1>7 DEF Accepted
    <3>3. AccOfFilter
      BY <1>4, <2>1
    <3>4. PICK a, A : a = loop.acc /\ A = Accepted
      OBVIOUS
    <3>5. loop'.acc = a /\ Accepted' = A
      BY <3>1, <3>4, <1>4
    <3> QED BY <3>2, <3>3, <3>4, <3>5 DEF AccOfFilter
  <2> QED BY <2>8, <2>9
<1>14. ASSUME Folding PROVE AccOfFold'
  <2>1. AccOfFold /\ call.initial \in Seq(Elements)
    BY <1>3, <1>14 DEF Accumulator
  <2>2. acc = Append(loop.acc, v) /\ loop.acc \in Seq(Elements) /\ loop.acc # <<>>
    BY <1>2, <1>14, <2>1 DEF acc, Accumulated, Folding, AccOfFold
  <2>3. PICK old : old = loop.acc
    OBVIOUS
  <2>4. PICK g : g = [n \in DOMAIN visits |-> visits[n].v]
    OBVIOUS
  <2>5. g \in Seq(Elements) /\ Len(g) = Len(visits)
    BY <1>3, <2>4, GivenIsSeq DEF Visits
  <2>6. [n \in DOMAIN visits' |-> visits'[n].v] = Append(g, v)
    <3>1. PICK h : h = [n \in DOMAIN visits' |-> visits'[n].v]
      OBVIOUS
    <3>2. h \in Seq(Elements) /\ Len(h) = Len(visits) + 1
      <4>1. PICK vs : vs = visits'
        OBVIOUS
      <4> QED BY <1>7, <3>1, <4>1, GivenIsSeq
    <3>3. ASSUME NEW n \in 1..Len(visits) PROVE h[n] = g[n]
      <4>1. n \in DOMAIN visits /\ n \in DOMAIN visits'
        BY <1>7
      <4> QED BY <1>7, <2>4, <3>1, <4>1
    <3>4. h[Len(visits) + 1] = v
      <4>1. Len(visits) + 1 \in DOMAIN visits'
        BY <1>7
      <4> QED BY <1>7, <3>1, <4>1 DEF e
    <3> HIDE DEF v
    <3>5. PICK t : t = Append(g, v)
      OBVIOUS
    <3>6. /\ t \in Seq(Elements) /\ Len(t) = Len(visits) + 1
          /\ t[Len(visits) + 1] = v
          /\ \A n \in 1..Len(visits) : t[n] = g[n]
      BY <1>5, <1>7, <2>5, <3>5
    <3>7. \A n \in 1..(Len(visits) + 1) : h[n] = t[n]
      BY <1>7, <3>3, <3>4, <3>6
    <3>8. h = t
      BY <3>2, <3>6, <3>7, SeqEqual
    <3> QED BY <3>1, <3>5, <3>8
  <2> HIDE DEF v
  <2>7. CASE call.initial # <<>>
    <3>1. old = call.initial \o g
      BY <2>1, <2>3, <2>4, <2>7 DEF AccOfFold
    <3>2. Append(call.initial \o g, v) = call.initial \o Append(g, v)
      <4>1. /\ call.initial \in Seq(Elements) /\ g \in Seq(Elements) /\ v \in Elements
        BY <1>5, <2>1, <2>5
      <4>2. PICK c : c = call.initial
        OBVIOUS
      <4>3. c \in Seq(Elements)
        BY <4>1, <4>2
      <4>4. g \in Seq(Elements)
        BY <4>1
      <4>5. PICK w \in Elements : w = v
        BY <4>1
      <4>6. Append(c \o g, w) = c \o Append(g, w)
        <5>1. <<w>> \in Seq(Elements)
          BY <4>5
        <5>2. (c \o g) \o <<w>> = c \o (g \o <<w>>)
          BY <4>3, <4>4, <5>1, ConcatAssociative
        <5>3. c \o g \in Seq(Elements)
          BY <4>3, <4>4, ConcatProperties
        <5>4. Append(g, w) = g \o <<w>>
          BY <4>4, AppendIsConcat
        <5>5. Append(c \o g, w) = (c \o g) \o <<w>>
          BY <5>3, AppendIsConcat
        <5> QED BY <5>2, <5>4, <5>5
      <4> QED BY <4>2, <4>5, <4>6
    <3>3. acc \in Seq(Elements)
      BY <1>5, <2>2
    <3> QED BY <1>1, <1>4, <2>2, <2>3, <2>6, <2>7, <3>1, <3>2, <3>3 DEF AccOfFold
  <2>8. CASE call.initial = <<>>
    <3>1. Tail(old) = g
      BY <2>1, <2>2, <2>3, <2>4, <2>8 DEF AccOfFold
    <3>2. Tail(Append(old, v)) = Append(Tail(old), v) /\ Append(old, v) # <<>>
      BY <1>5, <2>2, <2>3
    <3>3. acc \in Seq(Elements)
      BY <1>5, <2>2
    <3> QED BY <1>1, <1>4, <2>2, <2>3, <2>6, <2>8, <3>1, <3>2, <3>3 DEF AccOfFold
  <2> QED BY <2>7, <2>8
<1>15. Accumulator'
  BY <1>1, <1>12, <1>13, <1>14 DEF Accumulator, Folding
<1>16. LoopsMatchES5'
  <2>1. CASE Satisfied(yes)
    <3>1. /\ call' = call /\ stage' = "done" /\ result' = yes
          /\ (call.fn = "every" /\ ~yes) \/ (call.fn = "some" /\ yes)
      BY <1>1, <2>1 DEF Satisfied
    <3> QED BY <3>1 DEF LoopsMatchES5, VisitsEveryElement, ResultsOfLoops, Ended
  <2>2. CASE ~Satisfied(yes)
    <3>1. stage' # "done"
      BY <1>1, <2>2
    <3> QED BY <3>1 DEF LoopsMatchES5, VisitsEveryElement, ResultsOfLoops, Ended
  <2> QED BY <2>1, <2>2
<1>17. array' \in Arrays
  BY <1>1, <1>5
<1>18. start' = start /\ call' = call /\ stage' # "call"
  BY <1>1
<1> QED BY <1>3, <1>4, <1>6, <1>8, <1>11, <1>15, <1>16, <1>17, <1>18 DEF LoopInv, Folding

\* A loop starts with nothing visited, unless it fails at once.
LEMMA BeginLoops ==
  ASSUME LoopInv, Begin
  PROVE  LoopInv'
<1>1. /\ stage = "call" /\ call.fn \in Iterating /\ array = start /\ visits = <<>> /\ touched = {}
      /\ start \in Arrays /\ start.error = "none"
      /\ Folding => call.initial \in Seq(Elements)
  BY DEF Begin, LoopInv
<1>2. start.len \in Nat
  BY <1>1, PlacesHold DEF Arrays
<1>3. CASE Folding /\ call.initial = <<>> /\ array.len = 0
  <2>1. /\ array' = Throw(array, "Type") /\ result' = Undefined /\ stage' = "done"
        /\ UNCHANGED <<start, call, loop, visits, touched, effects>>
    BY <1>3 DEF Begin, Return, Returning
  <2>2. Failed(array')
    BY <1>1, <2>1 DEF Failed, Throw, Arrays
  <2>3. LoopsMatchES5'
    <3>1. 0..(start.len - 1) = {} /\ DOMAIN visits = {}
      BY <1>1, <1>3
    <3>2. {i \in 0..(start.len - 1) \ touched : Has(start, i)} \ {visits[n].k : n \in DOMAIN visits} = {}
      BY <3>1
    <3>3. VisitsEveryElement'
      BY <2>1, <3>1, <3>2, FS_EmptySet DEF VisitsEveryElement
    <3>4. ResultsOfLoops'
      BY <2>2 DEF ResultsOfLoops
    <3> QED BY <3>3, <3>4 DEF LoopsMatchES5
  <2> QED BY <1>1, <2>1, <2>3 DEF LoopInv, Folding
<1>4. CASE ~(Folding /\ call.initial = <<>> /\ array.len = 0)
  <2>1. /\ loop' = [size |-> start.len, k |-> IF Backwards THEN start.len - 1 ELSE 0,
                    acc |-> IF Folding THEN call.initial ELSE <<>>]
        /\ stage' = "loop"
        /\ UNCHANGED <<array, start, call, visits, touched, effects, result>>
    BY <1>1, <1>4 DEF Begin, Beginning
  <2>2. Backwards' = Backwards /\ Folding' = Folding
    BY <2>1 DEF Backwards, Folding
  <2>3. Passed' = {}
    BY <1>2, <2>1, <2>2 DEF Passed
  <2>4. Positions'
    BY <1>2, <2>1, <2>2 DEF Positions
  <2>5. Left'
    BY <1>1, <2>1 DEF Left
  <2>6. Visits' /\ DOMAIN visits' = {}
    BY <1>1, <2>1 DEF Visits
  <2>7. Coverage'
    BY <2>3 DEF Coverage, Missed, Untouched
  <2>8. Accumulator'
    <3>1. call.fn = "map" => AccOfMap'
      <4> SUFFICES ASSUME call.fn = "map" PROVE AccOfMap'
        OBVIOUS
      <4>1. loop'.acc = <<>> /\ loop'.k = 0
        BY <2>1 DEF Folding, Backwards
      <4>2. Untouched' = {}
        BY <2>3 DEF Untouched
      <4>3. <<>> \in Seq(Elements \cup {Hole}) /\ Len(<<>>) = 0
        OBVIOUS
      <4>4. \A i \in Untouched' : FALSE
        BY <4>2
      <4> QED BY <4>1, <4>3, <4>4 DEF AccOfMap
    <3>2. call.fn = "filter" => AccOfFilter'
      <4>1. Accepted' = {}
        BY <2>6 DEF Accepted
      <4>2. call.fn = "filter" => loop'.acc = <<>>
        BY <2>1 DEF Folding
      <4>3. <<>> \in Seq(Elements) /\ Len(<<>>) = 0 /\ Cardinality({}) = 0
        BY FS_EmptySet
      <4> QED BY <4>1, <4>2, <4>3 DEF AccOfFilter
    <3>3. Folding => AccOfFold'
      <4>1. [n \in DOMAIN visits' |-> visits'[n].v] = <<>>
        BY <2>6
      <4>2. Folding => loop'.acc = call.initial
        BY <2>1
      <4>3. Folding => call.initial \o <<>> = call.initial
        BY <1>1, ConcatEmptySeq
      <4> QED BY <1>1, <2>1, <4>1, <4>2, <4>3 DEF AccOfFold
    <3> QED BY <2>1, <2>2, <3>1, <3>2, <3>3 DEF Accumulator
  <2>9. LoopsMatchES5'
    BY <2>1 DEF LoopsMatchES5, VisitsEveryElement, ResultsOfLoops, Ended
  <2> QED BY <1>1, <2>1, <2>2, <2>4, <2>5, <2>6, <2>7, <2>8, <2>9 DEF LoopInv
<1> QED BY <1>3, <1>4

\* At the end everything was passed.
LEMMA EndLoops ==
  ASSUME LoopInv, End
  PROVE  LoopInv'
<1>1. /\ call.fn \in Iterating /\ stage = "loop" /\ AtEnd
      /\ start \in Arrays /\ start.error = "none" /\ array \in Arrays
      /\ Folding => call.initial \in Seq(Elements)
      /\ Positions /\ Left /\ Visits /\ Coverage /\ Accumulator
  BY DEF End, Looping, LoopInv
<1>2. start.len \in Nat /\ 0..(start.len - 1) \subseteq Places
  BY <1>1, PlacesHold DEF Arrays
<1>3. Passed = 0..(start.len - 1)
  BY <1>1, <1>2 DEF Passed, Positions, AtEnd, Size
<1> DEFINE failed == Folding /\ loop.acc = <<>>
<1>4. PICK answer : answer = CASE call.fn = "every" -> TRUE
                              [] call.fn = "some" -> FALSE
                              [] call.fn = "map" -> Padded(loop.acc, loop.size)
                              [] OTHER -> loop.acc
  OBVIOUS
<1>5. /\ array' = IF failed THEN Throw(array, "Type") ELSE array
      /\ result' = answer
      /\ stage' = "done"
      /\ UNCHANGED <<start, call, loop, visits, touched, effects>>
  <2>1. PICK ended : ended = IF failed THEN Throw(array, "Type") ELSE array
    OBVIOUS
  <2>2. Return([array |-> ended, value |-> answer])
    BY <1>4, <2>1 DEF End, Returning
  <2> HIDE DEF failed
  <2>3. /\ array' = ended /\ result' = answer /\ stage' = "done"
        /\ UNCHANGED <<start, call, loop, visits, touched, effects>>
    BY <2>2 DEF Return
  <2> QED BY <2>1, <2>3
<1>6. PICK present : present = {i \in 0..(start.len - 1) \ touched : Has(start, i)}
  OBVIOUS
<1>7. present \ Visited = Missed
  BY <1>3, <1>6 DEF Missed, Untouched
<1>8. Cardinality(Missed) <= IF Folding /\ call.initial = <<>> THEN 1 ELSE 0
  <2>1. CASE Missed = {}
    BY <2>1, FS_EmptySet
  <2>2. CASE Missed # {}
    <3>1. PICK i \in Missed : TRUE
      BY <2>2
    <3>2. Missed = {i}
      BY <1>1, <3>1 DEF Coverage
    <3>3. Folding /\ call.initial = <<>>
      BY <1>1, <2>2 DEF Coverage, Bare
    <3>4. Cardinality(Missed) = 1
      BY <3>2, FS_Singleton
    <3> QED BY <3>3, <3>4
  <2> QED BY <2>1, <2>2
<1>9. ASSUME NEW n \in DOMAIN visits
      PROVE  /\ visits[n].k < start.len
             /\ visits[n].k \in present => visits[n].v = start.at[visits[n].k]
  <2>1. visits[n].k \in 0..(start.len - 1)
    BY <1>1, <1>3 DEF Visits
  <2>2. visits[n].k \notin touched => visits[n].v = start.at[visits[n].k]
    BY <1>1 DEF Visits
  <2> QED BY <1>2, <1>6, <2>1, <2>2
<1>10. VisitsEveryElement'
  <2>1. ASSUME NEW m \in DOMAIN visits, NEW n \in DOMAIN visits, m < n
        PROVE  IF Backwards THEN visits[m].k > visits[n].k ELSE visits[m].k < visits[n].k
    BY <1>1, <2>1 DEF Visits
  <2>2. Folding' = Folding /\ Backwards' = Backwards
    BY <1>5 DEF Folding, Backwards
  <2>3. {i \in 0..(start.len - 1) \ touched : Has(start, i)}' = present
    BY <1>5, <1>6 DEF Has
  <2> QED BY <1>5, <1>7, <1>8, <1>9, <2>1, <2>2, <2>3 DEF VisitsEveryElement, Visited
<1>11. ResultsOfLoops'
  <2>1. SUFFICES ASSUME Ended({"map", "filter", "reduce", "reduceRight"})', ~Failed(array')
                 PROVE  ResultsOfLoops'
    BY DEF ResultsOfLoops
  <2>2. CASE call.fn = "map"
    <3>1. AccOfMap
      BY <1>1, <2>2 DEF Accumulator
    <3>2. PICK n, acc : n = start.len /\ acc = loop.acc
      OBVIOUS
    <3>3. acc \in Seq(Elements \cup {Hole}) /\ DOMAIN acc = 1..Len(acc) /\ Len(acc) \in Nat /\ n \in Nat
      BY <1>2, <3>1, <3>2 DEF AccOfMap
    <3>4. answer = [i \in 1..n |-> IF i \in DOMAIN acc THEN acc[i] ELSE Hole]
      BY <1>1, <1>4, <2>2, <3>2 DEF Padded, Positions
    <3>5. Len(answer) = n
      BY <3>3, <3>4
    <3>6. ASSUME NEW i \in 0..(n - 1) \ touched PROVE answer[i + 1] = start.at[i]
      <4>1. IF i < Len(acc) THEN acc[i + 1] = start.at[i] ELSE start.at[i] = Hole
        BY <1>3, <3>1, <3>2, <3>6 DEF AccOfMap, Untouched
      <4>2. answer[i + 1] = IF i + 1 \in DOMAIN acc THEN acc[i + 1] ELSE Hole
        BY <3>3, <3>4, <3>6
      <4>3. i + 1 \in DOMAIN acc <=> i < Len(acc)
        BY <3>3, <3>6
      <4> QED BY <4>1, <4>2, <4>3
    <3>7. /\ start' = start /\ touched' = touched /\ result' = answer
          /\ call'.fn = "map" /\ ~Folding'
      BY <1>5, <2>2 DEF Folding
    <3> QED BY <3>2, <3>5, <3>6, <3>7 DEF ResultsOfLoops
  <2>3. CASE call.fn = "filter"
    <3>1. AccOfFilter
      BY <1>1, <2>3 DEF Accumulator
    <3>2. answer = loop.acc
      BY <1>4, <2>3
    <3>3. /\ Len(result') = Cardinality(Accepted)
          /\ \A n \in Accepted : result'[Cardinality({m \in Accepted : m <= n})] = visits[n].v
      BY <1>5, <3>1, <3>2 DEF AccOfFilter
    <3>4. visits' = visits /\ call'.fn = "filter" /\ ~Folding'
      BY <1>5, <2>3 DEF Folding
    <3> QED BY <3>3, <3>4 DEF ResultsOfLoops, Accepted
  <2>4. CASE Folding
    <3>1. AccOfFold /\ answer = loop.acc
      BY <1>1, <1>4, <2>4 DEF Accumulator, Folding
    <3>2. loop.acc # <<>>
      <4>1. array.error = array.error /\ Failed(Throw(array, "Type"))
        BY <1>1 DEF Failed, Throw, Arrays
      <4> QED BY <1>5, <2>1, <2>4, <4>1
    <3>3. call.fn # "map" /\ call.fn # "filter"
      BY <2>4 DEF Folding
    <3>4. PICK given : given = [n \in DOMAIN visits |-> visits[n].v]
      OBVIOUS
    <3>5. IF call.initial # <<>> THEN loop.acc = call.initial \o given ELSE Tail(loop.acc) = given
      BY <3>1, <3>2, <3>4 DEF AccOfFold
    <3>6. /\ visits' = visits /\ call' = call /\ result' = loop.acc /\ Folding'
          /\ call'.fn # "map" /\ call'.fn # "filter"
      BY <1>5, <2>4, <3>1, <3>3 DEF Folding
    <3>7. (call.initial # <<>> => result' = call.initial \o given)
          /\ (call.initial = <<>> => Tail(result') = given)
      BY <3>5, <3>6
    <3>8. [n \in DOMAIN visits' |-> visits'[n].v] = given
      BY <3>4, <3>6
    <3> QED BY <3>6, <3>7, <3>8 DEF ResultsOfLoops
  <2> QED BY <1>5, <2>1, <2>2, <2>3, <2>4 DEF Ended, Folding
<1> QED BY <1>1, <1>5, <1>10, <1>11 DEF LoopInv, LoopsMatchES5, Folding

LEMMA StepLoops ==
  ASSUME LoopInv, [BNext]_bvars
  PROVE  LoopInv'
<1>1. CASE WithoutScript \/ SortBegin \/ SortRange \/ SortShift \/ SortPlace \/ SortPartition
  BY <1>1, OtherCalls DEF LoopInv
<1>2. CASE UNCHANGED bvars
  <2>1. LoopsMatchES5' <=> LoopsMatchES5
    BY <1>2 DEF bvars, LoopsMatchES5, VisitsEveryElement, ResultsOfLoops, Ended, Folding, Backwards, Has, Failed
  <2>2. Passed' = Passed /\ Untouched' = Untouched /\ Accepted' = Accepted /\ Missed' = Missed
    BY <1>2 DEF bvars, Passed, Untouched, Accepted, Missed, Visited, Has, Backwards
  <2>3. (Positions <=> Positions') /\ (Left <=> Left') /\ (Visits <=> Visits') /\ (Coverage <=> Coverage')
    BY <1>2, <2>2 DEF bvars, Positions, Left, Visits, Coverage, Bare, Folding, Backwards
  <2>4. Accumulator <=> Accumulator'
    BY <1>2, <2>2 DEF bvars, Accumulator, AccOfMap, AccOfFilter, AccOfFold, Folding
  <2> QED BY <1>2, <2>1, <2>3, <2>4 DEF bvars, LoopInv, Folding
<1> QED BY <1>1, <1>2, BeginLoops, SkipLoops, FirstLoops, VisitLoops, EndLoops DEF BNext

\* every, some, forEach, map, filter, reduce and reduceRight visit every element
\* that is there from the start to the visit, once, in order and as it was, and
\* make of the visits what ECMAScript 5 says, whatever the callbacks do to the
\* array (the loops of runtime/array.cc over the length read at the start).
THEOREM LoopsKeepToES5 == BSpec => []LoopsMatchES5
<1>1. BInit => LoopInv
  BY InitLoops
<1>2. LoopInv /\ [BNext]_bvars => LoopInv'
  BY StepLoops
<1>3. LoopInv => LoopsMatchES5
  <2>1. call.fn \notin Iterating => LoopsMatchES5
    BY DEF LoopsMatchES5, VisitsEveryElement, ResultsOfLoops, Ended, Iterating
  <2> QED BY <2>1 DEF LoopInv
<1> QED BY <1>1, <1>2, <1>3, PTL DEF BSpec

-----------------------------------------------------------------------------
(* indexOf and lastIndexOf                                                 *)

\* The first hit among the places looked at.
LEMMA FirstOfPlaces ==
  ASSUME NEW a \in Arrays, NEW x \in Elements, NEW m \in Nat, NEW p \in [1..m -> Places]
  PROVE  LET found == FirstOf(a, x, p).value
         IN IF \A n \in 1..m : a.at[p[n]] # x THEN found = -1
            ELSE \E n \in 1..m : /\ found = p[n] /\ a.at[p[n]] = x
                                 /\ \A h \in 1..m : a.at[p[h]] = x => n <= h
<1> DEFINE hits == {n \in DOMAIN p : Has(a, p[n]) /\ a.at[p[n]] = x}
<1>1. hits = {n \in 1..m : a.at[p[n]] = x}
  BY ArrayAssumption DEF Has
<1>2. FirstOf(a, x, p).value = IF hits = {} THEN -1 ELSE p[Min(hits)]
  BY DEF FirstOf, Returning
<1>3. hits \subseteq 0..m
  BY <1>1
<1>4. CASE hits = {}
  BY <1>1, <1>2, <1>4
<1>5. CASE hits # {}
  <2> HIDE DEF hits
  <2>1. PICK n : n = Min(hits)
    OBVIOUS
  <2>2. n \in hits /\ \A y \in hits : n <= y
    BY <1>3, <1>5, <2>1, Extremes
  <2>3. FirstOf(a, x, p).value = p[n]
    BY <1>2, <1>5, <2>1
  <2>4. n \in 1..m /\ a.at[p[n]] = x /\ \A h \in 1..m : a.at[p[h]] = x => n <= h
    BY <1>1, <2>2
  <2> QED BY <2>3, <2>4
<1> QED BY <1>4, <1>5

\* What is asked of an index of x: the first from a place on, or the last up to it.
FirstFrom(a, x, from, found) ==
  LET hits == {i \in 0..(a.len - 1) : a.at[i] = x /\ i >= from}
  IN IF hits = {} THEN found = -1 ELSE found = Min(hits)
LastUpTo(a, x, from, found) ==
  LET hits == {i \in 0..(a.len - 1) : a.at[i] = x /\ i <= from}
  IN IF hits = {} THEN found = -1 ELSE found = Max(hits)

LEMMA IndexOfFinds ==
  ASSUME NEW a \in Arrays, NEW x \in Elements, NEW from \in Int
  PROVE  FirstFrom(a, x, IF from < 0 THEN a.len + from ELSE from, IndexOf(a, x, from).value)
<1>1. PICK len : len = a.len
  OBVIOUS
<1>2. PICK at : at = a.at
  OBVIOUS
<1>3. len \in Nat /\ 0..(len - 1) \subseteq Places
  BY <1>1, PlacesHold DEF Arrays
<1>4. PICK low : low = IF from < 0 THEN a.len + from ELSE from
  OBVIOUS
<1>5. PICK hits : hits = {i \in 0..(len - 1) : at[i] = x /\ i >= low}
  OBVIOUS
<1>6. SUFFICES IF hits = {} THEN IndexOf(a, x, from).value = -1
               ELSE IndexOf(a, x, from).value = Min(hits)
  BY <1>1, <1>2, <1>4, <1>5 DEF FirstFrom
<1>7. CASE len = 0 \/ from >= len
  <2>1. IndexOf(a, x, from).value = -1
    BY <1>1, <1>7 DEF IndexOf, Returning
  <2>2. hits = {}
    BY <1>1, <1>3, <1>4, <1>5, <1>7
  <2> QED BY <2>1, <2>2
<1>8. CASE ~(len = 0 \/ from >= len)
  <2>1. PICK k : k = IF from >= 0 THEN from ELSE IF len < -from THEN 0 ELSE len + from
    OBVIOUS
  <2>2. k \in 0..(len - 1) /\ \A i \in 0..(len - 1) : i >= low <=> i >= k
    BY <1>1, <1>3, <1>4, <1>8, <2>1
  <2>3. PICK m : m = len - k
    OBVIOUS
  <2>4. PICK p : p = Upwards(k, len - 1)
    OBVIOUS
  <2>5. m \in Nat /\ p = [n \in 1..m |-> k + n - 1]
    BY <1>3, <2>2, <2>3, <2>4 DEF Upwards
  <2>6. \A n \in 1..m : k + n - 1 \in 0..(len - 1) /\ k + n - 1 >= k
    BY <1>3, <2>2, <2>3, <2>5
  <2>7. p \in [1..m -> Places]
    BY <1>3, <2>5, <2>6
  <2>8. IndexOf(a, x, from).value = FirstOf(a, x, p).value
    BY <1>1, <1>8, <2>1, <2>4 DEF IndexOf
  <2>9. PICK found : found = FirstOf(a, x, p).value
    OBVIOUS
  <2>10. IF \A n \in 1..m : at[p[n]] # x THEN found = -1
         ELSE \E n \in 1..m : /\ found = p[n] /\ at[p[n]] = x
                              /\ \A h \in 1..m : at[p[h]] = x => n <= h
    <3>1. m \in Nat /\ p \in [1..m -> Places]
      BY <2>5, <2>7
    <3>2. LET r == FirstOf(a, x, p).value
          IN IF \A n \in 1..m : a.at[p[n]] # x THEN r = -1
             ELSE \E n \in 1..m : /\ r = p[n] /\ a.at[p[n]] = x
                                  /\ \A h \in 1..m : a.at[p[h]] = x => n <= h
      BY <3>1, FirstOfPlaces
    <3> QED BY <1>2, <2>9, <3>2
  <2>11. \A i \in hits : i - k + 1 \in 1..m /\ p[i - k + 1] = i /\ at[i] = x /\ i \in Int
    BY <1>3, <1>5, <2>2, <2>3, <2>5
  <2>12. CASE \A n \in 1..m : at[p[n]] # x
    <3>1. hits = {}
      BY <2>11, <2>12
    <3> QED BY <2>8, <2>9, <2>10, <2>12, <3>1
  <2>13. CASE ~(\A n \in 1..m : at[p[n]] # x)
    <3>1. PICK n \in 1..m : /\ found = p[n] /\ at[p[n]] = x
                            /\ \A h \in 1..m : at[p[h]] = x => n <= h
      BY <2>10, <2>13
    <3>2. found = k + n - 1 /\ found \in 0..(len - 1) /\ found >= low
      BY <2>2, <2>5, <2>6, <3>1
    <3>3. found \in hits
      BY <1>5, <3>1, <3>2
    <3>4. ASSUME NEW i \in hits PROVE found <= i
      <4>1. n <= i - k + 1
        BY <2>11, <3>1
      <4> QED BY <2>2, <2>11, <3>2, <4>1
    <3>5. PICK least : least = Min(hits)
      OBVIOUS
    <3>6. hits \subseteq 0..len
      BY <1>3, <1>5
    <3>7. least \in hits /\ \A i \in hits : least <= i
      BY <1>3, <3>3, <3>5, <3>6, Extremes
    <3>8. found = least
      BY <3>3, <3>4, <3>6, <3>7
    <3> QED BY <2>8, <2>9, <3>3, <3>5, <3>8
  <2> QED BY <2>12, <2>13
<1> QED BY <1>7, <1>8

LEMMA LastIndexOfFinds ==
  ASSUME NEW a \in Arrays, NEW x \in Elements, NEW from \in Int
  PROVE  LastUpTo(a, x, IF from < 0 THEN a.len + from ELSE from, LastIndexOf(a, x, from).value)
<1>1. PICK len : len = a.len
  OBVIOUS
<1>2. PICK at : at = a.at
  OBVIOUS
<1>3. len \in Nat /\ 0..(len - 1) \subseteq Places
  BY <1>1, PlacesHold DEF Arrays
<1>4. PICK high : high = IF from < 0 THEN a.len + from ELSE from
  OBVIOUS
<1>5. PICK hits : hits = {i \in 0..(len - 1) : at[i] = x /\ i <= high}
  OBVIOUS
<1>6. SUFFICES IF hits = {} THEN LastIndexOf(a, x, from).value = -1
               ELSE LastIndexOf(a, x, from).value = Max(hits)
  BY <1>1, <1>2, <1>4, <1>5 DEF LastUpTo
<1>7. CASE len = 0 \/ -from > len
  <2>1. LastIndexOf(a, x, from).value = -1
    BY <1>1, <1>7 DEF LastIndexOf, Returning
  <2>2. hits = {}
    BY <1>1, <1>3, <1>4, <1>5, <1>7
  <2> QED BY <2>1, <2>2
<1>8. CASE ~(len = 0 \/ -from > len)
  <2>1. PICK k : k = IF from < 0 THEN len + from ELSE IF from > len - 1 THEN len - 1 ELSE from
    OBVIOUS
  <2>2. k \in 0..(len - 1) /\ \A i \in 0..(len - 1) : i <= high <=> i <= k
    BY <1>1, <1>3, <1>4, <1>8, <2>1
  <2>3. PICK m : m = k + 1
    OBVIOUS
  <2>4. PICK p : p = Downwards(k, 0)
    OBVIOUS
  <2>5. m \in Nat /\ p = [n \in 1..m |-> k - n + 1]
    <3>1. PICK up : up = Upwards(0, k)
      OBVIOUS
    <3>2. m \in Nat /\ up = [n \in 1..m |-> 0 + n - 1]
      BY <2>2, <2>3, <3>1 DEF Upwards
    <3>3. Len(up) = m
      BY <3>2
    <3>4. p = [n \in 1..m |-> up[m - n + 1]]
      BY <2>4, <3>1, <3>3 DEF Downwards, Reverse
    <3>5. \A n \in 1..m : up[m - n + 1] = k - n + 1
      BY <2>2, <2>3, <3>2
    <3> QED BY <3>2, <3>4, <3>5
  <2>6. \A n \in 1..m : k - n + 1 \in 0..(len - 1) /\ k - n + 1 <= k
    BY <1>3, <2>2, <2>3, <2>5
  <2>7. p \in [1..m -> Places]
    BY <1>3, <2>5, <2>6
  <2>8. LastIndexOf(a, x, from).value = FirstOf(a, x, p).value
    BY <1>1, <1>8, <2>1, <2>4 DEF LastIndexOf
  <2>9. PICK found : found = FirstOf(a, x, p).value
    OBVIOUS
  <2>10. IF \A n \in 1..m : at[p[n]] # x THEN found = -1
         ELSE \E n \in 1..m : /\ found = p[n] /\ at[p[n]] = x
                              /\ \A h \in 1..m : at[p[h]] = x => n <= h
    <3>1. m \in Nat /\ p \in [1..m -> Places]
      BY <2>5, <2>7
    <3>2. LET r == FirstOf(a, x, p).value
          IN IF \A n \in 1..m : a.at[p[n]] # x THEN r = -1
             ELSE \E n \in 1..m : /\ r = p[n] /\ a.at[p[n]] = x
                                  /\ \A h \in 1..m : a.at[p[h]] = x => n <= h
      BY <3>1, FirstOfPlaces
    <3> QED BY <1>2, <2>9, <3>2
  <2>11. \A i \in hits : k - i + 1 \in 1..m /\ p[k - i + 1] = i /\ at[i] = x /\ i \in Int
    BY <1>3, <1>5, <2>2, <2>3, <2>5
  <2>12. CASE \A n \in 1..m : at[p[n]] # x
    <3>1. hits = {}
      BY <2>11, <2>12
    <3> QED BY <2>8, <2>9, <2>10, <2>12, <3>1
  <2>13. CASE ~(\A n \in 1..m : at[p[n]] # x)
    <3>1. PICK n \in 1..m : /\ found = p[n] /\ at[p[n]] = x
                            /\ \A h \in 1..m : at[p[h]] = x => n <= h
      BY <2>10, <2>13
    <3>2. found = k - n + 1 /\ found \in 0..(len - 1) /\ found <= high
      BY <2>2, <2>5, <2>6, <3>1
    <3>3. found \in hits
      BY <1>5, <3>1, <3>2
    <3>4. ASSUME NEW i \in hits PROVE found >= i
      <4>1. n <= k - i + 1
        BY <2>11, <3>1
      <4> QED BY <2>2, <2>11, <3>2, <4>1
    <3>5. PICK greatest : greatest = Max(hits)
      OBVIOUS
    <3>6. hits \subseteq 0..len
      BY <1>3, <1>5
    <3>7. greatest \in hits /\ \A i \in hits : greatest >= i
      BY <1>3, <3>3, <3>5, <3>6, Extremes
    <3>8. found = greatest
      BY <3>3, <3>4, <3>6, <3>7
    <3> QED BY <2>8, <2>9, <3>3, <3>5, <3>8
  <2> QED BY <2>12, <2>13
<1> QED BY <1>7, <1>8

SearchInv ==
  call.fn \in {"indexOf", "lastIndexOf"} =>
    /\ start \in Arrays /\ call.x \in Elements /\ call.from \in Int
    /\ stage \in {"call", "done"} /\ (stage = "call" => array = start)
    /\ SearchesFindTheirs

LEMMA StepSearch ==
  ASSUME SearchInv, [BNext]_bvars
  PROVE  SearchInv'
<1>1. call' = call
  <2>1. CASE Begin \/ Skip \/ FirstElement \/ Visit \/ End
    BY <2>1 DEF Begin, Skip, FirstElement, Visit, End, Return
  <2> QED BY <2>1, OtherCalls DEF BNext, bvars
<1> SUFFICES ASSUME call.fn \in {"indexOf", "lastIndexOf"} PROVE SearchInv'
  BY <1>1 DEF SearchInv
<1> DEFINE Forwards == Doing("indexOf") /\ Return(IndexOf(array, call.x, call.from))
           FromEnd == Doing("lastIndexOf") /\ Return(LastIndexOf(array, call.x, call.from))
<1>2. UNCHANGED bvars \/ Forwards \/ FromEnd
  <2>1. ~(Begin \/ Skip \/ FirstElement \/ Visit \/ End)
    BY DEF Begin, Skip, FirstElement, Visit, End, Looping, Iterating
  <2>2. ~(SortBegin \/ SortRange \/ SortShift \/ SortPlace \/ SortPartition)
    BY DEF SortBegin, SortRange, SortShift, SortPlace, SortPartition, Sorting, Doing
  <2>3. WithoutScript => Forwards \/ FromEnd
    BY DEF WithoutScript, Doing
  <2> QED BY <2>1, <2>2, <2>3 DEF BNext
<1>3. CASE UNCHANGED bvars
  BY <1>3 DEF bvars, SearchInv, SearchesFindTheirs, Ended
<1>4. CASE Forwards
  <2>1. /\ call.fn = "indexOf" /\ stage' = "done" /\ result' = IndexOf(start, call.x, call.from).value
        /\ start' = start /\ start \in Arrays /\ call.x \in Elements /\ call.from \in Int
    BY <1>4 DEF Doing, Return, SearchInv
  <2>2. FirstFrom(start, call.x, IF call.from < 0 THEN start.len + call.from ELSE call.from, result')
    BY <2>1, IndexOfFinds
  <2>3. SearchesFindTheirs'
    BY <1>1, <2>1, <2>2 DEF SearchesFindTheirs, FirstFrom
  <2> QED BY <1>1, <2>1, <2>3 DEF SearchInv
<1>5. CASE FromEnd
  <2>1. /\ call.fn = "lastIndexOf" /\ stage' = "done" /\ result' = LastIndexOf(start, call.x, call.from).value
        /\ start' = start /\ start \in Arrays /\ call.x \in Elements /\ call.from \in Int
    BY <1>5 DEF Doing, Return, SearchInv
  <2>2. LastUpTo(start, call.x, IF call.from < 0 THEN start.len + call.from ELSE call.from, result')
    BY <2>1, LastIndexOfFinds
  <2>3. SearchesFindTheirs'
    BY <1>1, <2>1, <2>2 DEF SearchesFindTheirs, LastUpTo
  <2> QED BY <1>1, <2>1, <2>3 DEF SearchInv
<1> QED BY <1>2, <1>3, <1>4, <1>5

\* indexOf answers with the first place from fromIndex on that has the element,
\* lastIndexOf with the last one up to it, and with -1 when there is none, also
\* for a negative fromIndex and one beyond the ends (ArrayIndexOf and
\* ArrayLastIndexOf of runtime/array.cc).
THEOREM SearchesFind == BSpec => []SearchesFindTheirs
<1>1. BInit => SearchInv
  BY StartsAssumption DEF BInit, SearchInv, SearchesFindTheirs, Ended
<1>2. SearchInv /\ [BNext]_bvars => SearchInv'
  BY StepSearch
<1>3. SearchInv => SearchesFindTheirs
  BY DEF SearchInv, SearchesFindTheirs, Ended
<1> QED BY <1>1, <1>2, <1>3, PTL DEF BSpec

-----------------------------------------------------------------------------
(* sort                                                                    *)

\* A power of two that is at least n: a set has as many members as subsets of
\* one member.
LEMMA PowerAbove ==
  ASSUME NEW n \in Nat
  PROVE  2^n \in Nat /\ 2^n >= n
<1> DEFINE S == 1..n
           single == [i \in S |-> {i}]
<1>1. IsFiniteSet(S) /\ Cardinality(S) = n
  <2>1. IsFiniteSet(S) /\ Cardinality(S) = IF 1 > n THEN 0 ELSE n - 1 + 1
    BY FS_Interval
  <2> QED BY <2>1
<1>2. single \in Injection(S, SUBSET S)
  BY DEF Injection, IsInjective
<1> HIDE DEF S, single
<1>3. IsFiniteSet(SUBSET S) /\ Cardinality(SUBSET S) = 2^n
  BY <1>1, FS_SUBSET
<1>4. Cardinality(S) <= Cardinality(SUBSET S) /\ Cardinality(SUBSET S) \in Nat
  BY <1>2, <1>3, FS_Injection, FS_CardinalityType
<1> QED BY <1>1, <1>3, <1>4

\* Powers of two grow: a subset of 1..j is one of 1..k.
LEMMA PowersUp ==
  ASSUME NEW j \in Nat, NEW k \in Nat, j <= k
  PROVE  2^j <= 2^k
<1>1. /\ IsFiniteSet(1..j) /\ Cardinality(1..j) = j
      /\ IsFiniteSet(1..k) /\ Cardinality(1..k) = k
  <2>1. /\ IsFiniteSet(1..j) /\ Cardinality(1..j) = IF 1 > j THEN 0 ELSE j - 1 + 1
        /\ IsFiniteSet(1..k) /\ Cardinality(1..k) = IF 1 > k THEN 0 ELSE k - 1 + 1
    BY FS_Interval
  <2> QED BY <2>1
<1>2. SUBSET (1..j) \subseteq SUBSET (1..k)
  OBVIOUS
<1>3. /\ Cardinality(SUBSET (1..j)) = 2^j
      /\ IsFiniteSet(SUBSET (1..k)) /\ Cardinality(SUBSET (1..k)) = 2^k
  BY <1>1, FS_SUBSET
<1>4. Cardinality(SUBSET (1..j)) <= Cardinality(SUBSET (1..k))
  BY <1>2, <1>3, FS_Subset
<1> QED BY <1>3, <1>4

\* One more member doubles the number of subsets.
LEMMA PowerDoubles ==
  ASSUME NEW n \in Nat
  PROVE  2^(n + 1) = 2 * 2^n /\ 2^0 = 1
<1> DEFINE Old == SUBSET (1..n)
           New == {S \cup {n + 1} : S \in SUBSET (1..n)}
           grown == [S \in Old |-> S \cup {n + 1}]
<1>1. /\ IsFiniteSet(1..n) /\ Cardinality(1..n) = n
      /\ IsFiniteSet(1..(n + 1)) /\ Cardinality(1..(n + 1)) = n + 1
      /\ IsFiniteSet({}) /\ Cardinality({}) = 0
  <2>1. /\ IsFiniteSet(1..n) /\ Cardinality(1..n) = IF 1 > n THEN 0 ELSE n - 1 + 1
        /\ IsFiniteSet(1..(n + 1)) /\ Cardinality(1..(n + 1)) = IF 1 > n + 1 THEN 0 ELSE n + 1 - 1 + 1
    BY FS_Interval
  <2> QED BY <2>1, FS_EmptySet
<1>2. /\ IsFiniteSet(Old) /\ Cardinality(Old) = 2^n
      /\ Cardinality(SUBSET (1..(n + 1))) = 2^(n + 1)
      /\ Cardinality(SUBSET {}) = 2^0
  BY <1>1, FS_SUBSET
<1>3. SUBSET {} = {{}} /\ Cardinality({{}}) = 1
  BY FS_Singleton
<1>4. \A S \in Old : n + 1 \notin S
  OBVIOUS
<1>5. SUBSET (1..(n + 1)) = Old \cup New
  <2>1. ASSUME NEW S \in SUBSET (1..(n + 1)) PROVE S \in Old \cup New
    <3>1. S \ {n + 1} \in Old
      OBVIOUS
    <3>2. CASE n + 1 \in S
      <4>1. S = (S \ {n + 1}) \cup {n + 1}
        BY <3>2
      <4> QED BY <3>1, <4>1
    <3>3. CASE n + 1 \notin S
      <4>1. S = S \ {n + 1}
        BY <3>3
      <4> QED BY <3>1, <4>1
    <3> QED BY <3>2, <3>3
  <2>2. ASSUME NEW S \in Old \cup New PROVE S \in SUBSET (1..(n + 1))
    OBVIOUS
  <2> QED BY <2>1, <2>2
<1>6. Old \cap New = {}
  BY <1>4
<1>7. grown \in Bijection(Old, New)
  <2>1. \A S, T \in Old : S \cup {n + 1} = T \cup {n + 1} => S = T
    <3> SUFFICES ASSUME NEW S \in Old, NEW T \in Old, S \cup {n + 1} = T \cup {n + 1} PROVE S = T
      OBVIOUS
    <3>1. S = (S \cup {n + 1}) \ {n + 1} /\ T = (T \cup {n + 1}) \ {n + 1}
      BY <1>4
    <3> QED BY <3>1
  <2>2. grown \in [Old -> New] /\ \A T \in New : \E S \in Old : grown[S] = T
    OBVIOUS
  <2>3. IsInjective(grown)
    BY <2>1 DEF IsInjective
  <2> HIDE DEF Old, New, grown
  <2> QED BY <2>2, <2>3 DEF Bijection, Injection, Surjection
<1> HIDE DEF Old, New, grown
<1>8. IsFiniteSet(New) /\ Cardinality(New) = Cardinality(Old)
  BY <1>2, <1>7, FS_Bijection DEF ExistsBijection
<1>9. Cardinality(Old \cup New) = Cardinality(Old) + Cardinality(New) - Cardinality(Old \cap New)
  BY <1>2, <1>8, FS_Union
<1>10. PICK p, q : p = 2^n /\ q = 2^(n + 1)
  OBVIOUS
<1>11. p \in Nat
  BY <1>10, PowerAbove
<1>12. q = p + p - 0
  BY <1>1, <1>2, <1>5, <1>6, <1>8, <1>9, <1>10
<1>13. 2^0 = 1
  BY <1>2, <1>3
<1> QED BY <1>10, <1>11, <1>12, <1>13

\* A range at a height of the stack is so short that it can be halved onto it.
Widest == IF start.len > 1 THEN start.len - 1 ELSE 1
Wide(l, r) == IF r - l > 1 THEN r - l ELSE 1
Halved(height, l, r) ==
  /\ l \in Nat /\ r \in Int /\ r < start.len
  /\ 2^height * Wide(l, r) <= 2 * Widest

RangesHalved ==
  /\ loop.stack \in Seq(Int \X Int)
  /\ \A n \in DOMAIN loop.stack : Halved(n, loop.stack[n][1], loop.stack[n][2])

Partitioning ==
  /\ loop = [at |-> "partition", stack |-> loop.stack, l |-> loop.l, r |-> loop.r,
             i |-> loop.i, j |-> loop.j, pivot |-> loop.pivot]
  /\ loop.l \in Nat /\ loop.r \in Int /\ loop.r - loop.l >= InsertionLimit
  /\ loop.i \in (loop.l - 1)..(loop.r - 1) /\ loop.j \in (loop.l + 1)..(loop.r + 1)
  /\ Halved(Len(loop.stack) + 1, loop.l, loop.r)

InsertingAt ==
  /\ loop = [at |-> "insert", stack |-> loop.stack, l |-> loop.l, r |-> loop.r,
             i |-> loop.i, j |-> loop.j, t |-> loop.t]
  /\ loop.i \in (loop.l + 1)..loop.r /\ loop.j \in (loop.l - 1)..(loop.i - 1)
  /\ Halved(Len(loop.stack) + 1, loop.l, loop.r)

HeightInv ==
  call.fn = "sort" =>
    /\ start \in Arrays
    /\ stage = "call" => array = start
    /\ stage = "loop" => /\ start.len > 0 /\ RangesHalved
                         /\ loop.at = "partition" => Partitioning
                         /\ loop.at = "insert" => InsertingAt

\* Of two parts of a range, the shorter one is at most half as wide.
LEMMA SplitHalved ==
  ASSUME NEW height \in Nat \ {0}, NEW l, NEW r, NEW i \in l..r,
         start.len \in Nat, Halved(height, l, r), r - l > 1
  PROVE  IF i - l < r - i THEN Halved(height, i, r) /\ Halved(height + 1, l, i - 1)
         ELSE Halved(height, l, i - 1) /\ Halved(height + 1, i, r)
<1>1. PICK p : p = 2^height
  OBVIOUS
<1>2. p \in Nat /\ 2^(height + 1) = 2 * p
  BY <1>1, PowerAbove, PowerDoubles
<1>3. PICK w : w = Widest
  OBVIOUS
<1>4. l \in Nat /\ r \in Int /\ r < start.len /\ p * (r - l) <= 2 * w /\ w \in Nat
  BY <1>1, <1>3 DEF Halved, Wide, Widest
<1>5. \A x \in Nat : x <= r - l => p * x <= 2 * w
  <2>1. PICK d \in Nat : d = r - l
    BY <1>4
  <2>2. p * d <= 2 * w
    BY <1>4, <2>1
  <2>3. ASSUME NEW x \in Nat, x <= d PROVE p * x <= p * d /\ p * x \in Int
    BY <1>2, <2>3
  <2> QED BY <1>2, <1>4, <2>1, <2>2, <2>3
<1>6. \A x \in Nat : 2 * x <= r - l => (2 * p) * x <= 2 * w
  <2> SUFFICES ASSUME NEW x \in Nat, 2 * x <= r - l PROVE (2 * p) * x <= 2 * w
    OBVIOUS
  <2>1. p * (2 * x) <= 2 * w
    BY <1>5
  <2> QED BY <1>2, <2>1
<1>7. CASE i - l < r - i
  <2>1. Wide(i, r) \in Nat /\ Wide(i, r) <= r - l
    BY <1>4 DEF Wide
  <2>2. Wide(l, i - 1) \in Nat /\ 2 * Wide(l, i - 1) <= r - l
    BY <1>4, <1>7 DEF Wide
  <2>3. p * Wide(i, r) <= 2 * w /\ (2 * p) * Wide(l, i - 1) <= 2 * w
    BY <1>5, <1>6, <2>1, <2>2
  <2> QED BY <1>1, <1>2, <1>3, <1>4, <1>7, <2>3 DEF Halved
<1>8. CASE ~(i - l < r - i)
  <2>1. Wide(l, i - 1) \in Nat /\ Wide(l, i - 1) <= r - l
    BY <1>4 DEF Wide
  <2>2. Wide(i, r) \in Nat /\ 2 * Wide(i, r) <= r - l
    BY <1>4, <1>8 DEF Wide
  <2>3. p * Wide(l, i - 1) <= 2 * w /\ (2 * p) * Wide(i, r) <= 2 * w
    BY <1>5, <1>6, <2>1, <2>2
  <2> QED BY <1>1, <1>2, <1>3, <1>4, <1>8, <2>3 DEF Halved
<1> QED BY <1>7, <1>8

\* A stack without its top.
LEMMA TopTaken ==
  ASSUME NEW S, NEW s \in Seq(S), s # <<>>
  PROVE  \E m \in Nat : /\ DOMAIN s = 1..(m + 1) /\ Len(s) = m + 1 /\ Last(s) = s[m + 1]
                        /\ Front(s) \in Seq(S) /\ DOMAIN Front(s) = 1..m /\ Len(Front(s)) = m
                        /\ \A k \in 1..m : Front(s)[k] = s[k]
<1>1. PICK k \in Nat : k = Len(s)
  BY LenProperties
<1>2. k # 0
  BY <1>1, EmptySeq
<1>3. PICK m \in Nat : m + 1 = k
  <2>1. k - 1 \in Nat /\ k - 1 + 1 = k
    BY <1>2
  <2> QED BY <2>1
<1>4. DOMAIN s = 1..(m + 1) /\ Len(s) = m + 1 /\ Last(s) = s[m + 1]
  BY <1>1, <1>3, LenProperties DEF Last
<1>5. PICK f : f = Front(s)
  OBVIOUS
<1>6. f = SubSeq(s, 1, m)
  <2>1. Len(s) - 1 = m
    BY <1>4
  <2> QED BY <1>5, <2>1 DEF Front
<1>7. \A n \in 1..m : s[n] \in S
  BY <1>4, ElementOfSeq
<1>8. /\ f \in Seq(S) /\ Len(f) = IF 1 <= m THEN m - 1 + 1 ELSE 0
      /\ \A n \in 1..(m - 1 + 1) : f[n] = s[1 + n - 1]
  BY <1>6, <1>7, SubSeqProperties
<1>9. Len(f) = m /\ \A n \in 1..m : f[n] = s[n]
  BY <1>8
<1>10. DOMAIN f = 1..m
  BY <1>8, <1>9, LenProperties
<1> QED BY <1>4, <1>5, <1>8, <1>9, <1>10

\* The searches of a partition stay in the range.
LEMMA SearchesInRange ==
  ASSUME Partitioning
  PROVE  FromLeft \in (loop.i + 1)..loop.r /\ FromRight \in loop.l..(loop.j - 1)
<1>1. PICK l, r, i, j : l = loop.l /\ r = loop.r /\ i = loop.i /\ j = loop.j
  OBVIOUS
<1>2. l \in Nat /\ r \in Nat /\ i \in (l - 1)..(r - 1) /\ j \in (l + 1)..(r + 1)
  <2>1. /\ l \in Nat /\ r \in Int /\ r - l >= InsertionLimit
        /\ i \in (l - 1)..(r - 1) /\ j \in (l + 1)..(r + 1)
    BY <1>1 DEF Partitioning
  <2> QED BY <2>1, SortAssumption
<1>3. PICK U : U = {k \in (i + 1)..r : k = r \/ ~PassedFromLeft(array.at[k])}
  OBVIOUS
<1>4. PICK D : D = {k \in l..(j - 1) : k = l \/ ~PassedFromRight(array.at[k])}
  OBVIOUS
<1>5. U \subseteq (i + 1)..r /\ r \in U /\ D \subseteq l..(j - 1) /\ l \in D
  BY <1>2, <1>3, <1>4
<1>6. U \subseteq 0..r /\ D \subseteq 0..(r + 1) /\ r + 1 \in Nat
  BY <1>2, <1>5
<1>7. Min(U) \in U /\ Max(D) \in D
  BY <1>2, <1>5, <1>6, Extremes
<1>8. FromLeft = Min(U) /\ FromRight = Max(D)
  BY <1>1, <1>3, <1>4 DEF FromLeft, FromRight
<1> QED BY <1>1, <1>5, <1>7, <1>8

LEMMA PushedHalved ==
  ASSUME RangesHalved, NEW a \in Int \X Int, NEW b \in Int \X Int,
         Halved(Len(loop.stack) + 1, a[1], a[2]), Halved(Len(loop.stack) + 2, b[1], b[2])
  PROVE  /\ loop.stack \o <<a, b>> \in Seq(Int \X Int)
         /\ \A n \in DOMAIN (loop.stack \o <<a, b>>) :
              Halved(n, (loop.stack \o <<a, b>>)[n][1], (loop.stack \o <<a, b>>)[n][2])
<1>1. PICK s, t : s = loop.stack /\ t = loop.stack \o <<a, b>>
  OBVIOUS
<1>2. s \in Seq(Int \X Int) /\ <<a, b>> \in Seq(Int \X Int) /\ Len(<<a, b>>) = 2
  BY <1>1 DEF RangesHalved
<1>3. PICK m \in Nat : m = Len(s)
  BY <1>2, LenProperties
<1>4. DOMAIN s = 1..m
  BY <1>2, <1>3, LenProperties
<1>5. /\ t \in Seq(Int \X Int) /\ DOMAIN t = 1..(m + 2)
      /\ \A n \in 1..(m + 2) : t[n] = IF n <= m THEN s[n] ELSE <<a, b>>[n - m]
  <2>1. /\ t \in Seq(Int \X Int) /\ Len(t) = Len(s) + 2
        /\ \A n \in 1..(Len(s) + 2) : t[n] = IF n <= Len(s) THEN s[n] ELSE <<a, b>>[n - Len(s)]
    BY <1>1, <1>2, ConcatProperties
  <2>2. Len(t) = m + 2 /\ DOMAIN t = 1..Len(t)
    BY <1>3, <2>1, LenProperties
  <2> QED BY <1>3, <2>1, <2>2
<1>6. ASSUME NEW n \in DOMAIN t PROVE Halved(n, t[n][1], t[n][2])
  <2>1. n \in 1..(m + 2)
    BY <1>5
  <2>2. CASE n <= m
    <3>1. n \in 1..m
      BY <2>1, <2>2
    <3>2. t[n] = s[n] /\ n \in DOMAIN s
      BY <1>4, <1>5, <2>1, <2>2, <3>1
    <3> QED BY <1>1, <3>2 DEF RangesHalved
  <2>3. CASE n = m + 1
    <3>1. n - m = 1 /\ ~(n <= m)
      BY <2>3
    <3>2. t[n] = a
      <4>1. t[n] = <<a, b>>[n - m]
        BY <1>5, <2>1, <3>1
      <4> QED BY <3>1, <4>1
    <3> QED BY <1>1, <1>3, <2>3, <3>2
  <2>4. CASE n = m + 2
    <3>1. n - m = 2 /\ ~(n <= m)
      BY <2>4
    <3>2. t[n] = b
      <4>1. t[n] = <<a, b>>[n - m]
        BY <1>5, <2>1, <3>1
      <4> QED BY <3>1, <4>1
    <3> QED BY <1>1, <1>3, <2>4, <3>2
  <2> QED BY <2>1, <2>2, <2>3, <2>4
<1> QED BY <1>1, <1>5, <1>6

(* A step that keeps the array of the call keeps its ranges short enough. *)
LEMMA HalvedStays ==
  ASSUME start' = start, NEW n, NEW l, NEW r, Halved(n, l, r)
  PROVE  Halved(n, l, r)'
<1>1. Widest' = Widest
  BY DEF Widest
<1>2. Wide(l, r)' = Wide(l, r)
  BY DEF Wide
<1>3. start'.len = start.len
  OBVIOUS
<1>4. l \in Nat /\ r \in Int /\ r < start.len /\ 2^n * Wide(l, r) <= 2 * Widest
  BY DEF Halved
<1> QED BY <1>1, <1>2, <1>3, <1>4 DEF Halved

LEMMA RangesStay ==
  ASSUME RangesHalved, start' = start, loop'.stack = loop.stack
  PROVE  RangesHalved'
<1>1. PICK s : s = loop.stack
  OBVIOUS
<1>2. loop'.stack = s /\ s \in Seq(Int \X Int) /\ \A n \in DOMAIN s : Halved(n, s[n][1], s[n][2])
  BY <1>1 DEF RangesHalved
<1>3. \A n \in DOMAIN s : Halved(n, s[n][1], s[n][2])'
  BY <1>2, HalvedStays
<1> QED BY <1>2, <1>3 DEF RangesHalved

LEMMA BeginSort ==
  ASSUME HeightInv, SortBegin
  PROVE  HeightInv'
<1>1. call.fn = "sort" /\ stage = "call" /\ array = start /\ start \in Arrays
  BY DEF SortBegin, Doing, HeightInv
<1>2. start.len \in Nat
  BY <1>1, PlacesHold DEF Arrays
<1>3. CASE array.len = 0
  BY <1>1, <1>3 DEF SortBegin, Return, HeightInv
<1>4. CASE array.len # 0
  <2>1. /\ loop' = [at |-> "range", stack |-> <<<<0, start.len - 1>>>>]
        /\ UNCHANGED <<start, call>> /\ stage' # "call"
    BY <1>1, <1>4 DEF SortBegin, Resume
  <2>2. start.len > 0
    BY <1>1, <1>2, <1>4
  <2>3. Halved(1, 0, start.len - 1)
    <3>1. 2^1 = 2
      <4>1. 2^(0 + 1) = 2 * 2^0 /\ 2^0 = 1
        BY PowerDoubles
      <4> QED BY <4>1
    <3>2. Wide(0, start.len - 1) = Widest /\ Widest \in Nat
      BY <1>2, <2>2 DEF Wide, Widest
    <3> QED BY <1>2, <3>1, <3>2 DEF Halved
  <2>4. RangesHalved'
    <3>1. Halved(1, 0, start.len - 1)'
      BY <2>1, <2>3 DEF Halved, Widest, Wide
    <3>2. PICK s : s = loop'.stack
      OBVIOUS
    <3>3. s \in Seq(Int \X Int) /\ DOMAIN s = {1} /\ s[1] = <<0, start.len - 1>>
      BY <1>2, <2>1, <3>2
    <3> QED BY <2>1, <3>1, <3>2, <3>3 DEF RangesHalved
  <2> QED BY <1>1, <2>1, <2>2, <2>4 DEF HeightInv
<1> QED BY <1>3, <1>4

LEMMA RangeSort ==
  ASSUME HeightInv, SortRange
  PROVE  HeightInv'
<1>1. /\ call.fn = "sort" /\ stage = "loop" /\ loop.at = "range" /\ start \in Arrays
      /\ start.len > 0 /\ RangesHalved
  BY DEF SortRange, Sorting, HeightInv
<1>2. CASE loop.stack = <<>>
  BY <1>1, <1>2 DEF SortRange, Return, HeightInv
<1>3. CASE loop.stack # <<>>
  <2>1. PICK s : s = loop.stack
    OBVIOUS
  <2>2. PICK rest, l, r : rest = Front(s) /\ l = Last(s)[1] /\ r = Last(s)[2]
    OBVIOUS
  <2>3. PICK p : p = array.at[(l + r) \div 2]
    OBVIOUS
  <2>4. /\ UNCHANGED <<start, call>> /\ stage' # "call"
        /\ loop' = IF l >= r THEN [at |-> "range", stack |-> rest]
                   ELSE IF r - l < InsertionLimit
                   THEN Inserting(array, rest, l, r, l + 1)
                   ELSE [at |-> "partition", stack |-> rest, l |-> l, r |-> r, i |-> l - 1, j |-> r + 1,
                         pivot |-> p]
    BY <1>1, <1>3, <2>1, <2>2, <2>3 DEF SortRange, Resume
  <2>5. PICK m \in Nat : /\ DOMAIN s = 1..(m + 1) /\ Len(s) = m + 1 /\ Last(s) = s[m + 1]
                         /\ rest \in Seq(Int \X Int) /\ DOMAIN rest = 1..m /\ Len(rest) = m
                         /\ \A k \in 1..m : rest[k] = s[k]
    <3>1. PICK S : S = Int \X Int
      OBVIOUS
    <3>2. s \in Seq(S) /\ s # <<>>
      BY <1>1, <1>3, <2>1, <3>1 DEF RangesHalved
    <3>3. PICK m \in Nat : /\ DOMAIN s = 1..(m + 1) /\ Len(s) = m + 1 /\ Last(s) = s[m + 1]
                           /\ Front(s) \in Seq(S) /\ DOMAIN Front(s) = 1..m /\ Len(Front(s)) = m
                           /\ \A k \in 1..m : Front(s)[k] = s[k]
      BY <3>2, TopTaken, Zenon
    <3> QED BY <2>2, <3>1, <3>3
  <2>6. Halved(m + 1, l, r)
    <3>1. m + 1 \in DOMAIN s
      BY <2>5
    <3>2. Halved(m + 1, s[m + 1][1], s[m + 1][2])
      BY <1>1, <2>1, <3>1 DEF RangesHalved
    <3> QED BY <2>2, <2>5, <3>2
  <2>11. RangesHalved'
    <3>1. loop'.stack = rest
      BY <2>4 DEF Inserting
    <3>2. ASSUME NEW n \in DOMAIN rest PROVE Halved(n, rest[n][1], rest[n][2])
      <4>1. n \in 1..m /\ n \in DOMAIN s
        BY <2>5
      <4>2. Halved(n, s[n][1], s[n][2])
        BY <1>1, <2>1, <4>1 DEF RangesHalved
      <4> QED BY <2>5, <4>1, <4>2
    <3> QED BY <2>4, <2>5, <3>1, <3>2 DEF RangesHalved, Halved, Widest, Wide
  <2>9. loop'.at = "partition" => Partitioning'
    <3> SUFFICES ASSUME loop'.at = "partition" PROVE Partitioning'
      OBVIOUS
    <3>0. ~(l >= r) /\ ~(r - l < InsertionLimit)
      BY <2>4 DEF Inserting
    <3>1. /\ loop' = [at |-> "partition", stack |-> rest, l |-> l, r |-> r, i |-> l - 1, j |-> r + 1, pivot |-> p]
          /\ ~(r - l < InsertionLimit)
      BY <2>4, <3>0
    <3>2. l \in Nat /\ r \in Int /\ r - l >= InsertionLimit /\ r > l
      BY <2>6, <3>1, SortAssumption DEF Halved
    <3>3. Halved(Len(rest) + 1, l, r)'
      <4>1. Len(rest) + 1 = m + 1
        BY <2>5
      <4> QED BY <2>4, <2>6, <4>1 DEF Halved, Widest, Wide
    <3>4. /\ loop'.stack = rest /\ loop'.l = l /\ loop'.r = r /\ loop'.i = l - 1 /\ loop'.j = r + 1
          /\ loop'.pivot = p
      BY <3>1
    <3>5. l - 1 \in (l - 1)..(r - 1) /\ r + 1 \in (l + 1)..(r + 1)
      BY <3>2
    <3> QED BY <3>1, <3>2, <3>3, <3>4, <3>5 DEF Partitioning
  <2>10. loop'.at = "insert" => InsertingAt'
    <3> SUFFICES ASSUME loop'.at = "insert" PROVE InsertingAt'
      OBVIOUS
    <3>1. loop' = Inserting(array, rest, l, r, l + 1) /\ l < r
      BY <2>4, <2>6 DEF Halved
    <3>2. PICK k, j, t : k = l + 1 /\ j = k - 1 /\ t = array.at[k]
      OBVIOUS
    <3>3. loop' = [at |-> "insert", stack |-> rest, l |-> l, r |-> r, i |-> k, j |-> j, t |-> t]
      BY <3>1, <3>2 DEF Inserting
    <3>4. k \in (l + 1)..r /\ j \in (l - 1)..(k - 1)
      BY <2>6, <3>1, <3>2 DEF Halved
    <3>5. Halved(Len(rest) + 1, l, r)'
      <4>1. Len(rest) + 1 = m + 1
        BY <2>5
      <4> QED BY <2>4, <2>6, <4>1 DEF Halved, Widest, Wide
    <3>6. /\ loop'.stack = rest /\ loop'.l = l /\ loop'.r = r /\ loop'.i = k /\ loop'.j = j
          /\ loop'.t = t
      BY <3>3
    <3> QED BY <3>3, <3>4, <3>5, <3>6 DEF InsertingAt
  <2> QED BY <1>1, <2>4, <2>9, <2>10, <2>11 DEF HeightInv
<1> QED BY <1>2, <1>3

LEMMA ShiftSort ==
  ASSUME HeightInv, SortShift
  PROVE  HeightInv'
<1>1. /\ call.fn = "sort" /\ stage = "loop" /\ loop.at = "insert" /\ start \in Arrays
      /\ start.len > 0 /\ RangesHalved /\ InsertingAt /\ loop.j >= loop.l
  BY DEF SortShift, GoesOn, Sorting, HeightInv
<1>2. /\ UNCHANGED <<start, call>> /\ stage' # "call"
      /\ loop' = [loop EXCEPT !.j = @ - 1]
  BY <1>1 DEF SortShift, Resume
<1>3. loop' = [at |-> "insert", stack |-> loop.stack, l |-> loop.l, r |-> loop.r,
               i |-> loop.i, j |-> loop.j - 1, t |-> loop.t]
  BY <1>1, <1>2 DEF InsertingAt
<1>4. RangesHalved'
  BY <1>1, <1>2, <1>3, RangesStay
<1>5. /\ loop.i \in (loop.l + 1)..loop.r /\ loop.j - 1 \in (loop.l - 1)..(loop.i - 1)
      /\ Halved(Len(loop.stack) + 1, loop.l, loop.r)
  BY <1>1 DEF InsertingAt, Halved
<1>6. InsertingAt'
  BY <1>2, <1>3, <1>5 DEF InsertingAt, Halved, Widest, Wide
<1> QED BY <1>1, <1>2, <1>3, <1>4, <1>6 DEF HeightInv

LEMMA PlaceSort ==
  ASSUME HeightInv, SortPlace
  PROVE  HeightInv'
<1>1. /\ call.fn = "sort" /\ stage = "loop" /\ loop.at = "insert" /\ start \in Arrays
      /\ start.len > 0 /\ RangesHalved /\ InsertingAt
  BY DEF SortPlace, Sorting, HeightInv
<1>2. PICK placed : placed = IF loop.t = Hole THEN DeleteAt(array, loop.j + 1)
                             ELSE PutAt(array, loop.j + 1, loop.t)
  OBVIOUS
<1>4. /\ UNCHANGED <<start, call>> /\ stage' # "call"
      /\ loop' = IF loop.i = loop.r THEN [at |-> "range", stack |-> loop.stack]
                 ELSE Inserting(placed, loop.stack, loop.l, loop.r, loop.i + 1)
  BY <1>1, <1>2 DEF SortPlace, Resume
<1>5. loop'.stack = loop.stack
  BY <1>4 DEF Inserting
<1>6. RangesHalved'
  BY <1>1, <1>4, <1>5, RangesStay
<1>7. CASE loop.i = loop.r
  BY <1>1, <1>4, <1>6, <1>7 DEF HeightInv
<1>8. CASE loop.i # loop.r
  <2>1. PICK s, l, r, k, j, t : /\ s = loop.stack /\ l = loop.l /\ r = loop.r
                                /\ k = loop.i + 1 /\ j = k - 1 /\ t = placed.at[k]
    OBVIOUS
  <2>2. loop' = [at |-> "insert", stack |-> s, l |-> l, r |-> r, i |-> k, j |-> j, t |-> t]
    BY <1>4, <1>8, <2>1 DEF Inserting
  <2>3. k \in (l + 1)..r /\ j \in (l - 1)..(k - 1) /\ Halved(Len(s) + 1, l, r)
    BY <1>1, <1>8, <2>1 DEF InsertingAt, Halved
  <2>4. Halved(Len(s) + 1, l, r)'
    BY <1>4, <2>3 DEF Halved, Widest, Wide
  <2>5. /\ loop'.stack = s /\ loop'.l = l /\ loop'.r = r /\ loop'.i = k /\ loop'.j = j
        /\ loop'.t = t /\ loop'.at = "insert"
    BY <2>2
  <2>6. InsertingAt'
    BY <2>2, <2>3, <2>4, <2>5 DEF InsertingAt
  <2> QED BY <1>1, <1>4, <1>6, <2>5, <2>6 DEF HeightInv
<1> QED BY <1>7, <1>8

LEMMA PartitionSort ==
  ASSUME HeightInv, SortPartition
  PROVE  HeightInv'
<1>1. /\ call.fn = "sort" /\ stage = "loop" /\ loop.at = "partition" /\ start \in Arrays
      /\ start.len > 0 /\ RangesHalved /\ Partitioning
  BY DEF SortPartition, Sorting, HeightInv
<1>2. PICK i, j, l, r : i = FromLeft /\ j = FromRight /\ l = loop.l /\ r = loop.r
  OBVIOUS
<1>3. /\ i \in (loop.i + 1)..r /\ j \in l..(loop.j - 1) /\ l \in Nat /\ r \in Int /\ r - l > 1
      /\ loop.i \in (l - 1)..(r - 1) /\ loop.j \in (l + 1)..(r + 1)
      /\ Halved(Len(loop.stack) + 1, l, r) /\ Len(loop.stack) \in Nat /\ start.len \in Nat
  <2>1. i \in (loop.i + 1)..r /\ j \in l..(loop.j - 1)
    BY <1>1, <1>2, SearchesInRange
  <2>2. /\ l \in Nat /\ r \in Int /\ r - l >= InsertionLimit
        /\ loop.i \in (l - 1)..(r - 1) /\ loop.j \in (l + 1)..(r + 1)
        /\ Halved(Len(loop.stack) + 1, l, r)
    BY <1>1, <1>2 DEF Partitioning
  <2>3. r - l > 1
    BY <2>2, SortAssumption
  <2>4. Len(loop.stack) \in Nat
    BY <1>1, LenProperties DEF RangesHalved
  <2>5. start.len \in Nat
    BY <1>1, PlacesHold DEF Arrays
  <2> QED BY <2>1, <2>2, <2>3, <2>4, <2>5
<1>4. i \in l..r
  <2>1. PICK k : k = loop.i
    OBVIOUS
  <2>2. i \in (k + 1)..r /\ k \in (l - 1)..(r - 1) /\ l \in Nat /\ r \in Int
    BY <1>3, <2>1
  <2> QED BY <2>2
<1>5. UNCHANGED <<start, call>> /\ stage' # "call"
  BY <1>1 DEF SortPartition, Resume
<1>6. CASE i < j
  <2>1. loop' = [loop EXCEPT !.i = i, !.j = j]
    BY <1>2, <1>6 DEF SortPartition, Resume
  <2>2. loop' = [at |-> "partition", stack |-> loop.stack, l |-> l, r |-> r, i |-> i, j |-> j, pivot |-> loop.pivot]
    BY <1>1, <1>2, <2>1 DEF Partitioning
  <2>3. i \in (l - 1)..(r - 1) /\ j \in (l + 1)..(r + 1)
    <3>1. PICK a, b : a = loop.i /\ b = loop.j
      OBVIOUS
    <3>2. /\ a \in (l - 1)..(r - 1) /\ b \in (l + 1)..(r + 1) /\ l \in Int /\ r \in Int
          /\ i \in (a + 1)..r /\ j \in l..(b - 1)
      BY <1>3, <3>1
    <3> QED BY <1>6, <3>2
  <2>4. RangesHalved'
    BY <1>1, <1>5, <2>2, RangesStay
  <2>5. Halved(Len(loop.stack) + 1, l, r)'
    <3>1. PICK m : m = Len(loop.stack) + 1
      OBVIOUS
    <3>2. Halved(m, l, r)' /\ m = Len(loop'.stack) + 1
      BY <1>3, <1>5, <2>2, <3>1, HalvedStays
    <3>3. loop'.stack = loop.stack
      BY <2>2
    <3> QED BY <1>3, <1>5, <3>1, <3>2, <3>3 DEF Halved, Widest, Wide
  <2>6. Partitioning'
    BY <1>1, <1>2, <1>3, <2>2, <2>3, <2>5 DEF Partitioning
  <2> QED BY <1>1, <1>5, <2>2, <2>4, <2>6 DEF HeightInv
<1>7. CASE ~(i < j) /\ Len(loop.stack) + 2 > StackSize
  <2>1. loop' = loop
    BY <1>2, <1>7 DEF SortPartition, Resume
  <2>2. RangesHalved' /\ Partitioning'
    BY <1>1, <1>5, <2>1 DEF RangesHalved, Partitioning, Halved, Widest, Wide
  <2> QED BY <1>1, <1>5, <2>1, <2>2 DEF HeightInv
<1>8. CASE ~(i < j) /\ ~(Len(loop.stack) + 2 > StackSize)
  <2>1. loop' = [at |-> "range", stack |-> loop.stack \o Split(i)]
    BY <1>2, <1>8 DEF SortPartition, Resume
  <2>2. PICK m \in Nat : m = Len(loop.stack)
    BY <1>3
  <2>3. IF i - l < r - i THEN Halved(m + 1, i, r) /\ Halved(m + 2, l, i - 1)
        ELSE Halved(m + 1, l, i - 1) /\ Halved(m + 2, i, r)
    <3>1. m + 1 \in Nat \ {0} /\ m + 1 + 1 = m + 2
      OBVIOUS
    <3>2. Halved(Len(loop.stack) + 1, l, r)
      BY <1>3
    <3>3. Halved(m + 1, l, r)
      BY <2>2, <3>2
    <3> QED BY <1>3, <1>4, <3>1, <3>3, SplitHalved
  <2>4. PICK a, b : /\ a \in Int \X Int /\ b \in Int \X Int
                    /\ Split(i) = <<a, b>>
                    /\ Halved(m + 1, a[1], a[2]) /\ Halved(m + 2, b[1], b[2])
    <3>1. <<l, i - 1>> \in Int \X Int /\ <<i, r>> \in Int \X Int
      <4>1. l \in Int /\ r \in Int /\ i \in Int /\ i - 1 \in Int
        BY <1>3, <1>4
      <4> QED BY <4>1
    <3>2. Split(i) = IF i - l < r - i THEN <<<<i, r>>, <<l, i - 1>>>> ELSE <<<<l, i - 1>>, <<i, r>>>>
      BY <1>2 DEF Split
    <3>3. CASE i - l < r - i
      <4>1. Halved(m + 1, <<i, r>>[1], <<i, r>>[2]) /\ Halved(m + 2, <<l, i - 1>>[1], <<l, i - 1>>[2])
        BY <2>3, <3>3
      <4> QED BY <3>1, <3>2, <3>3, <4>1
    <3>4. CASE ~(i - l < r - i)
      <4>1. Halved(m + 1, <<l, i - 1>>[1], <<l, i - 1>>[2]) /\ Halved(m + 2, <<i, r>>[1], <<i, r>>[2])
        BY <2>3, <3>4
      <4> QED BY <3>1, <3>2, <3>4, <4>1
    <3> QED BY <3>3, <3>4
  <2>5. PICK t : t = loop.stack \o <<a, b>>
    OBVIOUS
  <2>6. t \in Seq(Int \X Int) /\ \A n \in DOMAIN t : Halved(n, t[n][1], t[n][2])
    BY <1>1, <2>2, <2>4, <2>5, PushedHalved
  <2>7. loop'.stack = t /\ loop'.at = "range"
    BY <2>1, <2>4, <2>5
  <2>8. RangesHalved'
    BY <1>5, <2>6, <2>7 DEF RangesHalved, Halved, Widest, Wide
  <2> QED BY <1>1, <1>5, <2>7, <2>8 DEF HeightInv
<1> QED BY <1>6, <1>7, <1>8

LEMMA StepSort ==
  ASSUME HeightInv, [BNext]_bvars
  PROVE  HeightInv'
<1>1. CASE Begin \/ Skip \/ FirstElement \/ Visit \/ End
  <2>1. call' = call /\ call.fn # "sort"
    BY <1>1 DEF Begin, Skip, FirstElement, Visit, End, Return, Looping, Iterating
  <2> QED BY <2>1 DEF HeightInv
<1>2. CASE WithoutScript
  <2>1. call' = call /\ call.fn # "sort"
    BY <1>2 DEF WithoutScript, Doing, Return
  <2> QED BY <2>1 DEF HeightInv
<1>3. CASE UNCHANGED bvars
  BY <1>3 DEF bvars, HeightInv, RangesHalved, Partitioning, InsertingAt, Halved, Widest, Wide
<1> QED BY <1>1, <1>2, <1>3, BeginSort, RangeSort, ShiftSort, PlaceSort, PartitionSort DEF BNext

\* When a range is halved there is room for both halves.
StackSuffices == Sorting("partition") => Len(loop.stack) + 2 <= StackSize

\* The stack of ranges of sort (ArraySort, lstack and rstack) stays as low as the
\* halving of ranges keeps it, and never runs out of its kStackSize places, for
\* arrays of every length and comparison functions of every kind.
THEOREM SortStackSuffices == BSpec => [](SortStackBound /\ StackSuffices)
<1>1. BInit => HeightInv
  BY StartsAssumption DEF BInit, HeightInv
<1>2. HeightInv /\ [BNext]_bvars => HeightInv'
  BY StepSort
<1>3. HeightInv => SortStackBound /\ StackSuffices
  <2> SUFFICES ASSUME HeightInv, call.fn = "sort", stage = "loop" PROVE SortStackBound /\ StackSuffices
    BY DEF SortStackBound, StackSuffices, Sorting
  <2>1. PICK s, n : s = loop.stack /\ n = start.len
    OBVIOUS
  <2>2. /\ n \in Nat /\ n > 0 /\ n < Modulus /\ RangesHalved /\ Len(s) \in Nat
        /\ DOMAIN s = 1..Len(s)
    BY <2>1, PlacesHold, LenProperties DEF HeightInv, Arrays, RangesHalved
  <2>3. ASSUME NEW h \in Nat, NEW l, NEW r, Halved(h, l, r) PROVE 2^h <= 2 * n
    <3>1. PICK p, w : p = 2^h /\ w = Wide(l, r)
      OBVIOUS
    <3>2. p \in Nat /\ w \in Nat /\ w >= 1 /\ p * w <= 2 * Widest
      BY <2>3, <3>1, PowerAbove DEF Halved, Wide
    <3>3. Widest <= n /\ Widest \in Nat
      BY <2>1, <2>2 DEF Widest
    <3>4. p <= p * w /\ p * w \in Int
      BY <3>2
    <3> QED BY <2>2, <3>1, <3>2, <3>3, <3>4
  <2>4. 2^Len(s) <= 2 * n
    <3>1. CASE Len(s) = 0
      BY <2>2, <3>1, PowerDoubles
    <3>2. CASE Len(s) # 0
      <4>1. Len(s) \in DOMAIN s
        BY <2>2, <3>2
      <4> QED BY <2>1, <2>2, <2>3, <4>1 DEF RangesHalved
    <3> QED BY <3>1, <3>2
  <2>5. ASSUME loop.at = "partition" PROVE Len(s) + 2 <= StackSize
    <3>1. Partitioning
      BY <2>5 DEF HeightInv
    <3>2. PICK h, l, r : h = Len(s) + 1 /\ l = loop.l /\ r = loop.r
      OBVIOUS
    <3>3. Halved(h, l, r) /\ r - l > 1 /\ h \in Nat /\ l \in Nat /\ r \in Int
      <4>1. /\ l \in Nat /\ r \in Int /\ r - l >= InsertionLimit
            /\ Halved(Len(loop.stack) + 1, l, r)
        BY <3>1, <3>2 DEF Partitioning
      <4>2. h \in Nat /\ h = Len(loop.stack) + 1
        BY <2>1, <2>2, <3>2
      <4> QED BY <4>1, <4>2, SortAssumption
    <3>4. PICK p : p = 2^h
      OBVIOUS
    <3>5. p \in Nat /\ p * (r - l) <= 2 * (n - 1)
      <4>1. r < n /\ p * Wide(l, r) <= 2 * Widest /\ p \in Nat
        BY <2>1, <3>3, <3>4, PowerAbove DEF Halved
      <4>2. Wide(l, r) = r - l /\ Widest = n - 1
        BY <2>1, <2>2, <3>3, <4>1 DEF Wide, Widest
      <4> QED BY <4>1, <4>2
    <3>6. p * 2 <= p * (r - l)
      BY <3>3, <3>5
    <3>7. 2^(h + 1) = 2 * p
      BY <3>3, <3>4, PowerDoubles
    <3>8. PICK k \in 0..StackSize : Modulus <= 2^k
      BY SortAssumption
    <3>9. PICK m : m = 2^StackSize
      OBVIOUS
    <3>10. m \in Nat /\ Modulus <= m /\ 2^(StackSize + 1) = 2 * m /\ StackSize \in Nat
      BY <3>8, <3>9, SortAssumption, PowersUp, PowerAbove, PowerDoubles, PlacesHold
    <3>11. ASSUME h > StackSize - 1, h # StackSize - 1 PROVE FALSE
      <4>1. StackSize + 1 <= h + 1
        BY <3>3, <3>10, <3>11
      <4>2. 2^(StackSize + 1) <= 2^(h + 1)
        BY <3>3, <3>10, <4>1, PowersUp
      <4> QED BY <2>2, <3>3, <3>5, <3>6, <3>7, <3>10, <4>2, PlacesHold
    <3> QED BY <2>2, <3>2, <3>3, <3>10, <3>11
  <2> QED BY <2>1, <2>4, <2>5 DEF SortStackBound, StackSuffices, Sorting
<1> QED BY <1>1, <1>2, <1>3, PTL DEF BSpec

-----------------------------------------------------------------------------
(* sort: the elements and their order                                      *)

Slots == Elements \cup {Hole}

\* What may stand left of what.
InOrder == {d \in Slots \X Slots : ~MovesBehind(d[1], d[2])}
Preorder(L) ==
  /\ L \subseteq Slots \X Slots
  /\ \A x, y \in Slots : <<x, y>> \in L \/ <<y, x>> \in L
  /\ \A x, y, z \in Slots : <<x, y>> \in L /\ <<y, z>> \in L => <<x, z>> \in L

SameCounts(n, v, w) ==
  \A x \in Slots : Cardinality({i \in 0..(n - 1) : v[i] = x}) = Cardinality({i \in 0..(n - 1) : w[i] = x})

\* Two places exchanged keep every element.
LEMMA ExchangeKeeps ==
  ASSUME NEW n \in Nat, NEW v, NEW w, NEW p \in 0..(n - 1), NEW q \in 0..(n - 1),
         v[p] = w[q], v[q] = w[p], \A i \in 0..(n - 1) : i = p \/ i = q \/ v[i] = w[i]
  PROVE  SameCounts(n, v, w)
<1> SUFFICES ASSUME NEW x \in Slots
             PROVE  Cardinality({i \in 0..(n - 1) : v[i] = x}) = Cardinality({i \in 0..(n - 1) : w[i] = x})
  BY DEF SameCounts
<1>1. PICK S, T : S = {i \in 0..(n - 1) : v[i] = x} /\ T = {i \in 0..(n - 1) : w[i] = x}
  OBVIOUS
<1> DEFINE swap == [i \in S |-> IF i = p THEN q ELSE IF i = q THEN p ELSE i]
<1>2. swap \in [S -> T]
  BY <1>1
<1>3. \A i, j \in S : swap[i] = swap[j] => i = j
  OBVIOUS
<1>4. ASSUME NEW t \in T PROVE \E i \in S : swap[i] = t
  <2>1. t \in 0..(n - 1) /\ w[t] = x
    BY <1>1
  <2>2. CASE t = p
    <3>1. q \in S
      BY <1>1, <2>1, <2>2
    <3> QED BY <2>2, <3>1
  <2>3. CASE t = q
    <3>1. p \in S
      BY <1>1, <2>1, <2>3
    <3> QED BY <2>3, <3>1
  <2>4. CASE t # p /\ t # q
    <3>1. t \in S
      BY <1>1, <2>1, <2>4
    <3> QED BY <2>4, <3>1
  <2> QED BY <2>2, <2>3, <2>4
<1>5. IsFiniteSet(S)
  <2>1. IsFiniteSet(0..(n - 1)) /\ S \subseteq 0..(n - 1)
    BY <1>1, FS_Interval
  <2> QED BY <2>1, FS_Subset
<1>8. IsInjective(swap)
  BY <1>3 DEF IsInjective
<1> HIDE DEF swap
<1>6. ExistsBijection(S, T)
  BY <1>2, <1>4, <1>8 DEF ExistsBijection, Bijection, Injection, Surjection
<1>7. Cardinality(T) = Cardinality(S)
  BY <1>5, <1>6, FS_Bijection
<1> QED BY <1>1, <1>7

LEMMA CountsChain ==
  ASSUME NEW n, NEW u, NEW v, NEW w, SameCounts(n, u, v), SameCounts(n, v, w)
  PROVE  SameCounts(n, u, w)
BY DEF SameCounts

\* A consistent comparison function orders undefined and holes last, and any two.
LEMMA ConsistentOrders ==
  ASSUME call.compare \in [Defined \X Defined -> Int], Consistent(call.compare)
  PROVE  Preorder(InOrder)
<1>1. PICK c : c = call.compare
  OBVIOUS
<1>2. /\ c \in [Defined \X Defined -> Int]
      /\ \A x, y \in Defined : c[<<x, y>>] = -c[<<y, x>>]
      /\ \A x, y, z \in Defined : c[<<x, y>>] <= 0 /\ c[<<y, z>>] <= 0 => c[<<x, z>>] <= 0
  BY <1>1 DEF Consistent
<1>3. ASSUME NEW x \in Slots, NEW y \in Slots
      PROVE  <<x, y>> \in InOrder <=>
               \/ y = Hole
               \/ x # Hole /\ y = Undefined
               \/ x \in Defined /\ y \in Defined /\ c[<<x, y>>] <= 0
  <2>1. <<x, y>> \in InOrder <=> ~MovesBehind(x, y)
    BY DEF InOrder
  <2>2. x \in Defined \/ x = Hole \/ x = Undefined
    BY DEF Slots, Defined
  <2>3. y \in Defined \/ y = Hole \/ y = Undefined
    BY DEF Slots, Defined
  <2>4. Hole # Undefined /\ Hole \notin Defined /\ Undefined \notin Defined
    BY ArrayAssumption DEF Defined
  <2>5. x \in Defined /\ y \in Defined => c[<<x, y>>] \in Int
    BY <1>2
  <2> QED BY <1>1, <2>1, <2>2, <2>3, <2>4, <2>5 DEF MovesBehind, Compared
<1>4. \A x, y \in Slots : <<x, y>> \in InOrder \/ <<y, x>> \in InOrder
  <2> TAKE x, y \in Slots
  <2>1. x \in Defined \/ x = Hole \/ x = Undefined
    BY DEF Slots, Defined
  <2>2. y \in Defined \/ y = Hole \/ y = Undefined
    BY DEF Slots, Defined
  <2>3. ASSUME x \in Defined, y \in Defined PROVE c[<<x, y>>] <= 0 \/ c[<<y, x>>] <= 0
    <3>1. c[<<x, y>>] \in Int /\ c[<<x, y>>] = -c[<<y, x>>] /\ c[<<y, x>>] \in Int
      BY <1>2, <2>3
    <3> QED BY <3>1
  <2>4. Hole # Undefined /\ Hole \notin Defined
    BY ArrayAssumption DEF Defined
  <2> QED BY <1>3, <2>1, <2>2, <2>3, <2>4
<1>5. \A x, y, z \in Slots : <<x, y>> \in InOrder /\ <<y, z>> \in InOrder => <<x, z>> \in InOrder
  <2> TAKE x, y, z \in Slots
  <2>1. Hole # Undefined /\ Hole \notin Defined /\ Undefined \notin Defined
    BY ArrayAssumption DEF Defined
  <2> QED BY <1>2, <1>3, <2>1
<1>6. InOrder \subseteq Slots \X Slots
  BY DEF InOrder
<1> QED BY <1>4, <1>5, <1>6 DEF Preorder

-----------------------------------------------------------------------------
(* The ranges still to be sorted: s on the stack, and l..r being sorted.    *)

Within(range, p) == range[1] <= p /\ p <= range[2]
Apart(n, a, b) == \A p \in 0..(n - 1) : ~(Within(a, p) /\ Within(b, p))

\* Two places are in order unless one range has both, and no two ranges meet.
Waiting(L, n, w, s) ==
  /\ \A m, k \in DOMAIN s : m # k => Apart(n, s[m], s[k])
  /\ \A p, q \in 0..(n - 1) : p < q => \/ <<w[p], w[q]>> \in L
                                       \/ \E m \in DOMAIN s : Within(s[m], p) /\ Within(s[m], q)
Working(L, n, w, s, l, r) ==
  /\ \A m, k \in DOMAIN s : m # k => Apart(n, s[m], s[k])
  /\ \A m \in DOMAIN s : Apart(n, s[m], <<l, r>>)
  /\ \A p, q \in 0..(n - 1) : p < q => \/ <<w[p], w[q]>> \in L
                                       \/ \E m \in DOMAIN s : Within(s[m], p) /\ Within(s[m], q)
                                       \/ l <= p /\ q <= r

LEMMA TakeRange ==
  ASSUME NEW L, NEW n \in Nat, NEW w, NEW s \in Seq(Int \X Int), s # <<>>, Waiting(L, n, w, s)
  PROVE  Working(L, n, w, Front(s), Last(s)[1], Last(s)[2])
<1>1. PICK f, l, r : f = Front(s) /\ l = Last(s)[1] /\ r = Last(s)[2]
  OBVIOUS
<1>2. PICK m \in Nat : /\ DOMAIN s = 1..(m + 1) /\ Last(s) = s[m + 1]
                       /\ DOMAIN f = 1..m /\ \A k \in 1..m : f[k] = s[k]
  <2>1. PICK S : S = Int \X Int
    OBVIOUS
  <2>2. s \in Seq(S)
    BY <2>1
  <2>3. PICK m \in Nat : /\ DOMAIN s = 1..(m + 1) /\ Len(s) = m + 1 /\ Last(s) = s[m + 1]
                         /\ Front(s) \in Seq(S) /\ DOMAIN Front(s) = 1..m /\ Len(Front(s)) = m
                         /\ \A k \in 1..m : Front(s)[k] = s[k]
    BY <2>2, TopTaken, Zenon
  <2> QED BY <1>1, <2>3
<1>3. \A p \in Int : Within(s[m + 1], p) <=> Within(<<l, r>>, p)
  BY <1>1, <1>2 DEF Within
<1>4. \A k \in 1..m : k \in 1..(m + 1) /\ k # m + 1
  OBVIOUS
<1>5. \A m1, k \in DOMAIN f : m1 # k => Apart(n, f[m1], f[k])
  BY <1>2, <1>4 DEF Waiting
<1>6. ASSUME NEW k \in DOMAIN f PROVE Apart(n, f[k], <<l, r>>)
  <2>1. Apart(n, s[k], s[m + 1]) /\ f[k] = s[k]
    <3>1. f[k] = s[k] /\ k \in DOMAIN s /\ m + 1 \in DOMAIN s /\ k # m + 1
      BY <1>2, <1>4, <1>6
    <3> QED BY <3>1 DEF Waiting
  <2>2. ASSUME NEW p \in 0..(n - 1) PROVE ~(Within(f[k], p) /\ Within(<<l, r>>, p))
    <3>1. ~(Within(s[k], p) /\ Within(s[m + 1], p)) /\ p \in Int
      BY <2>1 DEF Apart
    <3> QED BY <1>3, <2>1, <3>1
  <2> QED BY <2>2 DEF Apart
<1>7. ASSUME NEW p \in 0..(n - 1), NEW q \in 0..(n - 1), p < q, <<w[p], w[q]>> \notin L
      PROVE  \/ \E k \in DOMAIN f : Within(f[k], p) /\ Within(f[k], q)
             \/ l <= p /\ q <= r
  <2>1. PICK k \in 1..(m + 1) : Within(s[k], p) /\ Within(s[k], q)
    BY <1>2, <1>7 DEF Waiting
  <2>2. CASE k = m + 1
    BY <1>3, <2>1, <2>2 DEF Within
  <2>3. CASE k # m + 1
    <3>1. k \in 1..m
      BY <2>3
    <3> QED BY <1>2, <2>1, <3>1
  <2> QED BY <2>2, <2>3
<1> QED BY <1>1, <1>5, <1>6, <1>7 DEF Working

\* A range that is sorted need not wait any longer.
LEMMA RangeSorted ==
  ASSUME NEW L, NEW n, NEW w, NEW s, NEW l, NEW r, Working(L, n, w, s, l, r),
         \A p, q \in 0..(n - 1) : l <= p /\ p < q /\ q <= r => <<w[p], w[q]>> \in L
  PROVE  Waiting(L, n, w, s)
BY DEF Working, Waiting

\* What is moved within a range stays in order with what is outside.
LEMMA MoveWithin ==
  ASSUME NEW L, NEW n \in Nat, NEW v, NEW w, NEW s, NEW l \in Nat, NEW r \in Nat, r < n,
         Working(L, n, w, s, l, r),
         \A i \in 0..(n - 1) : ~(l <= i /\ i <= r) => v[i] = w[i],
         \A i \in l..r : \E k \in l..r : v[i] = w[k]
  PROVE  Working(L, n, v, s, l, r)
<1>1. ASSUME NEW p \in 0..(n - 1), NEW q \in 0..(n - 1), p < q,
             ~(l <= p /\ q <= r),
             ~ \E m \in DOMAIN s : Within(s[m], p) /\ Within(s[m], q)
      PROVE  <<v[p], v[q]>> \in L
  <2>1. CASE l <= p /\ p <= r
    <3>1. PICK k \in l..r : v[p] = w[k]
      BY <2>1
    <3>2. k \in 0..(n - 1) /\ k < q /\ ~(q <= r)
      BY <1>1, <2>1
    <3>3. \A m \in DOMAIN s : ~Within(s[m], k)
      BY <3>2 DEF Working, Apart, Within
    <3>4. <<w[k], w[q]>> \in L
      BY <3>2, <3>3 DEF Working
    <3> QED BY <3>1, <3>2, <3>4
  <2>2. CASE l <= q /\ q <= r
    <3>1. PICK k \in l..r : v[q] = w[k]
      BY <2>2
    <3>2. k \in 0..(n - 1) /\ p < k /\ ~(l <= p)
      BY <1>1, <2>2
    <3>3. \A m \in DOMAIN s : ~Within(s[m], k)
      BY <3>2 DEF Working, Apart, Within
    <3>4. <<w[p], w[k]>> \in L
      BY <3>2, <3>3 DEF Working
    <3> QED BY <3>1, <3>2, <3>4
  <2>3. CASE ~(l <= p /\ p <= r) /\ ~(l <= q /\ q <= r)
    BY <1>1, <2>3 DEF Working
  <2> QED BY <2>1, <2>2, <2>3
<1> QED BY <1>1 DEF Working

\* Two ranges on top of a stack.
LEMMA TwoPushed ==
  ASSUME NEW s \in Seq(Int \X Int), NEW u \in Seq(Int \X Int), Len(u) = 2
  PROVE  \E m \in Nat : /\ DOMAIN s = 1..m /\ DOMAIN (s \o u) = 1..(m + 2)
                        /\ \A k \in 1..m : (s \o u)[k] = s[k]
                        /\ (s \o u)[m + 1] = u[1] /\ (s \o u)[m + 2] = u[2]
<1>1. PICK t : t = s \o u
  OBVIOUS
<1>3. PICK m \in Nat : m = Len(s) /\ DOMAIN s = 1..m
  BY LenProperties
<1>4. t \in Seq(Int \X Int) /\ Len(t) = m + 2 /\ \A k \in 1..(m + 2) : t[k] = IF k <= m THEN s[k] ELSE u[k - m]
  <2>1. /\ t \in Seq(Int \X Int) /\ Len(t) = Len(s) + Len(u)
        /\ \A k \in 1..(Len(s) + Len(u)) : t[k] = IF k <= Len(s) THEN s[k] ELSE u[k - Len(s)]
    BY <1>1, ConcatProperties
  <2> QED BY <1>3, <2>1
<1>5. DOMAIN t = 1..(m + 2)
  BY <1>4, LenProperties
<1>6. \A k \in 1..m : t[k] = s[k]
  BY <1>4
<1>7. t[m + 1] = u[1] /\ t[m + 2] = u[2]
  <2>1. /\ m + 1 \in 1..(m + 2) /\ ~(m + 1 <= m) /\ (m + 1) - m = 1
        /\ m + 2 \in 1..(m + 2) /\ ~(m + 2 <= m) /\ (m + 2) - m = 2
    OBVIOUS
  <2> QED BY <1>4, <2>1
<1> QED BY <1>1, <1>3, <1>5, <1>6, <1>7

\* A range whose lower part belongs left of the upper one is two ranges.
LEMMA RangeSplit ==
  ASSUME NEW L, NEW n \in Nat, NEW w, NEW s \in Seq(Int \X Int),
         NEW l \in Nat, NEW r \in Nat, NEW i \in l..r, r < n,
         Working(L, n, w, s, l, r),
         \A p \in l..(i - 1), q \in i..r : <<w[p], w[q]>> \in L,
         NEW a, NEW b,
         \/ a = <<l, i - 1>> /\ b = <<i, r>>
         \/ a = <<i, r>> /\ b = <<l, i - 1>>
  PROVE  Waiting(L, n, w, s \o <<a, b>>)
<1>1. PICK t : t = s \o <<a, b>>
  OBVIOUS
<1>2. a \in Int \X Int /\ b \in Int \X Int
  <2>1. l \in Int /\ i - 1 \in Int /\ i \in Int /\ r \in Int
    OBVIOUS
  <2> QED BY <2>1
<1>3. PICK m \in Nat : /\ DOMAIN s = 1..m /\ DOMAIN t = 1..(m + 2)
                       /\ \A k \in 1..m : t[k] = s[k]
                       /\ t[m + 1] = a /\ t[m + 2] = b
  <2>1. PICK u : t = s \o u /\ u = <<a, b>>
    BY <1>1
  <2>2. u \in Seq(Int \X Int) /\ Len(u) = 2 /\ u[1] = a /\ u[2] = b
    BY <1>2, <2>1
  <2>3. PICK m \in Nat : /\ DOMAIN s = 1..m /\ DOMAIN (s \o u) = 1..(m + 2)
                         /\ \A k \in 1..m : (s \o u)[k] = s[k]
                         /\ (s \o u)[m + 1] = u[1] /\ (s \o u)[m + 2] = u[2]
    BY <2>2, TwoPushed
  <2> QED BY <2>1, <2>2, <2>3
<1>4. \A p \in 0..(n - 1) : /\ Within(a, p) => l <= p /\ p <= r
                            /\ Within(b, p) => l <= p /\ p <= r
                            /\ ~(Within(a, p) /\ Within(b, p))
                            /\ l <= p /\ p <= r => Within(a, p) \/ Within(b, p)
  BY DEF Within
<1>5. \A k \in 1..m : Apart(n, s[k], a) /\ Apart(n, s[k], b)
  BY <1>3, <1>4 DEF Working, Apart, Within
<1>6. ASSUME NEW k \in 1..(m + 2), NEW h \in 1..(m + 2), k # h PROVE Apart(n, t[k], t[h])
  <2>1. \A x, y : Apart(n, x, y) <=> Apart(n, y, x)
    BY DEF Apart
  <2>2. Apart(n, a, b)
    BY <1>4 DEF Apart
  <2>3. k \in 1..m \/ k = m + 1 \/ k = m + 2
    OBVIOUS
  <2>4. h \in 1..m \/ h = m + 1 \/ h = m + 2
    OBVIOUS
  <2>5. k \in 1..m /\ h \in 1..m => Apart(n, s[k], s[h])
    BY <1>3, <1>6 DEF Working
  <2>6. CASE k \in 1..m
    <3>1. t[k] = s[k]
      BY <1>3, <2>6
    <3>2. CASE h \in 1..m
      BY <1>3, <2>5, <2>6, <3>1, <3>2
    <3>3. CASE h = m + 1 \/ h = m + 2
      BY <1>3, <1>5, <2>6, <3>1, <3>3
    <3> QED BY <2>4, <3>2, <3>3
  <2>7. CASE k = m + 1 \/ k = m + 2
    <3>1. CASE h \in 1..m
      BY <1>3, <1>5, <2>1, <2>7, <3>1
    <3>2. CASE h = m + 1 \/ h = m + 2
      <4>1. (t[k] = a /\ t[h] = b) \/ (t[k] = b /\ t[h] = a)
        <5>1. t[m + 1] = a /\ t[m + 2] = b
          BY <1>3
        <5>2. CASE k = m + 1
          <6>1. h = m + 2
            BY <1>6, <3>2, <5>2
          <6> QED BY <5>1, <5>2, <6>1
        <5>3. CASE k = m + 2
          <6>1. h = m + 1
            BY <1>6, <3>2, <5>3
          <6> QED BY <5>1, <5>3, <6>1
        <5> QED BY <2>7, <5>2, <5>3
      <4> QED BY <2>1, <2>2, <4>1
    <3> QED BY <2>4, <3>1, <3>2
  <2> QED BY <2>3, <2>6, <2>7
<1>7. ASSUME NEW p \in 0..(n - 1), NEW q \in 0..(n - 1), p < q, <<w[p], w[q]>> \notin L
      PROVE  \E k \in 1..(m + 2) : Within(t[k], p) /\ Within(t[k], q)
  <2>1. m + 1 \in 1..(m + 2) /\ m + 2 \in 1..(m + 2) /\ \A k \in 1..m : k \in 1..(m + 2)
    OBVIOUS
  <2>2. CASE \E k \in 1..m : Within(s[k], p) /\ Within(s[k], q)
    BY <1>3, <2>1, <2>2
  <2>3. CASE l <= p /\ q <= r
    <3>1. p >= i \/ q <= i - 1
      BY <1>7, <2>3
    <3>2. \/ Within(a, p) /\ Within(a, q)
          \/ Within(b, p) /\ Within(b, q)
      BY <1>7, <2>3, <3>1 DEF Within
    <3> QED BY <1>3, <2>1, <3>2
  <2> QED BY <1>3, <1>7, <2>2, <2>3 DEF Working
<1> QED BY <1>1, <1>3, <1>6, <1>7 DEF Waiting
-----------------------------------------------------------------------------
(* Insertion sort: l..i is in order but for the element at j + 1, which is  *)
(* not before any that it has passed.                                      *)
InsertOrdered(L, w, l, i, j) ==
  \A p, q \in l..i : p < q /\ q # j + 1 => <<w[p], w[q]>> \in L

LEMMA ShiftOrders ==
  ASSUME NEW L, Preorder(L), NEW n \in Nat, NEW w, NEW v, \A k \in 0..(n - 1) : w[k] \in Slots,
         NEW l \in Nat, NEW i \in Nat, NEW j \in Nat, l <= j, j < i, i < n,
         InsertOrdered(L, w, l, i, j), <<w[j], w[j + 1]>> \notin L,
         v[j] = w[j + 1], v[j + 1] = w[j],
         \A k \in 0..(n - 1) : k = j \/ k = j + 1 \/ v[k] = w[k]
  PROVE  InsertOrdered(L, v, l, i, j - 1)
<1> SUFFICES ASSUME NEW p \in l..i, NEW q \in l..i, p < q, q # j PROVE <<v[p], v[q]>> \in L
  BY DEF InsertOrdered
<1>1. \A k \in l..i : k \in 0..(n - 1)
  OBVIOUS
<1>2. j \in l..i /\ j + 1 \in l..i /\ j # j + 1
  OBVIOUS
<1>3. <<w[j + 1], w[j]>> \in L
  BY <1>1, <1>2 DEF Preorder
<1>4. \A x, y \in l..i : x < y /\ y # j + 1 => <<w[x], w[y]>> \in L
  BY DEF InsertOrdered
<1>5. CASE q = j + 1
  <2>1. CASE p = j
    BY <1>3, <1>5, <2>1
  <2>2. CASE p # j
    <3>1. p < j /\ v[p] = w[p] /\ v[q] = w[j]
      BY <1>1, <1>5, <2>2
    <3> QED BY <1>2, <1>4, <3>1
  <2> QED BY <2>1, <2>2
<1>6. CASE q # j + 1
  <2>1. v[q] = w[q]
    BY <1>1, <1>6
  <2>2. CASE p = j
    <3>1. j + 1 < q /\ v[p] = w[j + 1]
      BY <1>6, <2>2
    <3> QED BY <1>2, <1>4, <1>6, <2>1, <3>1
  <2>3. CASE p = j + 1
    <3>1. j < q /\ v[p] = w[j]
      BY <2>3
    <3> QED BY <1>2, <1>4, <1>6, <2>1, <3>1
  <2>4. CASE p # j /\ p # j + 1
    <3>1. v[p] = w[p]
      BY <1>1, <2>4
    <3> QED BY <1>4, <1>6, <2>1, <3>1
  <2> QED BY <2>2, <2>3, <2>4
<1> QED BY <1>5, <1>6

LEMMA PlaceOrders ==
  ASSUME NEW L, Preorder(L), NEW n \in Nat, NEW w, \A k \in 0..(n - 1) : w[k] \in Slots,
         NEW l \in Nat, NEW i \in Nat, NEW j \in Int, l - 1 <= j, j < i, i < n,
         InsertOrdered(L, w, l, i, j), j < l \/ <<w[j], w[j + 1]>> \in L
  PROVE  \A p, q \in l..i : p < q => <<w[p], w[q]>> \in L
<1> SUFFICES ASSUME NEW p \in l..i, NEW q \in l..i, p < q PROVE <<w[p], w[q]>> \in L
  OBVIOUS
<1>1. \A k \in l..i : k \in 0..(n - 1)
  OBVIOUS
<1>2. \A x, y \in l..i : x < y /\ y # j + 1 => <<w[x], w[y]>> \in L
  BY DEF InsertOrdered
<1>3. CASE q # j + 1
  BY <1>2, <1>3
<1>4. CASE q = j + 1
  <2>1. j \in l..i /\ j # j + 1 /\ <<w[j], w[q]>> \in L
    BY <1>4
  <2>2. CASE p = j
    BY <2>1, <2>2
  <2>3. CASE p # j
    <3>1. <<w[p], w[j]>> \in L
      BY <1>2, <1>4, <2>1, <2>3
    <3>2. w[p] \in Slots /\ w[j] \in Slots /\ w[q] \in Slots
      BY <1>1, <2>1
    <3> QED BY <2>1, <3>1, <3>2 DEF Preorder
  <2> QED BY <2>2, <2>3
<1> QED BY <1>3, <1>4

(* Partition: what is passed on the left may stand left of x, what is passed *)
(* on the right may stand right of it, and both searches have where to stop. *)
PartOrdered(L, w, x, l, r, i, j) ==
  /\ \A k \in l..i : <<w[k], x>> \in L
  /\ \A k \in j..r : <<x, w[k]>> \in L
  /\ \E k \in (i + 1)..r : <<x, w[k]>> \in L
  /\ \E k \in l..(j - 1) : <<w[k], x>> \in L

LEMMA PartBegins ==
  ASSUME NEW L, NEW w, NEW x, NEW l \in Nat, NEW r \in Nat, NEW k \in l..r,
         <<w[k], x>> \in L, <<x, w[k]>> \in L
  PROVE  PartOrdered(L, w, x, l, r, l - 1, r + 1)
<1>1. PICK i, j : i = l - 1 /\ j = r + 1
  OBVIOUS
<1>2. k \in (i + 1)..r /\ k \in l..(j - 1)
  BY <1>1
<1>3. \A h \in l..i : FALSE
  BY <1>1
<1>4. \A h \in j..r : FALSE
  BY <1>1
<1>5. PartOrdered(L, w, x, l, r, i, j)
  BY <1>2, <1>3, <1>4 DEF PartOrdered
<1> QED BY <1>1, <1>5

LEMMA SearchesStop ==
  ASSUME NEW L, Preorder(L), NEW n \in Nat, NEW w, \A k \in 0..(n - 1) : w[k] \in Slots,
         NEW x \in Slots, NEW l \in Nat, NEW r \in Nat, r < n,
         NEW i0 \in (l - 1)..r, NEW j0 \in l..(r + 1), PartOrdered(L, w, x, l, r, i0, j0),
         NEW i \in (i0 + 1)..r, \A k \in (i0 + 1)..(i - 1) : <<x, w[k]>> \notin L,
         i = r \/ <<x, w[i]>> \in L,
         NEW j \in l..(j0 - 1), \A k \in (j + 1)..(j0 - 1) : <<w[k], x>> \notin L,
         j = l \/ <<w[j], x>> \in L
  PROVE  /\ <<x, w[i]>> \in L /\ <<w[j], x>> \in L
         /\ \A k \in l..(i - 1) : <<w[k], x>> \in L
         /\ \A k \in (j + 1)..r : <<x, w[k]>> \in L
<1>1. \A k \in l..r : k \in 0..(n - 1) /\ w[k] \in Slots
  OBVIOUS
<1>2. <<x, w[i]>> \in L
  <2>1. PICK k \in (i0 + 1)..r : <<x, w[k]>> \in L
    BY DEF PartOrdered
  <2>2. ~(k \in (i0 + 1)..(i - 1))
    BY <2>1
  <2> QED BY <2>1, <2>2
<1>3. <<w[j], x>> \in L
  <2>1. PICK k \in l..(j0 - 1) : <<w[k], x>> \in L
    BY DEF PartOrdered
  <2>2. ~(k \in (j + 1)..(j0 - 1))
    BY <2>1
  <2> QED BY <2>1, <2>2
<1>4. ASSUME NEW k \in l..(i - 1) PROVE <<w[k], x>> \in L
  <2>1. CASE k <= i0
    BY <2>1 DEF PartOrdered
  <2>2. CASE ~(k <= i0)
    <3>1. <<x, w[k]>> \notin L /\ w[k] \in Slots
      BY <1>1, <2>2
    <3> QED BY <3>1 DEF Preorder
  <2> QED BY <2>1, <2>2
<1>5. ASSUME NEW k \in (j + 1)..r PROVE <<x, w[k]>> \in L
  <2>1. CASE k >= j0
    BY <2>1 DEF PartOrdered
  <2>2. CASE ~(k >= j0)
    <3>1. <<w[k], x>> \notin L /\ w[k] \in Slots
      BY <1>1, <2>2
    <3> QED BY <3>1 DEF Preorder
  <2> QED BY <2>1, <2>2
<1> QED BY <1>2, <1>3, <1>4, <1>5

LEMMA ExchangeOrders ==
  ASSUME NEW L, NEW n \in Nat, NEW w, NEW v, NEW x, NEW l \in Nat, NEW r \in Nat, r < n,
         NEW i \in l..r, NEW j \in l..r, i < j, <<x, w[i]>> \in L, <<w[j], x>> \in L,
         \A k \in l..(i - 1) : <<w[k], x>> \in L,
         \A k \in (j + 1)..r : <<x, w[k]>> \in L,
         v[i] = w[j], v[j] = w[i], \A k \in 0..(n - 1) : k = i \/ k = j \/ v[k] = w[k]
  PROVE  PartOrdered(L, v, x, l, r, i, j)
<1>1. ASSUME NEW k \in l..i PROVE <<v[k], x>> \in L
  <2>1. k = i \/ (k \in l..(i - 1) /\ v[k] = w[k])
    OBVIOUS
  <2> QED BY <2>1
<1>2. ASSUME NEW k \in j..r PROVE <<x, v[k]>> \in L
  <2>1. k = j \/ (k \in (j + 1)..r /\ v[k] = w[k])
    OBVIOUS
  <2> QED BY <2>1
<1>3. j \in (i + 1)..r /\ i \in l..(j - 1)
  OBVIOUS
<1> QED BY <1>1, <1>2, <1>3 DEF PartOrdered

LEMMA PartsOrdered ==
  ASSUME NEW L, Preorder(L), NEW n \in Nat, NEW w, \A k \in 0..(n - 1) : w[k] \in Slots,
         NEW x \in Slots, NEW l \in Nat, NEW r \in Nat, r < n,
         NEW i \in l..r, NEW j \in l..r, i >= j, <<x, w[i]>> \in L,
         \A k \in l..(i - 1) : <<w[k], x>> \in L,
         \A k \in (j + 1)..r : <<x, w[k]>> \in L
  PROVE  \A p \in l..(i - 1), q \in i..r : <<w[p], w[q]>> \in L
<1> SUFFICES ASSUME NEW p \in l..(i - 1), NEW q \in i..r PROVE <<w[p], w[q]>> \in L
  OBVIOUS
<1>1. <<w[p], x>> \in L
  OBVIOUS
<1>2. <<x, w[q]>> \in L
  <2>1. q = i \/ q \in (j + 1)..r
    OBVIOUS
  <2> QED BY <2>1
<1>3. w[p] \in Slots /\ w[q] \in Slots
  OBVIOUS
<1> QED BY <1>1, <1>2, <1>3 DEF Preorder
-----------------------------------------------------------------------------
(* What the steps of sort do to the array.                                 *)

LEMMA Stored ==
  ASSUME NEW a \in Arrays, ~Failed(a), NEW i \in 0..(a.len - 1), NEW x \in Slots, NEW b,
         b = IF x = Hole THEN DeleteAt(a, i) ELSE PutAt(a, i, x)
  PROVE  b \in Arrays /\ b.len = a.len /\ (~Failed(b) => b.at = [a.at EXCEPT ![i] = x])
<1>1. a.len \in 0..(Modulus - 1) /\ Modulus \in Nat
  BY PlacesHold DEF Arrays
<1>2. i \in Places /\ IsIndex(i) /\ ~(i >= a.len)
  <2>1. i \in Nat /\ i < Modulus - 1
    BY <1>1
  <2> QED BY <1>1, <2>1, PlacesHold DEF Places, IsIndex
<1>3. CASE x = Hole
  <2>1. b = DeleteAt(a, i)
    BY <1>3
  <2>2. b \in Arrays
    BY <1>2, <2>1, DeleteTyped
  <2> QED BY <1>3, <2>1, <2>2 DEF DeleteAt, Throw, Failed, Arrays
<1>4. CASE x # Hole
  <2>1. b = PutAt(a, i, x) /\ x \in Elements
    BY <1>4 DEF Slots
  <2>2. b \in Arrays
    BY <1>2, <2>1, PutTyped
  <2>3. b = IF i \in a.locked THEN [a EXCEPT !.error = "Type"] ELSE [a EXCEPT !.at[i] = x, !.len = a.len]
    BY <1>2, <2>1 DEF PutAt, Throw
  <2> QED BY <2>2, <2>3 DEF Failed, Arrays
<1> QED BY <1>3, <1>4

LEMMA Removed ==
  ASSUME NEW a \in Arrays, NEW i \in Places
  PROVE  DeleteAt(a, i) \in Arrays /\ DeleteAt(a, i).len = a.len
BY DeleteTyped DEF DeleteAt, Throw, Arrays

LEMMA Moved ==
  ASSUME NEW a \in Arrays, ~Failed(a), NEW i \in 0..(a.len - 1), NEW k \in 0..(a.len - 1)
  PROVE  /\ Move(a, k, i) \in Arrays /\ Move(a, k, i).len = a.len
         /\ ~Failed(Move(a, k, i)) => Move(a, k, i).at = [a.at EXCEPT ![i] = a.at[k]]
<1>1. k \in Places
  BY PlacesHold DEF Arrays, Places
<1>2. a.at[k] \in Slots
  BY <1>1 DEF Arrays, Slots
<1>3. PICK b, x : b = Move(a, k, i) /\ x = a.at[k]
  OBVIOUS
<1>4. b = IF x = Hole THEN DeleteAt(a, i) ELSE PutAt(a, i, x)
  BY <1>3 DEF Move, Has
<1> QED BY <1>2, <1>3, <1>4, Stored

LEMMA SwappedHolds ==
  ASSUME NEW a \in Arrays, ~Failed(a), NEW i \in 0..(a.len - 1), NEW j \in 0..(a.len - 1), i # j
  PROVE  /\ Swapped(a, i, j) \in Arrays /\ Swapped(a, i, j).len = a.len
         /\ ~Failed(Swapped(a, i, j)) /\ Has(a, i) /\ Has(a, j) =>
              Swapped(a, i, j).at = [a.at EXCEPT ![i] = a.at[j], ![j] = a.at[i]]
<1>1. i \in Places /\ j \in Places
  BY PlacesHold DEF Arrays, Places
<1>2. a.at[i] \in Slots /\ a.at[j] \in Slots /\ Undefined \in Slots /\ Hole \in Slots
  BY <1>1, ArrayAssumption DEF Arrays, Slots
<1>3. PICK x, y : x = a.at[i] /\ y = Get(a, j)
  OBVIOUS
<1>4. x \in Slots /\ y \in Slots /\ y # Hole /\ (Has(a, j) => y = a.at[j])
  BY <1>2, <1>3, ArrayAssumption DEF Get, Has
<1>5. PICK c : c = Swapped(a, i, j)
  OBVIOUS
<1>6. CASE Has(a, i)
  <2>1. PICK b : b = PutAt(a, i, y)
    OBVIOUS
  <2>2. b \in Arrays /\ b.len = a.len /\ (~Failed(b) => b.at = [a.at EXCEPT ![i] = y])
    BY <1>4, <2>1, Stored
  <2>3. x # Hole
    BY <1>3, <1>6 DEF Has
  <2>4. c = PutAt(b, j, x)
    BY <1>3, <1>5, <1>6, <2>1 DEF Swapped
  <2>5. CASE Failed(b)
    <3>1. c = b
      BY <2>4, <2>5 DEF PutAt
    <3> QED BY <1>5, <2>2, <2>5, <3>1
  <2>6. CASE ~Failed(b)
    <3>1. c \in Arrays /\ c.len = b.len /\ (~Failed(c) => c.at = [b.at EXCEPT ![j] = x])
      BY <1>4, <2>2, <2>3, <2>4, <2>6, Stored
    <3> QED BY <1>3, <1>4, <1>5, <2>2, <2>6, <3>1
  <2> QED BY <2>5, <2>6
<1>7. CASE ~Has(a, i)
  <2>1. PICK b : b = DeleteAt(a, i)
    OBVIOUS
  <2>2. b \in Arrays /\ b.len = a.len
    BY <1>1, <2>1, Removed
  <2>3. c = DeleteAt(b, j)
    BY <1>5, <1>7, <2>1 DEF Swapped
  <2>4. CASE Failed(b)
    <3>1. c = b
      BY <2>3, <2>4 DEF DeleteAt
    <3> QED BY <1>5, <1>7, <2>2, <3>1
  <2>5. CASE ~Failed(b)
    <3>1. c \in Arrays /\ c.len = b.len
      BY <1>1, <2>2, <2>3, Removed
    <3> QED BY <1>5, <1>7, <2>2, <3>1
  <2> QED BY <2>4, <2>5
<1> QED BY <1>6, <1>7

\* An array without holes keeps none when it keeps its elements.
LEMMA NoHoles ==
  ASSUME NEW n \in Nat, NEW v, NEW w, SameCounts(n, v, w), \A i \in 0..(n - 1) : w[i] # Hole
  PROVE  \A i \in 0..(n - 1) : v[i] # Hole
<1>1. PICK S, T : S = {i \in 0..(n - 1) : v[i] = Hole} /\ T = {i \in 0..(n - 1) : w[i] = Hole}
  OBVIOUS
<1>2. T = {} /\ Cardinality(T) = 0
  BY <1>1, FS_EmptySet
<1>3. IsFiniteSet(S)
  <2>1. IsFiniteSet(0..(n - 1)) /\ S \subseteq 0..(n - 1)
    BY <1>1, FS_Interval
  <2> QED BY <2>1, FS_Subset
<1>4. Cardinality(S) = Cardinality(T)
  BY <1>1 DEF SameCounts, Slots
<1>5. S = {}
  BY <1>2, <1>3, <1>4, FS_EmptySet
<1> QED BY <1>1, <1>5
-----------------------------------------------------------------------------
(* The elements during sort, with the one taken out where it would be put   *)
(* now, and the sorts that are claimed to keep and to order them.           *)
Current == IF loop.at = "insert" THEN [array.at EXCEPT ![loop.j + 1] = loop.t] ELSE array.at
Claimed == Dense(start) \/ start.len <= InsertionLimit

RangesOrdered ==
  /\ loop.at = "range" => Waiting(InOrder, start.len, Current, loop.stack)
  /\ loop.at # "range" => Working(InOrder, start.len, Current, loop.stack, loop.l, loop.r)
  /\ loop.at = "insert" => InsertOrdered(InOrder, Current, loop.l, loop.i, loop.j)
  /\ loop.at = "partition" =>
       PartOrdered(InOrder, Current, loop.pivot, loop.l, loop.r, loop.i, loop.j)

OrderInv ==
  call.fn = "sort" =>
    /\ call.compare \in [Defined \X Defined -> Int]
    /\ stage = "call" => ~Failed(array)
    /\ stage = "loop" =>
         /\ array \in Arrays /\ ~Failed(array) /\ array.len = start.len
         /\ loop.at \in {"range", "insert", "partition"}
         /\ loop.at = "insert" => loop.t \in Slots
         /\ loop.at = "partition" => loop.pivot \in Slots
         /\ Claimed => SameCounts(start.len, Current, start.at)
         /\ Claimed /\ Consistent(call.compare) => RangesOrdered
    /\ stage = "done" /\ ~Failed(array) /\ Claimed =>
         /\ array.len = start.len
         /\ SameCounts(start.len, array.at, start.at)
         /\ Consistent(call.compare) =>
              \A p, q \in 0..(start.len - 1) : p < q => <<array.at[p], array.at[q]>> \in InOrder

LEMMA InOrderStays ==
  ASSUME UNCHANGED <<start, call>>
  PROVE  InOrder' = InOrder /\ (Claimed' <=> Claimed)
BY DEF InOrder, MovesBehind, Compared, Claimed, Dense, Has

LEMMA LoopStep ==
  ASSUME OrderInv, call.fn = "sort", UNCHANGED <<start, call>>,
         stage' = IF Failed(array') THEN "done" ELSE "loop",
         array' \in Arrays, array'.len = start.len,
         loop'.at \in {"range", "insert", "partition"},
         loop'.at = "insert" => loop'.t \in Slots,
         loop'.at = "partition" => loop'.pivot \in Slots,
         ~Failed(array') /\ Claimed => SameCounts(start.len, Current', start.at),
         ~Failed(array') /\ Claimed /\ Consistent(call.compare) => RangesOrdered'
  PROVE  OrderInv'
<1>1. Claimed' <=> Claimed
  BY InOrderStays
<1>2. CASE Failed(array')
  BY <1>2 DEF OrderInv, Failed
<1>3. CASE ~Failed(array')
  BY <1>1, <1>3 DEF OrderInv, Failed
<1> QED BY <1>2, <1>3

LEMMA SortContents ==
  ASSUME HeightInv, OrderInv, call.fn = "sort", stage = "loop"
  PROVE  /\ start.len \in Nat /\ array.len = start.len /\ 0..(start.len - 1) \subseteq Places
         /\ Current \in [Places -> Slots] /\ array.at \in [Places -> Slots]
         /\ array \in Arrays /\ ~Failed(array) /\ start \in Arrays
<1>1. /\ start \in Arrays /\ array \in Arrays /\ array.len = start.len /\ ~Failed(array)
      /\ loop.at = "insert" => loop.t \in Slots /\ InsertingAt
  BY DEF HeightInv, OrderInv
<1>2. start.len \in Nat /\ 0..(start.len - 1) \subseteq Places
  BY <1>1, PlacesHold DEF Arrays, Places
<1>3. array.at \in [Places -> Slots]
  BY <1>1 DEF Arrays, Slots
<1>4. Current \in [Places -> Slots]
  BY <1>1, <1>3 DEF Current
<1> QED BY <1>1, <1>2, <1>3, <1>4

LEMMA BeginOrder ==
  ASSUME HeightInv, OrderInv, SortBegin
  PROVE  OrderInv'
<1>1. /\ call.fn = "sort" /\ stage = "call" /\ array = start /\ start \in Arrays /\ ~Failed(array)
  BY DEF SortBegin, Doing, HeightInv, OrderInv
<1>2. start.len \in Nat /\ SameCounts(start.len, start.at, start.at)
  BY <1>1, PlacesHold DEF Arrays, SameCounts
<1>3. CASE array.len = 0
  <2>1. array' = array /\ stage' = "done" /\ UNCHANGED <<start, call>>
    BY <1>3 DEF SortBegin, Return, Returning
  <2>2. \A p, q \in 0..(start.len - 1) : FALSE
    BY <1>1, <1>3
  <2> QED BY <1>1, <1>2, <2>1, <2>2 DEF OrderInv
<1>4. CASE array.len # 0
  <2>1. /\ array' = array /\ loop' = [at |-> "range", stack |-> <<<<0, start.len - 1>>>>]
        /\ UNCHANGED <<start, call>> /\ stage' = IF Failed(array') THEN "done" ELSE "loop"
    BY <1>1, <1>4 DEF SortBegin, Resume
  <2>2. loop'.at = "range" /\ Current' = start.at
    BY <1>1, <2>1 DEF Current
  <2>3. PICK n, s : n = start.len /\ s = <<<<0, n - 1>>>>
    OBVIOUS
  <2>4. DOMAIN s = {1} /\ s[1] = <<0, n - 1>>
    BY <2>3
  <2>5. \A p \in 0..(n - 1) : Within(s[1], p)
    BY <1>2, <2>3, <2>4 DEF Within
  <2>6. \A L, w : Waiting(L, n, w, s)
    BY <2>4, <2>5 DEF Waiting
  <2>7. RangesOrdered'
    BY <2>1, <2>2, <2>3, <2>6 DEF RangesOrdered
  <2> QED BY <1>1, <1>2, <2>1, <2>2, <2>7, LoopStep
<1> QED BY <1>3, <1>4

LEMMA RangeOrder ==
  ASSUME HeightInv, OrderInv, SortRange
  PROVE  OrderInv'
<1>1. /\ call.fn = "sort" /\ stage = "loop" /\ loop.at = "range" /\ RangesHalved
      /\ Claimed => SameCounts(start.len, Current, start.at)
      /\ Claimed /\ Consistent(call.compare) => RangesOrdered
      /\ Current = array.at
  BY DEF SortRange, Sorting, HeightInv, OrderInv, Current
<1>2. /\ start.len \in Nat /\ array.len = start.len /\ 0..(start.len - 1) \subseteq Places
      /\ array.at \in [Places -> Slots] /\ array \in Arrays /\ ~Failed(array)
  BY <1>1, SortContents
<1>3. CASE loop.stack = <<>>
  <2>1. array' = array /\ stage' = "done" /\ UNCHANGED <<start, call>>
    BY <1>1, <1>3 DEF SortRange, Return, Returning
  <2>2. ASSUME Claimed, Consistent(call.compare), NEW p \in 0..(start.len - 1),
               NEW q \in 0..(start.len - 1), p < q
        PROVE  <<array.at[p], array.at[q]>> \in InOrder
    <3>1. Waiting(InOrder, start.len, array.at, <<>>)
      BY <1>1, <1>3, <2>2 DEF RangesOrdered
    <3>2. DOMAIN <<>> = {}
      OBVIOUS
    <3> QED BY <2>2, <3>1, <3>2 DEF Waiting
  <2>3. InOrder' = InOrder /\ (Claimed' <=> Claimed)
    BY <2>1, InOrderStays
  <2> QED BY <1>1, <1>2, <2>1, <2>2, <2>3 DEF OrderInv
<1>4. CASE loop.stack # <<>>
  <2>1. PICK s, f, l, r : s = loop.stack /\ f = Front(s) /\ l = Last(s)[1] /\ r = Last(s)[2]
    OBVIOUS
  <2>2. PICK k, x, n, w : k = (l + r) \div 2 /\ x = array.at[k] /\ n = start.len /\ w = array.at
    OBVIOUS
  <2>3. PICK h, g, y : h = l + 1 /\ g = h - 1 /\ y = array.at[h]
    OBVIOUS
  <2>4. /\ array' = array /\ UNCHANGED <<start, call>>
        /\ stage' = IF Failed(array') THEN "done" ELSE "loop"
        /\ loop' = IF l >= r THEN [at |-> "range", stack |-> f]
                   ELSE IF r - l < InsertionLimit
                   THEN [at |-> "insert", stack |-> f, l |-> l, r |-> r, i |-> h, j |-> g, t |-> y]
                   ELSE [at |-> "partition", stack |-> f, l |-> l, r |-> r, i |-> l - 1, j |-> r + 1,
                         pivot |-> x]
    <3>1. Inserting(array, f, l, r, l + 1) =
            [at |-> "insert", stack |-> f, l |-> l, r |-> r, i |-> h, j |-> g, t |-> y]
      BY <2>3 DEF Inserting
    <3>2. /\ array' = array /\ UNCHANGED <<start, call>>
          /\ stage' = IF Failed(array') THEN "done" ELSE "loop"
          /\ loop' = IF l >= r THEN [at |-> "range", stack |-> f]
                     ELSE IF r - l < InsertionLimit THEN Inserting(array, f, l, r, l + 1)
                     ELSE [at |-> "partition", stack |-> f, l |-> l, r |-> r, i |-> l - 1, j |-> r + 1,
                           pivot |-> x]
      BY <1>1, <1>4, <2>1, <2>2 DEF SortRange, Resume
    <3> QED BY <3>1, <3>2
  <2>5. s \in Seq(Int \X Int) /\ l \in Nat /\ r \in Int /\ r < n /\ n \in Nat
    <3>1. s \in Seq(Int \X Int) /\ s # <<>>
      BY <1>1, <1>4, <2>1 DEF RangesHalved
    <3>2. PICK S : S = Int \X Int
      OBVIOUS
    <3>3. s \in Seq(S)
      BY <3>1, <3>2
    <3>4. PICK m \in Nat : DOMAIN s = 1..(m + 1) /\ Last(s) = s[m + 1]
      BY <3>1, <3>3, TopTaken, Zenon
    <3>5. Halved(m + 1, l, r)
      BY <1>1, <2>1, <3>4 DEF RangesHalved
    <3> QED BY <1>2, <2>2, <3>1, <3>5 DEF Halved
  <2>6. ASSUME Claimed, Consistent(call.compare) PROVE Working(InOrder, n, w, f, l, r) /\ Preorder(InOrder)
    <3>1. Waiting(InOrder, n, w, s)
      BY <1>1, <2>1, <2>2, <2>6 DEF RangesOrdered
    <3>2. Working(InOrder, n, w, f, l, r)
      BY <1>4, <2>1, <2>5, <3>1, TakeRange
    <3> QED BY <1>1, <2>6, <3>2, ConsistentOrders DEF OrderInv
  <2>7. CASE l >= r
    <3>1. loop' = [at |-> "range", stack |-> f]
      BY <2>4, <2>7
    <3>2. loop'.at = "range" /\ loop'.stack = f /\ Current' = w
      BY <2>2, <2>4, <3>1 DEF Current
    <3>3. ASSUME Claimed, Consistent(call.compare) PROVE RangesOrdered'
      <4>1. Waiting(InOrder, n, w, f)
        <5>1. \A p, q \in 0..(n - 1) : ~(l <= p /\ p < q /\ q <= r)
          BY <2>5, <2>7
        <5> QED BY <2>6, <3>3, <5>1, RangeSorted
      <4>2. InOrder' = InOrder
        BY <2>4, InOrderStays
      <4> QED BY <2>2, <2>4, <3>2, <4>1, <4>2 DEF RangesOrdered
    <3> QED BY <1>1, <1>2, <2>2, <2>4, <3>2, <3>3, LoopStep
  <2>8. CASE ~(l >= r) /\ r - l < InsertionLimit
    <3>1. loop' = [at |-> "insert", stack |-> f, l |-> l, r |-> r, i |-> h, j |-> g, t |-> y]
      BY <2>4, <2>8
    <3>2. /\ loop'.at = "insert" /\ loop'.stack = f /\ loop'.l = l /\ loop'.r = r
          /\ loop'.i = l + 1 /\ loop'.j = l /\ loop'.t = y
      BY <2>3, <2>5, <3>1
    <3>3. l + 1 \in Places /\ y \in Slots
      <4>1. l + 1 \in 0..(n - 1)
        BY <2>5, <2>8
      <4> QED BY <1>2, <2>2, <2>3, <4>1
    <3>4. Current' = w
      BY <1>2, <2>2, <2>3, <2>4, <3>2, <3>3 DEF Current
    <3>5. ASSUME Claimed, Consistent(call.compare) PROVE RangesOrdered'
      <4>1. InsertOrdered(InOrder, w, l, l + 1, l)
        BY <2>5 DEF InsertOrdered
      <4>2. InOrder' = InOrder
        BY <2>4, InOrderStays
      <4> QED BY <2>2, <2>4, <2>6, <3>2, <3>4, <3>5, <4>1, <4>2 DEF RangesOrdered
    <3> QED BY <1>1, <1>2, <2>2, <2>4, <3>2, <3>3, <3>4, <3>5, LoopStep
  <2>9. CASE ~(l >= r) /\ ~(r - l < InsertionLimit)
    <3>1. loop' = [at |-> "partition", stack |-> f, l |-> l, r |-> r, i |-> l - 1, j |-> r + 1, pivot |-> x]
      BY <2>4, <2>9
    <3>2. /\ loop'.at = "partition" /\ loop'.stack = f /\ loop'.l = l /\ loop'.r = r
          /\ loop'.i = l - 1 /\ loop'.j = r + 1 /\ loop'.pivot = x /\ Current' = w
      BY <2>2, <2>4, <3>1 DEF Current
    <3>3. k \in l..r /\ r \in Nat
      BY <2>2, <2>5, <2>9
    <3>4. x \in Slots /\ x = w[k]
      <4>1. k \in 0..(n - 1)
        BY <2>5, <3>3
      <4> QED BY <1>2, <2>2, <4>1
    <3>5. ASSUME Claimed, Consistent(call.compare) PROVE RangesOrdered'
      <4>1. <<w[k], x>> \in InOrder /\ <<x, w[k]>> \in InOrder
        BY <2>6, <3>4, <3>5 DEF Preorder
      <4>2. PartOrdered(InOrder, w, x, l, r, l - 1, r + 1)
        BY <2>5, <3>3, <4>1, PartBegins
      <4>3. InOrder' = InOrder
        BY <2>4, InOrderStays
      <4> QED BY <2>2, <2>4, <2>6, <3>2, <3>5, <4>2, <4>3 DEF RangesOrdered
    <3> QED BY <1>1, <1>2, <2>2, <2>4, <3>2, <3>4, <3>5, LoopStep
  <2> QED BY <2>7, <2>8, <2>9
<1> QED BY <1>3, <1>4

LEMMA ShiftOrder ==
  ASSUME HeightInv, OrderInv, SortShift
  PROVE  OrderInv'
<1>1. /\ call.fn = "sort" /\ stage = "loop" /\ loop.at = "insert" /\ InsertingAt /\ loop.t \in Slots
      /\ Claimed => SameCounts(start.len, Current, start.at)
      /\ Claimed /\ Consistent(call.compare) => RangesOrdered
      /\ loop.j >= loop.l /\ MovesBehind(array.at[loop.j], loop.t)
  BY DEF SortShift, Sorting, GoesOn, HeightInv, OrderInv
<1>2. /\ start.len \in Nat /\ array.len = start.len /\ 0..(start.len - 1) \subseteq Places
      /\ Current \in [Places -> Slots] /\ array.at \in [Places -> Slots]
      /\ array \in Arrays /\ ~Failed(array)
  BY <1>1, SortContents
<1>3. PICK s, l, r, i, j, t, n, w :
        /\ s = loop.stack /\ l = loop.l /\ r = loop.r /\ i = loop.i /\ j = loop.j /\ t = loop.t
        /\ n = start.len /\ w = Current
  OBVIOUS
<1>4. /\ loop = [at |-> "insert", stack |-> s, l |-> l, r |-> r, i |-> i, j |-> j, t |-> t]
      /\ l \in Nat /\ r \in Nat /\ i \in (l + 1)..r /\ j \in l..(i - 1) /\ r < n /\ n \in Nat
  BY <1>1, <1>2, <1>3 DEF InsertingAt, Halved
<1>5. /\ array' = Move(array, j, j + 1) /\ UNCHANGED <<start, call>>
      /\ stage' = IF Failed(array') THEN "done" ELSE "loop"
      /\ loop' = [at |-> "insert", stack |-> s, l |-> l, r |-> r, i |-> i, j |-> j - 1, t |-> t]
  <2>1. loop' = [loop EXCEPT !.j = @ - 1]
    BY <1>1 DEF SortShift, Resume
  <2>2. loop' = [at |-> "insert", stack |-> s, l |-> l, r |-> r, i |-> i, j |-> j - 1, t |-> t]
    BY <1>4, <2>1
  <2> QED BY <1>1, <1>3, <2>2 DEF SortShift, Resume
<1>6. /\ loop'.at = "insert" /\ loop'.stack = s /\ loop'.l = l /\ loop'.r = r /\ loop'.i = i
      /\ loop'.j = j - 1 /\ loop'.t = t /\ loop'.j + 1 = j
  BY <1>4, <1>5
<1>7. /\ j \in 0..(n - 1) /\ j + 1 \in 0..(n - 1) /\ j \in Places /\ j + 1 \in Places /\ j # j + 1
  <2>1. j \in 0..(n - 1) /\ j + 1 \in 0..(n - 1) /\ j # j + 1
    BY <1>4
  <2> QED BY <1>2, <1>3, <2>1
<1>8. w = [array.at EXCEPT ![j + 1] = t]
  BY <1>3, <1>4 DEF Current
<1>9. /\ array' \in Arrays /\ array'.len = n
      /\ ~Failed(array') => array'.at = [array.at EXCEPT ![j + 1] = array.at[j]]
  BY <1>2, <1>3, <1>5, <1>7, Moved
<1>10. PICK v : v = Current'
  OBVIOUS
<1>11. ASSUME ~Failed(array')
       PROVE  v[j] = w[j + 1] /\ v[j + 1] = w[j] /\ \A k \in 0..(n - 1) : k = j \/ k = j + 1 \/ v[k] = w[k]
  <2>1. v = [[array.at EXCEPT ![j + 1] = array.at[j]] EXCEPT ![j] = t]
    BY <1>6, <1>9, <1>10, <1>11 DEF Current
  <2> QED BY <1>2, <1>3, <1>7, <1>8, <2>1
<1>12. \A k \in 0..(n - 1) : w[k] \in Slots
  BY <1>2, <1>3
<1>13. ASSUME ~Failed(array'), Claimed PROVE SameCounts(n, v, start.at)
  <2>1. SameCounts(n, v, w)
    BY <1>4, <1>7, <1>11, <1>13, ExchangeKeeps
  <2> QED BY <1>1, <1>3, <1>13, <2>1, CountsChain
<1>14. ASSUME ~Failed(array'), Claimed, Consistent(call.compare) PROVE RangesOrdered'
  <2>1. PICK L : L = InOrder
    OBVIOUS
  <2>2. Working(L, n, w, s, l, r) /\ InsertOrdered(L, w, l, i, j) /\ Preorder(L)
    BY <1>1, <1>3, <1>14, <2>1, ConsistentOrders DEF RangesOrdered, OrderInv
  <2>3. <<w[j], w[j + 1]>> \notin L
    BY <1>1, <1>2, <1>3, <1>7, <1>8, <2>1 DEF InOrder
  <2>4. InsertOrdered(L, v, l, i, j - 1)
    <3>1. l <= j /\ j < i /\ i < n /\ i \in Nat /\ j \in Nat
      BY <1>4
    <3> QED BY <1>4, <1>11, <1>12, <1>14, <2>2, <2>3, <3>1, ShiftOrders
  <2>5. Working(L, n, v, s, l, r)
    <3>1. j \in l..r /\ j + 1 \in l..r
      BY <1>4
    <3>2. \A k \in 0..(n - 1) : ~(l <= k /\ k <= r) => v[k] = w[k]
      BY <1>11, <1>14, <3>1
    <3>3. ASSUME NEW k \in l..r PROVE \E h \in l..r : v[k] = w[h]
      <4>1. k \in 0..(n - 1)
        BY <1>4
      <4> QED BY <1>11, <1>14, <3>1, <4>1
    <3> QED BY <1>4, <2>2, <3>2, <3>3, MoveWithin
  <2>6. InOrder' = L
    BY <1>5, <2>1, InOrderStays
  <2> QED BY <1>3, <1>5, <1>6, <1>10, <2>4, <2>5, <2>6 DEF RangesOrdered
<1> QED BY <1>1, <1>3, <1>5, <1>6, <1>9, <1>10, <1>13, <1>14, LoopStep

LEMMA PlaceOrder ==
  ASSUME HeightInv, OrderInv, SortPlace
  PROVE  OrderInv'
<1>1. /\ call.fn = "sort" /\ stage = "loop" /\ loop.at = "insert" /\ InsertingAt /\ loop.t \in Slots
      /\ Claimed => SameCounts(start.len, Current, start.at)
      /\ Claimed /\ Consistent(call.compare) => RangesOrdered
      /\ loop.j < loop.l \/ ~MovesBehind(array.at[loop.j], loop.t)
  <2>1. /\ call.fn = "sort" /\ stage = "loop" /\ loop.at = "insert" /\ InsertingAt /\ loop.t \in Slots
        /\ Claimed => SameCounts(start.len, Current, start.at)
        /\ Claimed /\ Consistent(call.compare) => RangesOrdered
        /\ ~(loop.j >= loop.l) \/ ~MovesBehind(array.at[loop.j], loop.t)
    BY DEF SortPlace, Sorting, GoesOn, HeightInv, OrderInv
  <2>2. loop.j \in Int /\ loop.l \in Int
    BY <2>1 DEF InsertingAt, Halved
  <2> QED BY <2>1, <2>2
<1>2. /\ start.len \in Nat /\ array.len = start.len /\ 0..(start.len - 1) \subseteq Places
      /\ Current \in [Places -> Slots] /\ array.at \in [Places -> Slots]
      /\ array \in Arrays /\ ~Failed(array)
  BY <1>1, SortContents
<1>3. PICK s, l, r, i, j, t, n, w :
        /\ s = loop.stack /\ l = loop.l /\ r = loop.r /\ i = loop.i /\ j = loop.j /\ t = loop.t
        /\ n = start.len /\ w = Current
  OBVIOUS
<1>4. /\ l \in Nat /\ r \in Nat /\ i \in (l + 1)..r /\ j \in (l - 1)..(i - 1) /\ r < n /\ n \in Nat
  BY <1>1, <1>2, <1>3 DEF InsertingAt, Halved
<1>5. PICK b : b = IF t = Hole THEN DeleteAt(array, j + 1) ELSE PutAt(array, j + 1, t)
  OBVIOUS
<1>6. PICK h, y : h = i + 1 /\ y = b.at[h]
  OBVIOUS
<1>7. /\ array' = b /\ UNCHANGED <<start, call>>
      /\ stage' = IF Failed(array') THEN "done" ELSE "loop"
      /\ loop' = IF i = r THEN [at |-> "range", stack |-> s]
                 ELSE [at |-> "insert", stack |-> s, l |-> l, r |-> r, i |-> h, j |-> h - 1, t |-> y]
  <2>1. /\ array' = b /\ UNCHANGED <<start, call>>
        /\ stage' = IF Failed(array') THEN "done" ELSE "loop"
        /\ loop' = IF i = r THEN [at |-> "range", stack |-> s] ELSE Inserting(b, s, l, r, h)
    BY <1>1, <1>3, <1>5, <1>6 DEF SortPlace, Resume
  <2> QED BY <1>6, <2>1 DEF Inserting
<1>8. j + 1 \in 0..(n - 1) /\ j + 1 \in Places
  <2>1. j + 1 \in 0..(n - 1)
    BY <1>4
  <2> QED BY <1>2, <1>3, <2>1
<1>9. w = [array.at EXCEPT ![j + 1] = t]
  BY <1>1, <1>3 DEF Current
<1>10. b \in Arrays /\ b.len = n /\ (~Failed(b) => b.at = w)
  BY <1>1, <1>2, <1>3, <1>5, <1>8, <1>9, Stored
<1>11. \A k \in 0..(n - 1) : w[k] \in Slots
  BY <1>2, <1>3
<1>12. ASSUME Claimed, Consistent(call.compare)
       PROVE  /\ Working(InOrder, n, w, s, l, r)
              /\ \A p, q \in l..i : p < q => <<w[p], w[q]>> \in InOrder
  <2>1. PICK L : L = InOrder
    OBVIOUS
  <2>2. Working(L, n, w, s, l, r) /\ InsertOrdered(L, w, l, i, j) /\ Preorder(L)
    BY <1>1, <1>3, <1>12, <2>1, ConsistentOrders DEF RangesOrdered, OrderInv
  <2>3. j < l \/ <<w[j], w[j + 1]>> \in L
    <3> SUFFICES ASSUME ~(j < l) PROVE <<w[j], w[j + 1]>> \in L
      OBVIOUS
    <3>1. j \in 0..(n - 1) /\ j # j + 1
      BY <1>4
    <3>2. w[j] = array.at[j] /\ w[j + 1] = t /\ w[j] \in Slots
      BY <1>2, <1>3, <1>8, <1>9, <3>1
    <3> QED BY <1>1, <1>3, <2>1, <3>2 DEF InOrder
  <2>4. i \in Nat /\ j \in Int /\ l - 1 <= j /\ j < i /\ i < n
    BY <1>4
  <2>5. \A p, q \in l..i : p < q => <<w[p], w[q]>> \in L
    BY <1>4, <1>11, <2>2, <2>3, <2>4, PlaceOrders
  <2> QED BY <2>1, <2>2, <2>5
<1>13. InOrder' = InOrder
  BY <1>7, InOrderStays
<1>14. CASE i = r
  <2>1. loop'.at = "range" /\ loop'.stack = s /\ (~Failed(array') => Current' = w)
    BY <1>7, <1>10, <1>14 DEF Current
  <2>2. ASSUME ~Failed(array'), Claimed, Consistent(call.compare) PROVE RangesOrdered'
    <3>1. \A p, q \in 0..(n - 1) : l <= p /\ p < q /\ q <= r => <<w[p], w[q]>> \in InOrder
      <4>1. \A p, q \in 0..(n - 1) : l <= p /\ p < q /\ q <= r => p \in l..i /\ q \in l..i
        BY <1>4, <1>14
      <4> QED BY <1>12, <2>2, <4>1
    <3>2. Waiting(InOrder, n, w, s)
      BY <1>12, <2>2, <3>1, RangeSorted
    <3> QED BY <1>3, <1>7, <1>13, <2>1, <2>2, <3>2 DEF RangesOrdered
  <2> QED BY <1>1, <1>3, <1>7, <1>10, <2>1, <2>2, LoopStep
<1>15. CASE i # r
  <2>1. loop' = [at |-> "insert", stack |-> s, l |-> l, r |-> r, i |-> h, j |-> h - 1, t |-> y]
    BY <1>7, <1>15
  <2>2. /\ loop'.at = "insert" /\ loop'.stack = s /\ loop'.l = l /\ loop'.r = r
        /\ loop'.i = h /\ loop'.j = i /\ loop'.t = y /\ loop'.j + 1 = h
    BY <1>4, <1>6, <2>1
  <2>3. h \in Places
    <3>1. h \in 0..(n - 1)
      BY <1>4, <1>6, <1>15
    <3> QED BY <1>2, <1>3, <3>1
  <2>4. y \in Slots
    BY <1>6, <1>10, <2>3 DEF Arrays, Slots
  <2>5. ~Failed(array') => Current' = w
    <3>1. Current' = [b.at EXCEPT ![h] = b.at[h]]
      BY <1>6, <1>7, <2>2 DEF Current
    <3> QED BY <1>2, <1>3, <1>7, <1>10, <2>3, <3>1
  <2>6. ASSUME ~Failed(array'), Claimed, Consistent(call.compare) PROVE RangesOrdered'
    <3>1. InsertOrdered(InOrder, w, l, h, i)
      <4>1. \A p, q \in l..h : p < q /\ q # i + 1 => p \in l..i /\ q \in l..i
        BY <1>4, <1>6
      <4> QED BY <1>12, <2>6, <4>1 DEF InsertOrdered
    <3> QED BY <1>3, <1>7, <1>12, <1>13, <2>2, <2>5, <2>6, <3>1 DEF RangesOrdered
  <2> QED BY <1>1, <1>3, <1>7, <1>10, <2>2, <2>4, <2>5, <2>6, LoopStep
<1> QED BY <1>14, <1>15

\* The searches of a partition pass over what belongs strictly on their side.
LEMMA PassedOver ==
  ASSUME call.compare \in [Defined \X Defined -> Int], Consistent(call.compare),
         loop.pivot \in Slots, NEW y \in Slots
  PROVE  /\ PassedFromLeft(y) <=> <<loop.pivot, y>> \notin InOrder
         /\ PassedFromRight(y) <=> <<y, loop.pivot>> \notin InOrder
<1>1. PICK c, x : c = call.compare /\ x = loop.pivot
  OBVIOUS
<1>2. /\ x \in Defined \/ x = Hole \/ x = Undefined
      /\ y \in Defined \/ y = Hole \/ y = Undefined
      /\ x \in Slots /\ Hole # Undefined /\ Hole \notin Defined /\ Undefined \notin Defined
  BY <1>1, ArrayAssumption DEF Slots, Defined
<1>3. x \in Defined /\ y \in Defined =>
        c[<<x, y>>] \in Int /\ c[<<y, x>>] \in Int /\ c[<<x, y>>] = -c[<<y, x>>]
  BY <1>1 DEF Consistent
<1>4. /\ <<x, y>> \notin InOrder <=> MovesBehind(x, y)
      /\ <<y, x>> \notin InOrder <=> MovesBehind(y, x)
  BY <1>2 DEF InOrder
<1> QED BY <1>1, <1>2, <1>3, <1>4 DEF MovesBehind, Compared, PassedFromLeft, PassedFromRight

\* Where they stop.
LEMMA SearchesPass ==
  ASSUME Partitioning
  PROVE  /\ \A k \in (loop.i + 1)..(FromLeft - 1) : PassedFromLeft(array.at[k])
         /\ FromLeft = loop.r \/ ~PassedFromLeft(array.at[FromLeft])
         /\ \A k \in (FromRight + 1)..(loop.j - 1) : PassedFromRight(array.at[k])
         /\ FromRight = loop.l \/ ~PassedFromRight(array.at[FromRight])
<1>1. PICK l, r, i, j : l = loop.l /\ r = loop.r /\ i = loop.i /\ j = loop.j
  OBVIOUS
<1>2. l \in Nat /\ r \in Nat /\ i \in (l - 1)..(r - 1) /\ j \in (l + 1)..(r + 1)
  <2>1. /\ l \in Nat /\ r \in Int /\ r - l >= InsertionLimit
        /\ i \in (l - 1)..(r - 1) /\ j \in (l + 1)..(r + 1)
    BY <1>1 DEF Partitioning
  <2> QED BY <2>1, SortAssumption
<1>3. PICK U : U = {k \in (i + 1)..r : k = r \/ ~PassedFromLeft(array.at[k])}
  OBVIOUS
<1>4. PICK D : D = {k \in l..(j - 1) : k = l \/ ~PassedFromRight(array.at[k])}
  OBVIOUS
<1>5. U \subseteq (i + 1)..r /\ r \in U /\ D \subseteq l..(j - 1) /\ l \in D
  BY <1>2, <1>3, <1>4
<1>6. U \subseteq 0..r /\ D \subseteq 0..(r + 1) /\ r + 1 \in Nat
  BY <1>2, <1>5
<1>7. PICK p, q : p = FromLeft /\ q = FromRight
  OBVIOUS
<1>8. p = Min(U) /\ q = Max(D)
  BY <1>1, <1>3, <1>4, <1>7 DEF FromLeft, FromRight
<1>9. p \in U /\ (\A k \in U : p <= k) /\ q \in D /\ \A k \in D : q >= k
  BY <1>2, <1>5, <1>6, <1>8, Extremes
<1>10. \A k \in (i + 1)..(p - 1) : PassedFromLeft(array.at[k])
  <2> TAKE k \in (i + 1)..(p - 1)
  <2>1. k \in (i + 1)..r /\ ~(p <= k)
    BY <1>2, <1>5, <1>9
  <2> QED BY <1>3, <1>9, <2>1
<1>11. \A k \in (q + 1)..(j - 1) : PassedFromRight(array.at[k])
  <2> TAKE k \in (q + 1)..(j - 1)
  <2>1. k \in l..(j - 1) /\ ~(q >= k)
    BY <1>2, <1>5, <1>9
  <2> QED BY <1>4, <1>9, <2>1
<1> QED BY <1>1, <1>3, <1>4, <1>7, <1>9, <1>10, <1>11

LEMMA PartitionOrder ==
  ASSUME HeightInv, OrderInv, SortPartition
  PROVE  OrderInv'
<1>1. /\ call.fn = "sort" /\ stage = "loop" /\ loop.at = "partition" /\ Partitioning /\ RangesHalved
      /\ loop.pivot \in Slots
      /\ Claimed => SameCounts(start.len, Current, start.at)
      /\ Claimed /\ Consistent(call.compare) => RangesOrdered
      /\ Current = array.at
  BY DEF SortPartition, Sorting, HeightInv, OrderInv, Current
<1>2. /\ start.len \in Nat /\ array.len = start.len /\ 0..(start.len - 1) \subseteq Places
      /\ array.at \in [Places -> Slots] /\ array \in Arrays /\ ~Failed(array)
  BY <1>1, SortContents
<1>3. PICK s, l, r, i0, j0, x, n, w :
        /\ s = loop.stack /\ l = loop.l /\ r = loop.r /\ i0 = loop.i /\ j0 = loop.j /\ x = loop.pivot
        /\ n = start.len /\ w = array.at
  OBVIOUS
<1>4. PICK i, j : i = FromLeft /\ j = FromRight
  OBVIOUS
<1>5. /\ loop = [at |-> "partition", stack |-> s, l |-> l, r |-> r, i |-> i0, j |-> j0, pivot |-> x]
      /\ l \in Nat /\ r \in Nat /\ r < n /\ r - l >= InsertionLimit /\ n \in Nat
      /\ i0 \in (l - 1)..(r - 1) /\ j0 \in (l + 1)..(r + 1)
      /\ s \in Seq(Int \X Int)
  <2>1. /\ loop = [at |-> "partition", stack |-> s, l |-> l, r |-> r, i |-> i0, j |-> j0, pivot |-> x]
        /\ l \in Nat /\ r \in Int /\ r < n /\ r - l >= InsertionLimit /\ n \in Nat
        /\ i0 \in (l - 1)..(r - 1) /\ j0 \in (l + 1)..(r + 1)
        /\ s \in Seq(Int \X Int)
    BY <1>1, <1>2, <1>3 DEF Partitioning, Halved, RangesHalved
  <2> QED BY <2>1, SortAssumption
<1>6. i \in (i0 + 1)..r /\ j \in l..(j0 - 1)
  BY <1>1, <1>3, <1>4, SearchesInRange
<1>7. i \in l..r /\ j \in l..r /\ i \in 0..(n - 1) /\ j \in 0..(n - 1)
  BY <1>5, <1>6
<1>8. \A k \in 0..(n - 1) : w[k] \in Slots
  BY <1>2, <1>3
<1>9. ASSUME Claimed, Consistent(call.compare)
      PROVE  /\ Working(InOrder, n, w, s, l, r) /\ Preorder(InOrder)
             /\ <<x, w[i]>> \in InOrder /\ <<w[j], x>> \in InOrder
             /\ \A k \in l..(i - 1) : <<w[k], x>> \in InOrder
             /\ \A k \in (j + 1)..r : <<x, w[k]>> \in InOrder
  <2>1. PICK L : L = InOrder
    OBVIOUS
  <2>2. Working(L, n, w, s, l, r) /\ PartOrdered(L, w, x, l, r, i0, j0) /\ Preorder(L)
    BY <1>1, <1>3, <1>9, <2>1, ConsistentOrders DEF RangesOrdered, OrderInv
  <2>3. \A y \in Slots : /\ PassedFromLeft(y) <=> <<x, y>> \notin L
                         /\ PassedFromRight(y) <=> <<y, x>> \notin L
    BY <1>1, <1>3, <1>9, <2>1, PassedOver DEF OrderInv
  <2>4. /\ \A k \in (i0 + 1)..(i - 1) : PassedFromLeft(w[k])
        /\ i = r \/ ~PassedFromLeft(w[i])
        /\ \A k \in (j + 1)..(j0 - 1) : PassedFromRight(w[k])
        /\ j = l \/ ~PassedFromRight(w[j])
    BY <1>1, <1>3, <1>4, SearchesPass
  <2>5. \A k \in (i0 + 1)..(i - 1) : k \in 0..(n - 1)
    BY <1>5, <1>6
  <2>6. \A k \in (j + 1)..(j0 - 1) : k \in 0..(n - 1)
    BY <1>5, <1>6
  <2>7. /\ \A k \in (i0 + 1)..(i - 1) : <<x, w[k]>> \notin L
        /\ i = r \/ <<x, w[i]>> \in L
        /\ \A k \in (j + 1)..(j0 - 1) : <<w[k], x>> \notin L
        /\ j = l \/ <<w[j], x>> \in L
    BY <1>7, <1>8, <2>3, <2>4, <2>5, <2>6
  <2>8. i0 \in (l - 1)..r /\ j0 \in l..(r + 1) /\ x \in Slots
    BY <1>1, <1>3, <1>5
  <2>9. /\ <<x, w[i]>> \in L /\ <<w[j], x>> \in L
        /\ \A k \in l..(i - 1) : <<w[k], x>> \in L
        /\ \A k \in (j + 1)..r : <<x, w[k]>> \in L
    BY <1>5, <1>6, <1>8, <2>2, <2>7, <2>8, SearchesStop
  <2> QED BY <2>1, <2>2, <2>9
<1>10. CASE i < j
  <2>1. PICK b : b = Swapped(array, i, j)
    OBVIOUS
  <2>2. /\ array' = b /\ UNCHANGED <<start, call>>
        /\ stage' = IF Failed(array') THEN "done" ELSE "loop"
        /\ loop' = [at |-> "partition", stack |-> s, l |-> l, r |-> r, i |-> i, j |-> j, pivot |-> x]
    <3>1. /\ array' = b /\ UNCHANGED <<start, call>>
          /\ stage' = IF Failed(array') THEN "done" ELSE "loop"
          /\ loop' = [loop EXCEPT !.i = i, !.j = j]
      BY <1>1, <1>4, <1>10, <2>1 DEF SortPartition, Resume
    <3> QED BY <1>5, <3>1
  <2>3. /\ loop'.at = "partition" /\ loop'.stack = s /\ loop'.l = l /\ loop'.r = r
        /\ loop'.i = i /\ loop'.j = j /\ loop'.pivot = x
    BY <2>2
  <2>4. i # j
    BY <1>7, <1>10
  <2>5. /\ b \in Arrays /\ b.len = n
        /\ ~Failed(b) /\ Has(array, i) /\ Has(array, j) => b.at = [w EXCEPT ![i] = w[j], ![j] = w[i]]
    BY <1>2, <1>3, <1>7, <2>1, <2>4, SwappedHolds
  <2>6. PICK v : v = Current'
    OBVIOUS
  <2>7. v = b.at
    BY <2>2, <2>3, <2>6 DEF Current
  <2>8. ASSUME ~Failed(array'), Claimed
        PROVE  v[i] = w[j] /\ v[j] = w[i] /\ \A k \in 0..(n - 1) : k = i \/ k = j \/ v[k] = w[k]
    <3>1. Dense(start)
      <4>1. ~(start.len <= InsertionLimit)
        BY <1>3, <1>5, SortAssumption
      <4> QED BY <2>8, <4>1 DEF Claimed
    <3>2. \A k \in 0..(n - 1) : w[k] # Hole
      <4>1. PICK u : u = start.at
        OBVIOUS
      <4>2. SameCounts(n, w, u) /\ \A k \in 0..(n - 1) : u[k] # Hole
        BY <1>1, <1>3, <2>8, <3>1, <4>1 DEF Dense, Has
      <4> QED BY <1>5, <4>2, NoHoles
    <3>3. v = [w EXCEPT ![i] = w[j], ![j] = w[i]]
      BY <1>3, <1>7, <2>2, <2>5, <2>7, <2>8, <3>2 DEF Has
    <3>4. w \in [Places -> Slots] /\ i \in Places /\ j \in Places /\ 0..(n - 1) \subseteq Places
      BY <1>2, <1>3, <1>7
    <3> QED BY <2>4, <3>3, <3>4
  <2>9. ASSUME ~Failed(array'), Claimed PROVE SameCounts(n, v, start.at)
    <3>1. SameCounts(n, v, w)
      BY <1>5, <1>7, <2>8, <2>9, ExchangeKeeps
    <3> QED BY <1>1, <1>3, <2>9, <3>1, CountsChain
  <2>10. ASSUME ~Failed(array'), Claimed, Consistent(call.compare) PROVE RangesOrdered'
    <3>1. PICK L : L = InOrder
      OBVIOUS
    <3>2. PartOrdered(L, v, x, l, r, i, j)
      BY <1>5, <1>7, <1>9, <1>10, <2>8, <2>10, <3>1, ExchangeOrders
    <3>3. Working(L, n, v, s, l, r)
      <4>1. \A k \in 0..(n - 1) : ~(l <= k /\ k <= r) => v[k] = w[k]
        BY <1>7, <2>8, <2>10
      <4>2. ASSUME NEW k \in l..r PROVE \E h \in l..r : v[k] = w[h]
        <5>1. k \in 0..(n - 1)
          BY <1>5
        <5> QED BY <1>7, <2>8, <2>10, <5>1
      <4>3. Working(L, n, w, s, l, r)
        BY <1>9, <2>10, <3>1
      <4> QED BY <1>5, <4>1, <4>2, <4>3, MoveWithin
    <3>4. InOrder' = L
      BY <2>2, <3>1, InOrderStays
    <3> QED BY <1>3, <2>2, <2>3, <2>6, <3>2, <3>3, <3>4 DEF RangesOrdered
  <2> QED BY <1>1, <1>3, <2>2, <2>3, <2>5, <2>6, <2>9, <2>10, LoopStep
<1>11. CASE ~(i < j) /\ Len(s) + 2 > StackSize
  <2>1. /\ array' = Throw(array, "Type") /\ UNCHANGED <<start, call>>
        /\ stage' = IF Failed(array') THEN "done" ELSE "loop"
    BY <1>1, <1>3, <1>4, <1>11 DEF SortPartition, Resume
  <2>2. Failed(array')
    BY <1>2, <2>1 DEF Throw, Failed, Arrays
  <2> QED BY <1>1, <2>1, <2>2 DEF OrderInv, Failed
<1>12. CASE ~(i < j) /\ ~(Len(s) + 2 > StackSize)
  <2>1. PICK t : t = s \o Split(i)
    OBVIOUS
  <2>2. /\ array' = array /\ UNCHANGED <<start, call>>
        /\ stage' = IF Failed(array') THEN "done" ELSE "loop"
        /\ loop' = [at |-> "range", stack |-> t]
    BY <1>1, <1>3, <1>4, <1>12, <2>1 DEF SortPartition, Resume
  <2>3. loop'.at = "range" /\ loop'.stack = t /\ Current' = w
    BY <1>3, <2>2 DEF Current
  <2>4. ASSUME Claimed, Consistent(call.compare) PROVE RangesOrdered'
    <3>1. PICK L : L = InOrder
      OBVIOUS
    <3>2. i >= j
      BY <1>7, <1>12
    <3>3. \A p \in l..(i - 1), q \in i..r : <<w[p], w[q]>> \in L
      <4>1. Preorder(L)
        BY <1>9, <2>4, <3>1
      <4>2. /\ <<x, w[i]>> \in L
            /\ \A k \in l..(i - 1) : <<w[k], x>> \in L
            /\ \A k \in (j + 1)..r : <<x, w[k]>> \in L
        BY <1>9, <2>4, <3>1
      <4>3. /\ n \in Nat /\ l \in Nat /\ r \in Nat /\ r < n
            /\ i \in l..r /\ j \in l..r /\ \A k \in 0..(n - 1) : w[k] \in Slots
        BY <1>5, <1>7, <1>8
      <4>4. x \in Slots
        BY <1>1, <1>3
      <4> QED BY <3>2, <4>1, <4>2, <4>3, <4>4, PartsOrdered
    <3>4. PICK a, b : /\ t = s \o <<a, b>>
                      /\ \/ a = <<l, i - 1>> /\ b = <<i, r>>
                         \/ a = <<i, r>> /\ b = <<l, i - 1>>
      <4>1. Split(i) = IF i - l < r - i THEN <<<<i, r>>, <<l, i - 1>>>> ELSE <<<<l, i - 1>>, <<i, r>>>>
        BY <1>3 DEF Split
      <4> QED BY <2>1, <4>1
    <3>5. Working(L, n, w, s, l, r)
      BY <1>9, <2>4, <3>1
    <3>6. Waiting(L, n, w, s \o <<a, b>>)
      BY <1>5, <1>7, <3>3, <3>4, <3>5, RangeSplit
    <3>7. InOrder' = L
      BY <2>2, <3>1, InOrderStays
    <3> QED BY <1>3, <2>2, <2>3, <3>4, <3>6, <3>7 DEF RangesOrdered
  <2> QED BY <1>1, <1>2, <1>3, <2>2, <2>3, <2>4, LoopStep
<1> QED BY <1>10, <1>11, <1>12

LEMMA StepOrder ==
  ASSUME HeightInv, OrderInv, [BNext]_bvars
  PROVE  OrderInv'
<1>1. CASE Begin \/ Skip \/ FirstElement \/ Visit \/ End
  <2>1. call' = call /\ call.fn # "sort"
    BY <1>1 DEF Begin, Skip, FirstElement, Visit, End, Return, Looping, Iterating
  <2> QED BY <2>1 DEF OrderInv
<1>2. CASE WithoutScript
  <2>1. call' = call /\ call.fn # "sort"
    BY <1>2 DEF WithoutScript, Doing, Return
  <2> QED BY <2>1 DEF OrderInv
<1>3. CASE UNCHANGED bvars
  <2>1. UNCHANGED <<array, start, call, loop, stage>>
    BY <1>3 DEF bvars
  <2>2. InOrder' = InOrder /\ (Claimed' <=> Claimed)
    BY <2>1, InOrderStays
  <2>3. Current' = Current
    BY <2>1 DEF Current
  <2>4. RangesOrdered => RangesOrdered'
    BY <2>1, <2>2, <2>3 DEF RangesOrdered
  <2> QED BY <2>1, <2>2, <2>3, <2>4 DEF OrderInv, Failed
<1> QED BY <1>1, <1>2, <1>3, BeginOrder, RangeOrder, ShiftOrder, PlaceOrder, PartitionOrder DEF BNext

\* sort (ArraySort and its quick sort and insertion sort) puts the elements of an
\* array of any length in another order and loses none, whatever the comparison
\* function answers; with a consistent one they are in order, undefined and then
\* holes last; and the stack of ranges stays as low as halving keeps it.
THEOREM SortKeepsToES5 == BSpec => []SortMatchesES5
<1>1. BInit => HeightInv /\ OrderInv
  BY StartsAssumption DEF BInit, HeightInv, OrderInv
<1>2. HeightInv /\ OrderInv /\ [BNext]_bvars => HeightInv' /\ OrderInv'
  BY StepSort, StepOrder
<1>3. OrderInv => SortKeepsElements
  BY DEF OrderInv, SortKeepsElements, Sorted, Ended, Count, SameCounts, Claimed, Slots
<1>4. OrderInv => SortOrders
  <2> SUFFICES ASSUME OrderInv, Sorted, Consistent(call.compare), Claimed,
                      NEW i \in 0..(array.len - 1), NEW j \in 0..(array.len - 1), i < j
               PROVE  ~MovesBehind(array.at[i], array.at[j])
    BY DEF SortOrders, Claimed
  <2>1. array.len = start.len
    BY DEF OrderInv, Sorted, Ended
  <2>2. i \in 0..(start.len - 1) /\ j \in 0..(start.len - 1)
    BY <2>1
  <2>3. <<array.at[i], array.at[j]>> \in InOrder
    BY <2>2 DEF OrderInv, Sorted, Ended
  <2> QED BY <2>3 DEF InOrder
<1>5. BSpec => []SortStackBound
  BY SortStackSuffices, PTL
<1> QED BY <1>1, <1>2, <1>3, <1>4, <1>5, PTL DEF BSpec, SortMatchesES5

-----------------------------------------------------------------------------
(* Loops over a sequence of numbers                                        *)

\* What holds before the first and is passed on holds after the last.
LEMMA Reaches ==
  ASSUME NEW n \in Nat, NEW T, 0 \in T, \A k \in 1..n : k - 1 \in T => k \in T
  PROVE  \A k \in 0..n : k \in T
<1> DEFINE Failing == {k \in 0..n : k \notin T}
<1>1. SUFFICES ASSUME Failing # {} PROVE FALSE
  OBVIOUS
<1>2. Failing \subseteq Nat
  OBVIOUS
<1>3. PICK p \in Failing : \A q \in Failing : p <= q
  <2> HIDE DEF Failing
  <2> QED BY <1>1, <1>2, LeastNumber
<1>4. p \in 1..n /\ p \notin T
  OBVIOUS
<1>5. p - 1 \in 0..n /\ ~(p <= p - 1)
  BY <1>4
<1>6. p - 1 \in T
  BY <1>3, <1>5
<1> QED BY <1>4, <1>6

\* A function by recursion over the numbers up to n.
StaysIn(A, n, G) == \A b \in A, k \in 1..n : G[<<b, k>>] \in A
Follows(f, a, n, G) == f[0] = a /\ \A k \in 1..n : f[k] = G[<<f[k - 1], k>>]
LEMMA Recursion ==
  ASSUME NEW A, NEW n \in Nat, NEW a \in A, NEW G, StaysIn(A, n, G)
  PROVE  \E f \in [0..n -> A] : Follows(f, a, n, G)
<1> DEFINE Upto(m, f) == f \in [0..m -> A] /\ f[0] = a /\ \A k \in 1..m : f[k] = G[<<f[k - 1], k>>]
           T == {m \in 0..n : \E f : Upto(m, f)}
<1>1. 0 \in T
  <2>1. Upto(0, [k \in 0..0 |-> a])
    OBVIOUS
  <2> HIDE DEF Upto
  <2> QED BY <2>1
<1>2. ASSUME NEW m \in 1..n, m - 1 \in T PROVE m \in T
  <2>1. PICK f : Upto(m - 1, f)
    BY <1>2
  <2>2. PICK v \in A : v = G[<<f[m - 1], m>>]
    <3>1. m - 1 \in 0..(m - 1)
      BY <1>2
    <3>2. f[m - 1] \in A
      BY <2>1, <3>1
    <3> QED BY <3>2 DEF StaysIn
  <2>3. PICK g : g = [k \in 0..m |-> IF k = m THEN v ELSE f[k]]
    OBVIOUS
  <2>4. \A k \in 0..(m - 1) : k \in 0..m /\ k # m /\ g[k] = f[k]
    BY <2>3
  <2>5. g \in [0..m -> A]
    <3>1. \A k \in 0..m : k = m \/ k \in 0..(m - 1)
      OBVIOUS
    <3> QED BY <2>1, <2>3, <3>1
  <2>6. g[0] = a
    <3>1. 0 \in 0..(m - 1)
      BY <1>2
    <3> QED BY <2>1, <2>4, <3>1
  <2>7. ASSUME NEW k \in 1..m PROVE g[k] = G[<<g[k - 1], k>>]
    <3>1. k - 1 \in 0..(m - 1)
      OBVIOUS
    <3>2. CASE k = m
      <4>1. g[k] = v /\ g[k - 1] = f[m - 1]
        BY <2>3, <2>4, <3>1, <3>2
      <4> QED BY <2>2, <3>2, <4>1
    <3>3. CASE k # m
      <4>1. k \in 1..(m - 1) /\ k \in 0..(m - 1)
        BY <3>3
      <4> QED BY <2>1, <2>4, <3>1, <4>1
    <3> QED BY <3>2, <3>3
  <2>8. Upto(m, g)
    BY <2>5, <2>6, <2>7
  <2> HIDE DEF Upto
  <2> QED BY <2>8
<1>3. \A k \in 0..n : k \in T
  <2> HIDE DEF T
  <2> QED BY <1>1, <1>2, Reaches
<1>4. n \in T
  BY <1>3
<1> QED BY <1>4 DEF Follows

LEMMA MoveTyped ==
  ASSUME NEW a \in Arrays, NEW i \in Places, NEW k \in Places
  PROVE  Move(a, i, k) \in Arrays
<1>1. Has(a, i) => a.at[i] \in Elements
  BY DEF Has, Arrays
<1> QED BY <1>1, PutTyped, DeleteTyped DEF Move

Moving(g, a, n, p, d) ==
  /\ g[0] = a
  /\ \A k \in 1..n : g[k] = Move(g[k - 1], p[k], UInt32(p[k] + d))
  /\ MoveAll(a, p, d) = g[n]
LEMMA MoveAllIs ==
  ASSUME NEW a \in Arrays, NEW n \in Nat, NEW p, Len(p) = n, NEW d,
         \A k \in 1..n : p[k] \in Places /\ UInt32(p[k] + d) \in Places
  PROVE  \E g : Moving(g, a, n, p, d)
<1> DEFINE Step(f, k) == CHOOSE r \in {Move(b, p[k], UInt32(p[k] + d)) : b \in {f[k - 1]}} : TRUE
           Whole(f) == f = [k \in 0..n |-> IF k = 0 THEN a ELSE Step(f, k)]
<1>1. ASSUME NEW f, NEW k PROVE Step(f, k) = Move(f[k - 1], p[k], UInt32(p[k] + d))
  OBVIOUS
<1>2. PICK G : G = [x \in Arrays \X (1..n) |-> Move(x[1], p[x[2]], UInt32(p[x[2]] + d))]
  OBVIOUS
<1>3. \A b \in Arrays, k \in 1..n : G[<<b, k>>] = Move(b, p[k], UInt32(p[k] + d))
  BY <1>2
<1>4. PICK f \in [0..n -> Arrays] : f[0] = a /\ \A k \in 1..n : f[k] = G[<<f[k - 1], k>>]
  <2>1. StaysIn(Arrays, n, G)
    BY <1>3, MoveTyped DEF StaysIn
  <2>2. \E f \in [0..n -> Arrays] : Follows(f, a, n, G)
    BY <2>1, Recursion
  <2> QED BY <2>2 DEF Follows
<1>5. Whole(f)
  <2>1. ASSUME NEW k \in 1..n PROVE f[k] = Step(f, k)
    <3>1. k - 1 \in 0..n
      OBVIOUS
    <3>2. f[k - 1] \in Arrays
      BY <1>4, <3>1
    <3>3. f[k] = G[<<f[k - 1], k>>]
      BY <1>4
    <3>4. f[k] = Move(f[k - 1], p[k], UInt32(p[k] + d))
      BY <1>3, <3>2, <3>3
    <3> HIDE DEF Step
    <3> QED BY <1>1, <3>4
  <2>2. \A k \in 0..n : k = 0 \/ k \in 1..n
    OBVIOUS
  <2>3. f = [k \in 0..n |-> f[k]]
    BY <1>4
  <2> HIDE DEF Step
  <2> QED BY <1>4, <2>1, <2>2, <2>3
<1>6. PICK g : g = CHOOSE f1 : Whole(f1)
  OBVIOUS
<1>7. Whole(g)
  <2> HIDE DEF Whole
  <2> QED BY <1>5, <1>6
<1>8. MoveAll(a, p, d) = g[n]
  BY <1>6 DEF MoveAll, Each, Value
<1>9. g[0] = a
  BY <1>7
<1>10. ASSUME NEW k \in 1..n PROVE g[k] = Move(g[k - 1], p[k], UInt32(p[k] + d))
  <2>1. g[k] = Step(g, k)
    <3>1. k \in 0..n /\ k # 0
      OBVIOUS
    <3> HIDE DEF Step
    <3> QED BY <1>7, <3>1
  <2> QED BY <1>1, <2>1
<1> QED BY <1>8, <1>9, <1>10 DEF Moving
\* How many numbers there are from lo to hi.
Span(lo, hi) == IF hi < lo THEN 0 ELSE hi - lo + 1
Rising(u, from, n) == Len(u) = n /\ DOMAIN u = 1..n /\ \A k \in 1..n : u[k] = from + k - 1
Falling(u, from, n) == Len(u) = n /\ DOMAIN u = 1..n /\ \A k \in 1..n : u[k] = from - k + 1

LEMMA UpwardsIs ==
  ASSUME NEW from \in Int, NEW to \in Int, NEW n, n = Span(from, to)
  PROVE  n \in Nat /\ Rising(Upwards(from, to), from, n)
BY DEF Upwards, Span, Rising

LEMMA DownwardsIs ==
  ASSUME NEW from \in Int, NEW to \in Int, NEW n, n = Span(to, from)
  PROVE  n \in Nat /\ Falling(Downwards(from, to), from, n)
<1>1. PICK u : u = Upwards(to, from)
  OBVIOUS
<1>2. n \in Nat /\ Len(u) = n /\ \A k \in 1..n : u[k] = to + k - 1
  BY <1>1, UpwardsIs DEF Rising
<1>3. Downwards(from, to) = [k \in 1..n |-> u[(n - k) + 1]]
  BY <1>1, <1>2 DEF Downwards, Reverse
<1>4. ASSUME NEW k \in 1..n PROVE u[(n - k) + 1] = from - k + 1
  <2>1. (n - k) + 1 \in 1..n /\ n = from - to + 1
    BY <1>2 DEF Span
  <2>2. u[(n - k) + 1] = to + ((n - k) + 1) - 1
    BY <1>2, <2>1
  <2> QED BY <2>1, <2>2
<1> QED BY <1>2, <1>3, <1>4 DEF Falling

Deleting(g, a, n, p) ==
  /\ g[0] = a
  /\ \A k \in 1..n : g[k] = DeleteAt(g[k - 1], p[k])
  /\ DeleteAll(a, p) = g[n]
LEMMA DeleteAllIs ==
  ASSUME NEW a \in Arrays, NEW n \in Nat, NEW p, Len(p) = n, \A k \in 1..n : p[k] \in Places
  PROVE  \E g : Deleting(g, a, n, p)
<1> DEFINE Step(f, k) == CHOOSE r \in {DeleteAt(b, p[k]) : b \in {f[k - 1]}} : TRUE
           Whole(f) == f = [k \in 0..n |-> IF k = 0 THEN a ELSE Step(f, k)]
<1>1. ASSUME NEW f, NEW k PROVE Step(f, k) = DeleteAt(f[k - 1], p[k])
  OBVIOUS
<1>2. PICK G : G = [x \in Arrays \X (1..n) |-> DeleteAt(x[1], p[x[2]])]
  OBVIOUS
<1>3. \A b \in Arrays, k \in 1..n : G[<<b, k>>] = DeleteAt(b, p[k])
  BY <1>2
<1>4. PICK f \in [0..n -> Arrays] : f[0] = a /\ \A k \in 1..n : f[k] = G[<<f[k - 1], k>>]
  <2>1. StaysIn(Arrays, n, G)
    BY <1>3, DeleteTyped DEF StaysIn
  <2>2. \E f \in [0..n -> Arrays] : Follows(f, a, n, G)
    BY <2>1, Recursion
  <2> QED BY <2>2 DEF Follows
<1>5. Whole(f)
  <2>1. ASSUME NEW k \in 1..n PROVE f[k] = Step(f, k)
    <3>1. k - 1 \in 0..n
      OBVIOUS
    <3>2. f[k - 1] \in Arrays
      BY <1>4, <3>1
    <3>3. f[k] = G[<<f[k - 1], k>>]
      BY <1>4
    <3>4. f[k] = DeleteAt(f[k - 1], p[k])
      BY <1>3, <3>2, <3>3
    <3> HIDE DEF Step
    <3> QED BY <1>1, <3>4
  <2>2. \A k \in 0..n : k = 0 \/ k \in 1..n
    OBVIOUS
  <2>3. f = [k \in 0..n |-> f[k]]
    BY <1>4
  <2> HIDE DEF Step
  <2> QED BY <1>4, <2>1, <2>2, <2>3
<1>6. PICK g : g = CHOOSE f1 : Whole(f1)
  OBVIOUS
<1>7. Whole(g)
  <2> HIDE DEF Whole
  <2> QED BY <1>5, <1>6
<1>8. DeleteAll(a, p) = g[n]
  BY <1>6 DEF DeleteAll, Each, Value
<1>9. g[0] = a
  BY <1>7
<1>10. ASSUME NEW k \in 1..n PROVE g[k] = DeleteAt(g[k - 1], p[k])
  <2>1. g[k] = Step(g, k)
    <3>1. k \in 0..n /\ k # 0
      OBVIOUS
    <3> HIDE DEF Step
    <3> QED BY <1>7, <3>1
  <2> QED BY <1>1, <2>1
<1> QED BY <1>8, <1>9, <1>10 DEF Deleting

Filling(g, a, n, items, from, u) ==
  /\ g[0] = a
  /\ \A k \in 1..n : g[k] = PutAt(g[k - 1], from + u[k] - 1, items[u[k]])
  /\ Put(a, from, items) = g[n]
LEMMA PutAllIs ==
  ASSUME NEW a \in Arrays, NEW n \in Nat, NEW items, Len(items) = n, NEW from, NEW u,
         u = Upwards(1, n), Len(u) = n,
         \A k \in 1..n : from + u[k] - 1 \in Places /\ items[u[k]] \in Elements
  PROVE  \E g : Filling(g, a, n, items, from, u)
<1> DEFINE Step(f, k) == CHOOSE r \in {PutAt(b, from + u[k] - 1, items[u[k]]) : b \in {f[k - 1]}} : TRUE
           Whole(f) == f = [k \in 0..n |-> IF k = 0 THEN a ELSE Step(f, k)]
<1>1. ASSUME NEW f, NEW k PROVE Step(f, k) = PutAt(f[k - 1], from + u[k] - 1, items[u[k]])
  OBVIOUS
<1>2. PICK G : G = [x \in Arrays \X (1..n) |-> PutAt(x[1], from + u[x[2]] - 1, items[u[x[2]]])]
  OBVIOUS
<1>3. \A b \in Arrays, k \in 1..n : G[<<b, k>>] = PutAt(b, from + u[k] - 1, items[u[k]])
  BY <1>2
<1>4. PICK f \in [0..n -> Arrays] : f[0] = a /\ \A k \in 1..n : f[k] = G[<<f[k - 1], k>>]
  <2>1. StaysIn(Arrays, n, G)
    <3> SUFFICES ASSUME NEW b \in Arrays, NEW k \in 1..n PROVE G[<<b, k>>] \in Arrays
      BY DEF StaysIn
    <3>1. PICK i, v : i = from + u[k] - 1 /\ v = items[u[k]]
      OBVIOUS
    <3>2. i \in Places /\ v \in Elements
      BY <3>1
    <3>3. G[<<b, k>>] = PutAt(b, i, v)
      BY <1>3, <3>1
    <3> QED BY <3>2, <3>3, PutTyped
  <2>2. \E f \in [0..n -> Arrays] : Follows(f, a, n, G)
    BY <2>1, Recursion
  <2> QED BY <2>2 DEF Follows
<1>5. Whole(f)
  <2>1. ASSUME NEW k \in 1..n PROVE f[k] = Step(f, k)
    <3>1. k - 1 \in 0..n
      OBVIOUS
    <3>2. f[k - 1] \in Arrays
      BY <1>4, <3>1
    <3>3. f[k] = G[<<f[k - 1], k>>]
      BY <1>4
    <3>4. f[k] = PutAt(f[k - 1], from + u[k] - 1, items[u[k]])
      BY <1>3, <3>2, <3>3
    <3> HIDE DEF Step
    <3> QED BY <1>1, <3>4
  <2>2. \A k \in 0..n : k = 0 \/ k \in 1..n
    OBVIOUS
  <2>3. f = [k \in 0..n |-> f[k]]
    BY <1>4
  <2> HIDE DEF Step
  <2> QED BY <1>4, <2>1, <2>2, <2>3
<1>6. PICK g : g = CHOOSE f1 : Whole(f1)
  OBVIOUS
<1>7. Whole(g)
  <2> HIDE DEF Whole
  <2> QED BY <1>5, <1>6
<1>8. Put(a, from, items) = g[n]
  BY <1>6 DEF Put, Each, Value
<1>9. g[0] = a
  BY <1>7
<1>10. ASSUME NEW k \in 1..n PROVE g[k] = PutAt(g[k - 1], from + u[k] - 1, items[u[k]])
  <2>1. g[k] = Step(g, k)
    <3>1. k \in 0..n /\ k # 0
      OBVIOUS
    <3> HIDE DEF Step
    <3> QED BY <1>7, <3>1
  <2> QED BY <1>1, <2>1
<1> QED BY <1>8, <1>9, <1>10 DEF Filling
-----------------------------------------------------------------------------
(* reverse                                                                 *)

\* Arrays of a length in which nothing can fail.
Open(n) == {b \in Arrays : b.len = n /\ b.locked = {} /\ ~Failed(b)}

LEMMA StoredOpen ==
  ASSUME NEW n, NEW b \in Open(n), NEW i \in 0..(n - 1), NEW x \in Slots, NEW c,
         c = IF x = Hole THEN DeleteAt(b, i) ELSE PutAt(b, i, x)
  PROVE  c \in Open(n) /\ c.at = [b.at EXCEPT ![i] = x]
<1>1. b \in Arrays /\ b.len = n /\ b.locked = {} /\ ~Failed(b) /\ i \in 0..(b.len - 1)
  BY DEF Open
<1>2. c \in Arrays /\ c.len = b.len /\ (~Failed(c) => c.at = [b.at EXCEPT ![i] = x])
  BY <1>1, Stored
<1>3. c.locked = {} /\ ~Failed(c)
  BY <1>1 DEF DeleteAt, PutAt, Failed, Arrays
<1> QED BY <1>1, <1>2, <1>3 DEF Open

Exchanged(c, b, n, i, j) ==
  c \in Open(n) /\ c.at = [b.at EXCEPT ![i] = b.at[j], ![j] = b.at[i]]
LEMMA ExchangeIs ==
  ASSUME NEW n \in Nat, NEW b \in Open(n), NEW i \in Nat, 2 * i + 1 < n, NEW j, j = n - i - 1
  PROVE  Exchanged(Exchange(b, i), b, n, i, j)
<1>1. i \in 0..(n - 1) /\ j \in 0..(n - 1) /\ i # j
  OBVIOUS
<1>2. b \in Arrays /\ b.len = n
  BY DEF Open
<1>3. i \in Places /\ j \in Places /\ n \in 0..(Modulus - 1)
  <2>1. n \in 0..(Modulus - 1)
    BY <1>2 DEF Arrays
  <2> QED BY <1>1, <2>1, PlacesHold
<1>4. PICK x, y : x = b.at[i] /\ y = b.at[j]
  OBVIOUS
<1>5. x \in Slots /\ y \in Slots
  BY <1>2, <1>3, <1>4 DEF Arrays, Slots
<1>6. PICK c : c = IF y = Hole THEN DeleteAt(b, i) ELSE PutAt(b, i, y)
  OBVIOUS
<1>7. PICK d : d = IF x = Hole THEN DeleteAt(c, j) ELSE PutAt(c, j, x)
  OBVIOUS
<1>8. c \in Open(n) /\ c.at = [b.at EXCEPT ![i] = y]
  BY <1>1, <1>5, <1>6, StoredOpen
<1>9. d \in Open(n) /\ d.at = [c.at EXCEPT ![j] = x]
  BY <1>1, <1>5, <1>7, <1>8, StoredOpen
<1>10. d.at = [b.at EXCEPT ![i] = y, ![j] = x]
  BY <1>8, <1>9
<1>11. CASE x = Hole /\ y = Hole
  <2>1. Exchange(b, i) = b
    BY <1>2, <1>4, <1>11 DEF Exchange, Has
  <2>2. b.at = [b.at EXCEPT ![i] = y, ![j] = x]
    BY <1>2, <1>4, <1>11 DEF Arrays
  <2> QED BY <1>4, <2>1, <2>2 DEF Exchanged
<1>12. CASE ~(x = Hole /\ y = Hole)
  <2>1. Exchange(b, i) = d
    BY <1>2, <1>4, <1>6, <1>7, <1>12 DEF Exchange, Has
  <2> QED BY <1>4, <1>9, <1>10, <2>1 DEF Exchanged
<1> QED BY <1>11, <1>12

Exchanging(g, a, n, u) ==
  /\ g[0] = a
  /\ \A k \in 1..n : g[k] = Exchange(g[k - 1], u[k])
  /\ ExchangeAll(a, u) = g[n]
LEMMA ExchangeAllIs ==
  ASSUME NEW m \in Nat, NEW a \in Open(m), NEW n \in Nat,
         NEW u, Len(u) = n, \A k \in 1..n : u[k] \in Nat /\ 2 * u[k] + 1 < m
  PROVE  \E g : Exchanging(g, a, n, u)
<1> DEFINE Step(f, k) == CHOOSE r \in {Exchange(b, u[k]) : b \in {f[k - 1]}} : TRUE
           Whole(f) == f = [k \in 0..n |-> IF k = 0 THEN a ELSE Step(f, k)]
<1>1. ASSUME NEW f, NEW k PROVE Step(f, k) = Exchange(f[k - 1], u[k])
  OBVIOUS
<1>2. PICK G : G = [x \in Open(m) \X (1..n) |-> Exchange(x[1], u[x[2]])]
  OBVIOUS
<1>3. \A b \in Open(m), k \in 1..n : G[<<b, k>>] = Exchange(b, u[k])
  BY <1>2
<1>4. PICK f \in [0..n -> Open(m)] : f[0] = a /\ \A k \in 1..n : f[k] = G[<<f[k - 1], k>>]
  <2>1. StaysIn(Open(m), n, G)
    <3> SUFFICES ASSUME NEW b \in Open(m), NEW k \in 1..n PROVE G[<<b, k>>] \in Open(m)
      BY DEF StaysIn
    <3>1. PICK i \in Nat : i = u[k] /\ 2 * i + 1 < m
      OBVIOUS
    <3>2. G[<<b, k>>] = Exchange(b, i)
      BY <1>3, <3>1
    <3>3. PICK j : j = m - i - 1
      OBVIOUS
    <3>4. Exchanged(Exchange(b, i), b, m, i, j)
      BY <3>1, <3>3, ExchangeIs
    <3> QED BY <3>2, <3>4 DEF Exchanged
  <2>2. \E f \in [0..n -> Open(m)] : Follows(f, a, n, G)
    BY <2>1, Recursion
  <2> QED BY <2>2 DEF Follows
<1>5. Whole(f)
  <2>1. ASSUME NEW k \in 1..n PROVE f[k] = Step(f, k)
    <3>1. k - 1 \in 0..n
      OBVIOUS
    <3>2. f[k - 1] \in Open(m)
      BY <1>4, <3>1
    <3>3. f[k] = G[<<f[k - 1], k>>]
      BY <1>4
    <3>4. f[k] = Exchange(f[k - 1], u[k])
      BY <1>3, <3>2, <3>3
    <3> HIDE DEF Step
    <3> QED BY <1>1, <3>4
  <2>2. \A k \in 0..n : k = 0 \/ k \in 1..n
    OBVIOUS
  <2>3. f = [k \in 0..n |-> f[k]]
    BY <1>4
  <2> HIDE DEF Step
  <2> QED BY <1>4, <2>1, <2>2, <2>3
<1>6. PICK g : g = CHOOSE f1 : Whole(f1)
  OBVIOUS
<1>7. Whole(g)
  <2> HIDE DEF Whole
  <2> QED BY <1>5, <1>6
<1>8. ExchangeAll(a, u) = g[n]
  BY <1>6 DEF ExchangeAll, Each, Value
<1>9. g[0] = a
  BY <1>7
<1>10. ASSUME NEW k \in 1..n PROVE g[k] = Exchange(g[k - 1], u[k])
  <2>1. g[k] = Step(g, k)
    <3>1. k \in 0..n /\ k # 0
      OBVIOUS
    <3> HIDE DEF Step
    <3> QED BY <1>7, <3>1
  <2> QED BY <1>1, <2>1
<1> QED BY <1>8, <1>9, <1>10 DEF Exchanging
-----------------------------------------------------------------------------
(* What the loops do to the array                                          *)

\* One element put or deleted.
LEMMA PutOne ==
  ASSUME NEW b \in Arrays, ~Failed(b), NEW i \in Places, NEW x \in Slots, NEW c,
         c = IF x = Hole THEN DeleteAt(b, i) ELSE PutAt(b, i, x)
  PROVE  /\ c \in Arrays /\ c.locked = b.locked
         /\ IF i \in b.locked THEN Failed(c) /\ c.at = b.at
            ELSE ~Failed(c) /\ c.at = [b.at EXCEPT ![i] = x]
<1>1. CASE x = Hole
  <2>1. c = DeleteAt(b, i)
    BY <1>1
  <2>2. c \in Arrays
    BY <2>1, DeleteTyped
  <2> QED BY <1>1, <2>1, <2>2 DEF DeleteAt, Throw, Failed, Arrays
<1>2. CASE x # Hole
  <2>1. c = PutAt(b, i, x) /\ x \in Elements
    BY <1>2 DEF Slots
  <2>2. c \in Arrays
    BY <2>1, PutTyped
  <2>3. PICK n : n = IF IsIndex(i) /\ i >= b.len THEN i + 1 ELSE b.len
    OBVIOUS
  <2>4. c = IF i \in b.locked THEN [b EXCEPT !.error = "Type"] ELSE [b EXCEPT !.at[i] = x, !.len = n]
    BY <2>1, <2>3 DEF PutAt, Throw
  <2> QED BY <2>2, <2>4 DEF Failed, Arrays
<1> QED BY <1>1, <1>2

\* b is a with the elements at S moved by d.
Shifted(b, a, S, d) == \A j \in Places : b.at[j] = IF j - d \in S THEN a.at[j - d] ELSE a.at[j]

LEMMA Unwrapped ==
  ASSUME NEW q \in 0..(Modulus - 1)
  PROVE  UInt32(q) = q /\ q \in Places
BY PlacesHold DEF UInt32, Places

Stepped(c, a, b, S, d, p, q) ==
  /\ c \in Arrays /\ c.locked = b.locked
  /\ IF Failed(c) THEN q \in b.locked /\ Shifted(c, a, S, d)
     ELSE q \notin b.locked /\ Shifted(c, a, S \cup {p}, d)
LEMMA MoveStep ==
  ASSUME NEW a \in Arrays, NEW b \in Arrays, ~Failed(b), NEW S, NEW d \in Int,
         NEW p \in Places, NEW q \in Places, q = p + d, p - d \notin S, Shifted(b, a, S, d),
         NEW c, c = Move(b, p, q)
  PROVE  Stepped(c, a, b, S, d, p, q)
<1>1. q = p + d
  OBVIOUS
<1>2. q \in Places /\ p \in Int
  BY PlacesHold DEF Places
<1>3. PICK x \in Slots : x = b.at[p]
  BY DEF Arrays, Slots
<1>4. c = IF x = Hole THEN DeleteAt(b, q) ELSE PutAt(b, q, x)
  BY <1>2, <1>3 DEF Move, Has
<1>5. /\ c \in Arrays /\ c.locked = b.locked
      /\ IF q \in b.locked THEN Failed(c) /\ c.at = b.at
         ELSE ~Failed(c) /\ c.at = [b.at EXCEPT ![q] = x]
  BY <1>2, <1>3, <1>4, PutOne
<1>6. x = a.at[p]
  BY <1>3 DEF Shifted
<1>7. ASSUME c.at = [b.at EXCEPT ![q] = x] PROVE Shifted(c, a, S \cup {p}, d)
  <2> SUFFICES ASSUME NEW j \in Places
               PROVE  c.at[j] = IF j - d \in S \cup {p} THEN a.at[j - d] ELSE a.at[j]
    BY DEF Shifted
  <2>1. c.at[j] = IF j = q THEN x ELSE b.at[j]
    BY <1>7 DEF Arrays
  <2>2. j = q <=> j - d = p
    BY <1>1, <1>2, PlacesHold DEF Places
  <2>3. b.at[j] = IF j - d \in S THEN a.at[j - d] ELSE a.at[j]
    BY DEF Shifted
  <2> QED BY <1>6, <2>1, <2>2, <2>3
<1>8. ASSUME c.at = b.at PROVE Shifted(c, a, S, d)
  BY <1>8 DEF Shifted
<1> QED BY <1>1, <1>5, <1>7, <1>8 DEF Stepped

\* What is left of a failed loop of moves, and what of one that went through.
Halfway(b, a, S, d) ==
  \E T \in SUBSET S : /\ Shifted(b, a, T, d)
                      /\ \A t \in T, s \in S \ T : s - d # t
                      /\ ~Failed(b) => T = S
LeftMoving(b, a, S, d) ==
  /\ b \in Arrays /\ b.locked = a.locked /\ (a.locked = {} => ~Failed(b))
  /\ Halfway(b, a, S, d)
Targets(p, n, d) == \A k \in 1..n : p[k] \in Places /\ p[k] + d \in 0..(Modulus - 1)
Unmoved(p, n, d) == \A k \in 1..n : \A m \in 1..(k - 1) : p[m] # p[k] - d
LEMMA MovesHold ==
  ASSUME NEW a \in Arrays, ~Failed(a), NEW d \in Int, NEW n \in Nat, NEW p, Len(p) = n,
         Targets(p, n, d), Unmoved(p, n, d), NEW S, S = {p[k] : k \in 1..n}
  PROVE  LeftMoving(MoveAll(a, p, d), a, S, d)
<1> USE DEF Targets, Unmoved
<1>1. \A k \in 1..n : UInt32(p[k] + d) = p[k] + d /\ p[k] + d \in Places
  <2> TAKE k \in 1..n
  <2>1. PICK q : q = p[k] + d
    OBVIOUS
  <2>2. q \in 0..(Modulus - 1)
    BY <2>1
  <2>3. UInt32(q) = q /\ q \in Places
    BY <2>2, Unwrapped
  <2> QED BY <2>1, <2>3
<1>2. PICK g : /\ g[0] = a
               /\ \A k \in 1..n : g[k] = Move(g[k - 1], p[k], UInt32(p[k] + d))
               /\ MoveAll(a, p, d) = g[n]
  <2>1. \E g : Moving(g, a, n, p, d)
    BY <1>1, MoveAllIs
  <2> QED BY <2>1 DEF Moving
<1> DEFINE Upto(k) == {p[m] : m \in 1..k}
           Underway(k, h) == /\ Shifted(g[k], a, Upto(h), d)
                             /\ IF Failed(g[k]) THEN h < k ELSE h = k
           T == {k \in 0..n : /\ g[k] \in Arrays /\ g[k].locked = a.locked
                              /\ a.locked = {} => ~Failed(g[k])
                              /\ \E h \in 0..k : Underway(k, h)}
<1>3. 0 \in T
  <2>1. Upto(0) = {}
    OBVIOUS
  <2>2. Shifted(g[0], a, {}, d)
    BY <1>2 DEF Shifted
  <2>3. Underway(0, 0)
    BY <1>2, <2>1, <2>2
  <2> HIDE DEF Underway
  <2> QED BY <1>2, <2>3
<1>4. ASSUME NEW k \in 1..n, k - 1 \in T PROVE k \in T
  <2>1. PICK b, c : b = g[k - 1] /\ c = g[k]
    OBVIOUS
  <2>2. PICK h \in 0..(k - 1) : Underway(k - 1, h)
    BY <1>4
  <2>3. /\ b \in Arrays /\ b.locked = a.locked /\ (a.locked = {} => ~Failed(b))
        /\ Shifted(b, a, Upto(h), d) /\ IF Failed(b) THEN h < k - 1 ELSE h = k - 1
    BY <1>4, <2>1, <2>2
  <2>4. c = Move(b, p[k], UInt32(p[k] + d))
    BY <1>2, <2>1
  <2>5. CASE Failed(b)
    <3>1. c = b
      BY <2>4, <2>5 DEF Move
    <3>2. Underway(k, h) /\ h \in 0..k
      <4>1. h < k /\ h \in 0..k
        BY <2>3, <2>5
      <4>2. g[k] = b
        BY <2>1, <3>1
      <4> HIDE DEF Upto
      <4> QED BY <2>3, <2>5, <4>1, <4>2
    <3>3. k \in 0..n /\ g[k] = b
      BY <2>1, <3>1
    <3> HIDE DEF Underway
    <3> QED BY <2>3, <3>2, <3>3
  <2>6. CASE ~Failed(b)
    <3>1. h = k - 1
      BY <2>3, <2>6
    <3>2. p[k] - d \notin Upto(h)
      BY <3>1
    <3>3. p[k] \in Places /\ p[k] + d \in 0..(Modulus - 1)
      OBVIOUS
    <3>4. /\ c \in Arrays /\ c.locked = b.locked
          /\ IF Failed(c) THEN p[k] + d \in b.locked /\ Shifted(c, a, Upto(h), d)
             ELSE p[k] + d \notin b.locked /\ Shifted(c, a, Upto(h) \cup {p[k]}, d)
      <4>1. PICK i, q, U : i = p[k] /\ q = p[k] + d /\ U = Upto(h)
        OBVIOUS
      <4>2. i \in Places /\ q \in Places /\ q = i + d /\ i - d \notin U /\ c = Move(b, i, q)
        BY <1>1, <2>4, <3>2, <3>3, <4>1
      <4>3. Shifted(b, a, U, d)
        BY <2>3, <4>1
      <4>4. Stepped(c, a, b, U, d, i, q)
        <5>1. b \in Arrays /\ ~Failed(b)
          BY <2>3, <2>6
        <5> HIDE DEF Upto
        <5> QED BY <4>2, <4>3, <5>1, MoveStep
      <4> HIDE DEF Upto
      <4> QED BY <4>1, <4>4 DEF Stepped
    <3>5. Upto(h) \cup {p[k]} = Upto(k)
      BY <3>1
    <3>6. \E x \in 0..k : Underway(k, x)
      <4>1. CASE Failed(c)
        <5>1. Underway(k, h) /\ h \in 0..k
          BY <2>1, <3>1, <3>4, <4>1
        <5> QED BY <5>1
      <4>2. CASE ~Failed(c)
        <5>1. Underway(k, k) /\ k \in 0..k
          <6>1. Shifted(c, a, Upto(k), d)
            <7> HIDE DEF Upto
            <7> QED BY <3>4, <3>5, <4>2
          <6> HIDE DEF Upto
          <6> QED BY <2>1, <4>2, <6>1
        <5> QED BY <5>1
      <4> QED BY <4>1, <4>2
    <3>7. a.locked = {} => ~Failed(c)
      BY <2>3, <3>4
    <3> HIDE DEF Underway
    <3> QED BY <2>1, <2>3, <3>4, <3>6, <3>7
  <2> QED BY <2>5, <2>6
<1>5. n \in T
  <2>1. n \in 0..n
    OBVIOUS
  <2> HIDE DEF T
  <2> QED BY <1>3, <1>4, <2>1, Reaches
<1>6. PICK h \in 0..n : Underway(n, h)
  BY <1>5
<1>7. Halfway(g[n], a, S, d)
  <2>1. Upto(h) \subseteq S
    OBVIOUS
  <2>2. ASSUME NEW t \in Upto(h), NEW s \in S \ Upto(h) PROVE s - d # t
    <3>1. PICK m \in 1..h : t = p[m]
      OBVIOUS
    <3>2. PICK k \in 1..n : s = p[k]
      OBVIOUS
    <3>3. ~(k \in 1..h)
      BY <3>2
    <3>4. m \in 1..(k - 1)
      BY <3>3
    <3> QED BY <3>1, <3>2, <3>4
  <2>3. ~Failed(g[n]) => Upto(h) = S
    BY <1>6
  <2>4. Shifted(g[n], a, Upto(h), d)
    BY <1>6
  <2> HIDE DEF Upto
  <2> QED BY <2>1, <2>2, <2>3, <2>4 DEF Halfway
<1> QED BY <1>2, <1>5, <1>7 DEF LeftMoving
\* What Put leaves: items from a place on, or a failure on the way.
Filled(r, a, from, n, items) ==
  /\ r \in Arrays /\ r.locked = a.locked
  /\ \A j \in Places : ~(from <= j /\ j < from + n) => r.at[j] = a.at[j]
  /\ ~Failed(a) /\ a.locked = {} => ~Failed(r)
  /\ Failed(a) => r.at = a.at
  /\ ~Failed(r) => ~Failed(a) /\ \A k \in 1..n : r.at[from + k - 1] = items[k]

LEMMA PutsHold ==
  ASSUME NEW a \in Arrays, NEW from \in Nat, NEW items \in Seq(Elements),
         NEW n, n = Len(items), from + n <= Modulus
  PROVE  Filled(Put(a, from, items), a, from, n, items)
<1>1. n \in Nat /\ \A k \in 1..n : items[k] \in Elements
  OBVIOUS
<1>2. PICK u : u = Upwards(1, n)
  OBVIOUS
<1>3. Len(u) = n /\ \A k \in 1..n : u[k] = k
  <2>1. PICK x, y \in Int : x = 1 /\ y = n
    BY <1>1
  <2>2. n = Span(x, y)
    BY <1>1, <2>1 DEF Span
  <2>3. Rising(u, x, n)
    BY <1>2, <2>1, <2>2, UpwardsIs
  <2> QED BY <1>1, <2>1, <2>3 DEF Rising
<1>4. \A k \in 1..n : from + k - 1 \in Places
  BY <1>1, PlacesHold
<1>5. PICK g : /\ g[0] = a /\ Put(a, from, items) = g[n]
               /\ \A k \in 1..n : g[k] = PutAt(g[k - 1], from + k - 1, items[k])
  <2>1. \E g : Filling(g, a, n, items, from, u)
    BY <1>1, <1>2, <1>3, <1>4, PutAllIs
  <2> QED BY <1>3, <2>1 DEF Filling
<1> DEFINE T == {k \in 0..n : Filled(g[k], a, from, k, items)}
<1>6. 0 \in T
  <2>1. Filled(g[0], a, from, 0, items)
    BY <1>5 DEF Filled
  <2> QED BY <1>1, <2>1
<1>7. ASSUME NEW k \in 1..n, k - 1 \in T PROVE k \in T
  <2>1. PICK b, c, i, x : b = g[k - 1] /\ c = g[k] /\ i = from + k - 1 /\ x = items[k]
    OBVIOUS
  <2>2. i \in Places /\ x \in Slots /\ x # Hole /\ c = PutAt(b, i, x)
    BY <1>1, <1>4, <1>5, <2>1, ArrayAssumption DEF Slots
  <2>3. Filled(b, a, from, k - 1, items)
    BY <1>7, <2>1
  <2>4. /\ b \in Arrays /\ b.locked = a.locked
        /\ \A j \in Places : ~(from <= j /\ j < i) => b.at[j] = a.at[j]
        /\ ~Failed(a) /\ a.locked = {} => ~Failed(b)
        /\ Failed(a) => b.at = a.at
        /\ ~Failed(b) => ~Failed(a) /\ \A m \in 1..(k - 1) : b.at[from + m - 1] = items[m]
    <3>1. from + (k - 1) = i
      BY <2>1
    <3> QED BY <2>3, <3>1 DEF Filled
  <2>5. CASE Failed(b)
    <3>1. c = b
      BY <2>2, <2>5 DEF PutAt
    <3>2. \A j \in Places : ~(from <= j /\ j < from + k) => ~(from <= j /\ j < i)
      BY <2>1, PlacesHold DEF Places
    <3>3. Filled(c, a, from, k, items)
      BY <2>4, <2>5, <3>1, <3>2 DEF Filled
    <3> QED BY <2>1, <3>3
  <2>6. CASE ~Failed(b)
    <3>1. /\ c \in Arrays /\ c.locked = b.locked
          /\ IF i \in b.locked THEN Failed(c) /\ c.at = b.at
             ELSE ~Failed(c) /\ c.at = [b.at EXCEPT ![i] = x]
      BY <2>2, <2>4, <2>6, PutOne
    <3>2. ASSUME NEW j \in Places, ~(from <= j /\ j < from + k) PROVE c.at[j] = a.at[j]
      <4>1. j # i /\ ~(from <= j /\ j < i)
        BY <2>1, <3>2, PlacesHold DEF Places
      <4>2. c.at[j] = b.at[j]
        BY <2>4, <3>1, <4>1 DEF Arrays
      <4> QED BY <2>4, <4>1, <4>2
    <3>3. ASSUME ~Failed(c), NEW m \in 1..k PROVE c.at[from + m - 1] = items[m]
      <4>1. c.at = [b.at EXCEPT ![i] = x]
        BY <3>1, <3>3
      <4>2. CASE m = k
        BY <2>1, <2>2, <2>4, <4>1, <4>2 DEF Arrays
      <4>3. CASE m # k
        <5>1. m \in 1..(k - 1)
          BY <4>3
        <5>2. PICK j : j = from + m - 1
          OBVIOUS
        <5>3. j # i /\ j \in Places
          <6>1. m \in 1..n
            BY <1>1, <5>1
          <6>2. j \in Places
            BY <1>4, <5>2, <6>1
          <6> QED BY <2>1, <5>1, <5>2, <6>2
        <5>4. b.at[j] = items[m]
          BY <2>4, <2>6, <5>1, <5>2
        <5> QED BY <2>4, <4>1, <5>2, <5>3, <5>4 DEF Arrays
      <4> QED BY <4>2, <4>3
    <3>4. ~Failed(a) /\ a.locked = {} => ~Failed(c)
      BY <2>4, <3>1
    <3>5. Filled(c, a, from, k, items)
      BY <2>4, <2>6, <3>1, <3>2, <3>3, <3>4 DEF Filled
    <3> QED BY <2>1, <3>5
  <2> QED BY <2>5, <2>6
<1>8. n \in T
  <2>1. n \in 0..n
    BY <1>1
  <2> HIDE DEF T
  <2> QED BY <1>1, <1>6, <1>7, <2>1, Reaches
<1> QED BY <1>5, <1>8

\* What a loop of deletions leaves.
Emptied(r, a, S) ==
  /\ r \in Arrays /\ r.locked = a.locked
  /\ \A j \in Places \ S : r.at[j] = a.at[j]
  /\ ~Failed(a) /\ a.locked = {} => ~Failed(r)
  /\ Failed(a) => r.at = a.at
  /\ ~Failed(r) => ~Failed(a)

LEMMA DeletesHold ==
  ASSUME NEW a \in Arrays, NEW n \in Nat, NEW p, Len(p) = n, \A k \in 1..n : p[k] \in Places,
         NEW S, \A k \in 1..n : p[k] \in S
  PROVE  Emptied(DeleteAll(a, p), a, S)
<1>1. PICK g : /\ g[0] = a /\ DeleteAll(a, p) = g[n]
               /\ \A k \in 1..n : g[k] = DeleteAt(g[k - 1], p[k])
  <2>1. \E g : Deleting(g, a, n, p)
    BY DeleteAllIs
  <2> QED BY <2>1 DEF Deleting
<1> DEFINE T == {k \in 0..n : Emptied(g[k], a, S)}
<1>2. 0 \in T
  BY <1>1 DEF Emptied
<1>3. ASSUME NEW k \in 1..n, k - 1 \in T PROVE k \in T
  <2>1. PICK b, c, i : b = g[k - 1] /\ c = g[k] /\ i = p[k]
    OBVIOUS
  <2>2. i \in Places /\ i \in S /\ c = DeleteAt(b, i) /\ Hole \in Slots
    BY <1>1, <2>1 DEF Slots
  <2>3. Emptied(b, a, S)
    BY <1>3, <2>1
  <2>4. CASE Failed(b)
    <3>1. c = b
      BY <2>2, <2>4 DEF DeleteAt
    <3>2. Emptied(c, a, S)
      BY <2>3, <3>1
    <3> QED BY <2>1, <3>2
  <2>5. CASE ~Failed(b)
    <3>1. b \in Arrays
      BY <2>3 DEF Emptied
    <3>2. /\ c \in Arrays /\ c.locked = b.locked
          /\ IF i \in b.locked THEN Failed(c) /\ c.at = b.at
             ELSE ~Failed(c) /\ c.at = [b.at EXCEPT ![i] = Hole]
      BY <2>2, <2>5, <3>1, PutOne
    <3>3. \A j \in Places \ S : c.at[j] = b.at[j]
      BY <2>2, <3>1, <3>2 DEF Arrays
    <3>4. Emptied(c, a, S)
      BY <2>3, <2>5, <3>2, <3>3 DEF Emptied
    <3> QED BY <2>1, <3>4
  <2> QED BY <2>4, <2>5
<1>4. n \in T
  <2>1. n \in 0..n
    OBVIOUS
  <2> HIDE DEF T
  <2> QED BY <1>2, <1>3, <2>1, Reaches
<1> QED BY <1>1, <1>4
\* Reversed from both ends up to the k-th element.
Reversed(b, a, m, k) ==
  /\ b \in Open(m)
  /\ \A j \in 0..(m - 1) : b.at[j] = IF j < k \/ j >= m - k THEN a.at[m - 1 - j] ELSE a.at[j]

LEMMA ExchangesHold ==
  ASSUME NEW m \in Nat, NEW a \in Open(m), NEW u, u = Upwards(0, (m \div 2) - 1)
  PROVE  Reversed(ExchangeAll(a, u), a, m, m \div 2)
<1>1. PICK n \in Nat : n = m \div 2 /\ 2 * n <= m /\ m <= 2 * n + 1
  OBVIOUS
<1>2. Len(u) = n /\ \A k \in 1..n : u[k] = k - 1
  <2>1. PICK x, y \in Int : x = 0 /\ y = n - 1
    BY <1>1
  <2>2. n = Span(x, y)
    BY <1>1, <2>1 DEF Span
  <2>3. Rising(u, x, n)
    <3>1. u = Upwards(x, y)
      BY <1>1, <2>1
    <3> QED BY <2>1, <2>2, <3>1, UpwardsIs
  <2> QED BY <1>1, <2>1, <2>3 DEF Rising
<1>3. PICK g : /\ g[0] = a /\ ExchangeAll(a, u) = g[n]
               /\ \A k \in 1..n : g[k] = Exchange(g[k - 1], k - 1)
  <2>1. \A k \in 1..n : u[k] \in Nat /\ 2 * u[k] + 1 < m
    BY <1>1, <1>2
  <2>2. \E g : Exchanging(g, a, n, u)
    BY <1>1, <1>2, <2>1, ExchangeAllIs
  <2> QED BY <1>2, <2>2 DEF Exchanging
<1> DEFINE T == {k \in 0..n : Reversed(g[k], a, m, k)}
<1>4. 0 \in T
  BY <1>1, <1>3 DEF Reversed
<1>5. ASSUME NEW k \in 1..n, k - 1 \in T PROVE k \in T
  <2>1. PICK b, c, i, h : b = g[k - 1] /\ c = g[k] /\ i = k - 1 /\ h = m - i - 1
    OBVIOUS
  <2>2. i \in Nat /\ 2 * i + 1 < m /\ i < h /\ h < m
    BY <1>1, <2>1
  <2>3. Reversed(b, a, m, i)
    BY <1>5, <2>1
  <2>4. b \in Open(m) /\ b.at \in [Places -> Slots] /\ 0..(m - 1) \subseteq Places
    <3>1. b \in Open(m)
      BY <2>3 DEF Reversed
    <3>2. b \in Arrays /\ b.len = m
      BY <3>1 DEF Open
    <3> QED BY <3>1, <3>2, PlacesHold DEF Arrays, Slots
  <2>5. c \in Open(m) /\ c.at = [b.at EXCEPT ![i] = b.at[h], ![h] = b.at[i]]
    <3>1. c = Exchange(b, i)
      BY <1>3, <2>1
    <3>2. Exchanged(Exchange(b, i), b, m, i, h)
      BY <2>1, <2>2, <2>4, ExchangeIs
    <3> QED BY <3>1, <3>2 DEF Exchanged
  <2>6. b.at[i] = a.at[i] /\ b.at[h] = a.at[h]
    BY <2>1, <2>2, <2>3 DEF Reversed
  <2>7. ASSUME NEW j \in 0..(m - 1)
        PROVE  c.at[j] = IF j < k \/ j >= m - k THEN a.at[m - 1 - j] ELSE a.at[j]
    <3>1. c.at[j] = IF j = h THEN b.at[i] ELSE IF j = i THEN b.at[h] ELSE b.at[j]
      BY <2>2, <2>4, <2>5
    <3>2. CASE j = h
      <4>1. m - 1 - j = i /\ j >= m - k
        BY <2>1, <2>2, <3>2
      <4> QED BY <2>6, <3>1, <3>2, <4>1
    <3>3. CASE j = i
      <4>1. m - 1 - j = h /\ j < k /\ j # h
        BY <2>1, <2>2, <3>3
      <4> QED BY <2>6, <3>1, <3>3, <4>1
    <3>4. CASE j # h /\ j # i
      <4>1. (j < k \/ j >= m - k) <=> (j < i \/ j >= m - i)
        BY <2>1, <2>2, <3>4
      <4>2. b.at[j] = IF j < i \/ j >= m - i THEN a.at[m - 1 - j] ELSE a.at[j]
        BY <2>3 DEF Reversed
      <4> QED BY <3>1, <3>4, <4>1, <4>2
    <3> QED BY <3>2, <3>3, <3>4
  <2>8. Reversed(c, a, m, k)
    BY <2>5, <2>7 DEF Reversed
  <2> QED BY <2>1, <2>8
<1>6. n \in T
  <2>1. n \in 0..n
    BY <1>1
  <2> HIDE DEF T
  <2> QED BY <1>1, <1>4, <1>5, <2>1, Reaches
<1> QED BY <1>1, <1>3, <1>6

\* The end of a loop: the length is assigned.
Lengthened(c, b, n) ==
  /\ \A j \in 0..(n - 1) : c.at[j] = b.at[j]
  /\ Failed(b) => c = b
  /\ ~Failed(b) /\ b.locked = {} => ~Failed(c) /\ c.len = n
LEMMA PutLengthIs ==
  ASSUME NEW b \in Arrays, NEW n \in 0..(Modulus - 1)
  PROVE  Lengthened(PutLength(b, n), b, n)
<1> SUFFICES ASSUME NEW c, c = PutLength(b, n)
             PROVE  /\ \A j \in 0..(n - 1) : c.at[j] = b.at[j]
                    /\ Failed(b) => c = b
                    /\ ~Failed(b) /\ b.locked = {} => ~Failed(c) /\ c.len = n
  BY DEF Lengthened
<1>1. c = IF Failed(b) THEN b
          ELSE IF n >= Modulus THEN Throw(b, "Range")
          ELSE IF Stops(b, n) = {} THEN CutTo(b, n)
          ELSE Throw(CutTo(b, Max(Stops(b, n))), "Type")
  BY DEF PutLength, Value
<1>2. ~(n >= Modulus) /\ \A j \in 0..(n - 1) : j \in Places
  BY PlacesHold
<1>3. CASE Failed(b)
  BY <1>1, <1>3
<1>4. ASSUME NEW m \in Int, m >= n PROVE \A j \in 0..(n - 1) : CutTo(b, m).at[j] = b.at[j]
  BY <1>2, <1>4 DEF CutTo, Arrays
<1>5. CASE ~Failed(b) /\ Stops(b, n) = {}
  <2>1. c = CutTo(b, n)
    BY <1>1, <1>2, <1>5
  <2>2. c.len = n /\ c.error = b.error
    BY <2>1 DEF CutTo, Arrays
  <2>3. \A j \in 0..(n - 1) : c.at[j] = b.at[j]
    BY <1>4, <2>1
  <2> QED BY <1>5, <2>2, <2>3 DEF Failed
<1>6. CASE ~Failed(b) /\ Stops(b, n) # {}
  <2>1. PICK m : m = Max(Stops(b, n))
    OBVIOUS
  <2>2. m \in Int /\ m >= n
    <3>1. Stops(b, n) \subseteq 0..(Modulus - 1) /\ \A x \in Stops(b, n) : x >= n
      BY PlacesHold DEF Stops, IsIndex, Arrays, Places
    <3>2. m \in Stops(b, n)
      BY <1>6, <2>1, <3>1, PlacesHold, Extremes
    <3> QED BY <3>1, <3>2
  <2>3. c = Throw(CutTo(b, m), "Type")
    BY <1>1, <1>2, <1>6, <2>1
  <2>4. c.at = CutTo(b, m).at
    BY <2>3 DEF Throw, CutTo, Arrays
  <2>5. b.locked # {}
    BY <1>6 DEF Stops
  <2> QED BY <1>4, <1>6, <2>2, <2>4, <2>5
<1> QED BY <1>3, <1>5, <1>6
\* Elements that were to be moved are where they were or where they should be.
Carried(b, a, S, d) ==
  /\ b \in Arrays /\ b.locked = a.locked /\ (a.locked = {} => ~Failed(b))
  /\ \A i \in S : b.at[i + d] = a.at[i] \/ (Failed(b) /\ b.at[i] = a.at[i])
  /\ \A i \in Places : i - d \notin S => b.at[i] = a.at[i]
  /\ ~Failed(b) => Shifted(b, a, S, d)

LEMMA HalfwayCarried ==
  ASSUME NEW a \in Arrays, NEW b, NEW S \in SUBSET Places, NEW d \in Int,
         \A i \in S : i + d \in Places, LeftMoving(b, a, S, d)
  PROVE  Carried(b, a, S, d)
<1>1. PICK T \in SUBSET S : /\ Shifted(b, a, T, d)
                            /\ \A t \in T, s \in S \ T : s - d # t
                            /\ ~Failed(b) => T = S
  BY DEF Halfway, LeftMoving
<1>2. \A i \in Places : i \in Int
  BY PlacesHold DEF Places
<1>3. ASSUME NEW i \in S PROVE b.at[i + d] = a.at[i] \/ (Failed(b) /\ b.at[i] = a.at[i])
  <2>1. CASE i \in T
    <3>1. PICK j \in Places : j = i + d
      OBVIOUS
    <3>2. j - d = i
      BY <1>2, <3>1
    <3> QED BY <1>1, <2>1, <3>1, <3>2 DEF Shifted
  <2>2. CASE i \notin T
    <3>1. Failed(b)
      BY <1>1, <2>2
    <3>2. i - d \notin T
      BY <1>1, <2>2
    <3> QED BY <1>1, <3>1, <3>2 DEF Shifted
  <2> QED BY <2>1, <2>2
<1>4. \A i \in Places : i - d \notin S => b.at[i] = a.at[i]
  BY <1>1 DEF Shifted
<1> QED BY <1>1, <1>3, <1>4 DEF Carried, LeftMoving

LEMMA MovedUp ==
  ASSUME NEW a \in Arrays, ~Failed(a), NEW lo \in Nat, NEW hi \in Int, hi <= Modulus - 1,
         NEW d \in Int, d <= 0, lo + d >= 0
  PROVE  Carried(MoveAll(a, Upwards(lo, hi), d), a, lo..hi, d)
<1>1. PICK n : n = Span(lo, hi)
  OBVIOUS
<1>2. PICK p : p = Upwards(lo, hi)
  OBVIOUS
<1>3. n \in Nat /\ Len(p) = n /\ \A k \in 1..n : p[k] = lo + k - 1
  <2>1. n \in Nat /\ Rising(p, lo, n)
    BY <1>1, <1>2, UpwardsIs
  <2> QED BY <2>1 DEF Rising
<1>4. PICK S : S = {p[k] : k \in 1..n}
  OBVIOUS
<1>5. S = lo..hi
  <2>1. ASSUME NEW i \in lo..hi PROVE i \in S
    <3>1. PICK k \in 1..n : k = i - lo + 1
      BY <1>1 DEF Span
    <3>2. i = p[k]
      BY <1>3, <3>1
    <3> QED BY <1>4, <3>2
  <2>2. ASSUME NEW k \in 1..n PROVE lo + k - 1 \in lo..hi
    <3>1. n = hi - lo + 1 /\ k \in Int /\ 1 <= k /\ k <= n
      BY <1>1 DEF Span
    <3> QED BY <3>1
  <2>3. S \subseteq lo..hi
    <3> SUFFICES ASSUME NEW k \in 1..n PROVE p[k] \in lo..hi
      BY <1>4
    <3> QED BY <1>3, <2>2
  <2> QED BY <2>1, <2>3
<1>6. \A i \in lo..hi : i \in Places /\ i + d \in 0..(Modulus - 1) /\ i + d \in Places
  BY PlacesHold
<1>7. Targets(p, n, d)
  BY <1>4, <1>5, <1>6 DEF Targets
<1>8. Unmoved(p, n, d)
  <2> SUFFICES ASSUME NEW k \in 1..n, NEW m \in 1..(k - 1) PROVE p[m] # p[k] - d
    BY DEF Unmoved
  <2>1. m \in 1..n
    BY <1>3
  <2>2. p[k] = lo + k - 1 /\ p[m] = lo + m - 1
    BY <1>3, <2>1
  <2> QED BY <1>3, <2>2
<1>9. PICK b : b = MoveAll(a, p, d)
  OBVIOUS
<1>10. LeftMoving(b, a, S, d)
  BY <1>3, <1>4, <1>7, <1>8, <1>9, MovesHold
<1>11. S \in SUBSET Places /\ \A i \in S : i + d \in Places
  BY <1>5, <1>6
<1>12. Carried(b, a, S, d)
  BY <1>10, <1>11, HalfwayCarried
<1> QED BY <1>2, <1>5, <1>9, <1>12

LEMMA MovedDown ==
  ASSUME NEW a \in Arrays, ~Failed(a), NEW lo \in Nat, NEW hi \in Int,
         NEW d \in Nat, hi + d <= Modulus - 1
  PROVE  Carried(MoveAll(a, Downwards(hi, lo), d), a, lo..hi, d)
<1>1. PICK n : n = Span(lo, hi)
  OBVIOUS
<1>2. PICK p : p = Downwards(hi, lo)
  OBVIOUS
<1>3. n \in Nat /\ Len(p) = n /\ \A k \in 1..n : p[k] = hi - k + 1
  <2>1. n \in Nat /\ Falling(p, hi, n)
    BY <1>1, <1>2, DownwardsIs
  <2> QED BY <2>1 DEF Falling
<1>4. PICK S : S = {p[k] : k \in 1..n}
  OBVIOUS
<1>5. S = lo..hi
  <2>1. ASSUME NEW i \in lo..hi PROVE i \in S
    <3>1. PICK k \in 1..n : k = hi - i + 1
      BY <1>1 DEF Span
    <3>2. i = p[k]
      BY <1>3, <3>1
    <3> QED BY <1>4, <3>2
  <2>2. ASSUME NEW k \in 1..n PROVE hi - k + 1 \in lo..hi
    <3>1. n = hi - lo + 1 /\ k \in Int /\ 1 <= k /\ k <= n
      BY <1>1 DEF Span
    <3> QED BY <3>1
  <2>3. S \subseteq lo..hi
    <3> SUFFICES ASSUME NEW k \in 1..n PROVE p[k] \in lo..hi
      BY <1>4
    <3> QED BY <1>3, <2>2
  <2> QED BY <2>1, <2>3
<1>6. \A i \in lo..hi : i \in Places /\ i + d \in 0..(Modulus - 1) /\ i + d \in Places
  BY PlacesHold
<1>7. Targets(p, n, d)
  BY <1>4, <1>5, <1>6 DEF Targets
<1>8. Unmoved(p, n, d)
  <2> SUFFICES ASSUME NEW k \in 1..n, NEW m \in 1..(k - 1) PROVE p[m] # p[k] - d
    BY DEF Unmoved
  <2>1. m \in 1..n
    BY <1>3
  <2>2. p[k] = hi - k + 1 /\ p[m] = hi - m + 1
    BY <1>3, <2>1
  <2> QED BY <1>3, <2>2
<1>9. PICK b : b = MoveAll(a, p, d)
  OBVIOUS
<1>10. LeftMoving(b, a, S, d)
  BY <1>3, <1>4, <1>7, <1>8, <1>9, MovesHold
<1>11. S \in SUBSET Places /\ \A i \in S : i + d \in Places
  BY <1>5, <1>6
<1>12. Carried(b, a, S, d)
  BY <1>10, <1>11, HalfwayCarried
<1> QED BY <1>2, <1>5, <1>9, <1>12

-----------------------------------------------------------------------------
(* The functions that move elements                                        *)

LEMMA OfTwo ==
  ASSUME NEW x \in Int, NEW y \in Int
  PROVE  /\ Max({x, y}) = IF x >= y THEN x ELSE y
         /\ Min({x, y}) = IF x <= y THEN x ELSE y
<1>1. PICK g \in {x, y} : \A z \in {x, y} : g >= z
  OBVIOUS
<1>2. Max({x, y}) \in {x, y} /\ \A z \in {x, y} : Max({x, y}) >= z
  BY <1>1 DEF Max
<1>3. PICK l \in {x, y} : \A z \in {x, y} : l <= z
  OBVIOUS
<1>4. Min({x, y}) \in {x, y} /\ \A z \in {x, y} : Min({x, y}) <= z
  BY <1>3 DEF Min
<1> QED BY <1>2, <1>4

LEMMA RelativeIs ==
  ASSUME NEW a, a.len \in Nat, NEW x \in Int
  PROVE  Relative(a, x) \in 0..a.len
<1>1. PICK y \in Int : y = x + a.len
  OBVIOUS
<1>2. Max({y, 0}) = IF y >= 0 THEN y ELSE 0
  BY OfTwo
<1>3. Min({x, a.len}) = IF x <= a.len THEN x ELSE a.len
  <2>1. PICK z \in Int : z = a.len
    OBVIOUS
  <2>2. Min({x, z}) = IF x <= z THEN x ELSE z
    BY OfTwo
  <2> QED BY <2>1, <2>2
<1> QED BY <1>1, <1>2, <1>3 DEF Relative

\* m is a made ready for items at from: what was from lo on has moved by d.
Prepared(m, a, from, lo, d) ==
  /\ m \in Arrays /\ m.locked = a.locked /\ (a.locked = {} => ~Failed(m))
  /\ \A j \in 0..(from - 1) : m.at[j] = a.at[j]
  /\ \A i \in lo..(a.len - 1) : m.at[i + d] = a.at[i] \/ (Failed(m) /\ m.at[i] = a.at[i])

\* The n items fill the room between from and what has moved.
Fitting(a, from, lo, d, n, size) ==
  /\ from \in Nat /\ lo \in Nat /\ n \in Nat /\ d \in Int
  /\ from <= lo /\ lo <= a.len /\ from + n = lo + d
  /\ size \in 0..(Modulus - 1) /\ size = a.len + d

Rebuilt(c, a, from, lo, d, items, size) ==
  /\ a.locked = {} => /\ ~Failed(c) /\ c.len = size
                      /\ \A j \in 0..(size - 1) :
                           c.at[j] = IF j < from THEN a.at[j]
                                     ELSE IF j < lo + d THEN items[j - from + 1] ELSE a.at[j - d]
  /\ \A i \in 0..(from - 1) : c.at[i] = a.at[i]
  /\ \A i \in lo..(a.len - 1) : c.at[i] = a.at[i] \/ c.at[i + d] = a.at[i]

LEMMA Rebuilding ==
  ASSUME NEW a \in Arrays, NEW from, NEW lo, NEW d, NEW n, NEW size, Fitting(a, from, lo, d, n, size),
         NEW items, NEW m, Prepared(m, a, from, lo, d), NEW b, Filled(b, m, from, n, items)
  PROVE  Rebuilt(PutLength(b, size), a, from, lo, d, items, size)
<1>1. /\ from \in Nat /\ lo \in Nat /\ n \in Nat /\ d \in Int
      /\ from <= lo /\ lo <= a.len /\ from + n = lo + d
      /\ size \in 0..(Modulus - 1) /\ size = a.len + d /\ a.len \in 0..(Modulus - 1)
  BY DEF Fitting, Arrays
<1>2. PICK c : c = PutLength(b, size)
  OBVIOUS
<1>3. Lengthened(c, b, size)
  <2>1. b \in Arrays
    BY DEF Filled
  <2> QED BY <1>1, <1>2, <2>1, PutLengthIs
<1>4. 0..(size - 1) \subseteq Places
  BY <1>1, PlacesHold DEF Places
<1>5. ASSUME NEW i \in 0..(from - 1) PROVE c.at[i] = a.at[i] /\ b.at[i] = a.at[i]
  <2>0. i \in 0..(size - 1)
    BY <1>1
  <2>1. i \in 0..(size - 1) /\ i \in Places
    BY <1>4, <2>0
  <2>2. b.at[i] = m.at[i]
    BY <1>1, <2>1 DEF Filled
  <2> QED BY <1>3, <2>1, <2>2 DEF Lengthened, Prepared
<1>6. ASSUME NEW i \in lo..(a.len - 1), m.at[i + d] = a.at[i]
      PROVE  c.at[i + d] = a.at[i]
  <2>1. PICK j : j = i + d
    OBVIOUS
  <2>0. j \in 0..(size - 1) /\ ~(from <= j /\ j < from + n)
    BY <1>1, <2>1
  <2>2. j \in 0..(size - 1) /\ j \in Places /\ ~(from <= j /\ j < from + n)
    BY <1>4, <2>0
  <2>3. b.at[j] = m.at[j]
    BY <2>2 DEF Filled
  <2>4. c.at[j] = b.at[j]
    BY <1>3, <2>2 DEF Lengthened
  <2> QED BY <1>6, <2>1, <2>3, <2>4
<1>7. ASSUME NEW i \in lo..(a.len - 1) PROVE c.at[i] = a.at[i] \/ c.at[i + d] = a.at[i]
  <2>1. CASE m.at[i + d] = a.at[i]
    BY <1>6, <2>1
  <2>2. CASE Failed(m) /\ m.at[i] = a.at[i]
    <3>1. b.at = m.at /\ Failed(b)
      BY <2>2 DEF Filled
    <3>2. c = b
      BY <1>3, <3>1 DEF Lengthened
    <3> QED BY <2>2, <3>1, <3>2
  <2> QED BY <2>1, <2>2 DEF Prepared
<1>8. ASSUME a.locked = {} PROVE ~Failed(m) /\ ~Failed(b) /\ ~Failed(c) /\ c.len = size
  <2>1. ~Failed(m) /\ m.locked = {}
    BY <1>8 DEF Prepared
  <2>2. ~Failed(b) /\ b.locked = {}
    BY <2>1 DEF Filled
  <2> QED BY <1>3, <2>1, <2>2 DEF Lengthened
<1>9. ASSUME a.locked = {}, NEW j \in 0..(size - 1)
      PROVE  c.at[j] = IF j < from THEN a.at[j]
                       ELSE IF j < lo + d THEN items[j - from + 1] ELSE a.at[j - d]
  <2>1. CASE j < from
    <3>1. j \in 0..(from - 1)
      BY <1>1, <2>1
    <3> QED BY <1>5, <2>1, <3>1
  <2>2. CASE j >= from /\ j < lo + d
    <3>1. PICK k : k = j - from + 1
      OBVIOUS
    <3>2. k \in 1..n /\ from + k - 1 = j
      BY <1>1, <2>2, <3>1
    <3>3. b.at[from + k - 1] = items[k]
      BY <1>8, <1>9, <3>2 DEF Filled
    <3>4. c.at[j] = b.at[j]
      BY <1>3 DEF Lengthened
    <3> QED BY <1>1, <2>2, <3>1, <3>2, <3>3, <3>4
  <2>3. CASE j >= lo + d
    <3>1. PICK i : i = j - d
      OBVIOUS
    <3>2. i \in lo..(a.len - 1) /\ i + d = j
      BY <1>1, <2>3, <3>1
    <3>3. m.at[i + d] = a.at[i]
      BY <1>8, <1>9, <3>2 DEF Prepared
    <3>4. c.at[i + d] = a.at[i]
      BY <1>6, <3>2, <3>3
    <3> QED BY <1>1, <2>3, <3>1, <3>2, <3>4
  <2> QED BY <1>1, <2>1, <2>2, <2>3
<1> QED BY <1>2, <1>5, <1>7, <1>8, <1>9 DEF Rebuilt

\* Nothing has to move.
LEMMA NothingMoves ==
  ASSUME NEW a \in Arrays, ~Failed(a), NEW from, NEW d
  PROVE  Prepared(a, a, from, a.len, d)
<1>1. a.len \in Nat /\ a.len..(a.len - 1) = {}
  BY PlacesHold DEF Arrays
<1> QED BY <1>1 DEF Prepared

LEMMA NothingPut ==
  ASSUME NEW m \in Arrays, NEW from \in Int
  PROVE  Filled(m, m, from, 0, <<>>)
BY DEF Filled

\* The loop of moves up or down, then perhaps one of deletions beyond it.
LEMMA CarriedPrepares ==
  ASSUME NEW a \in Arrays, NEW from \in Nat, NEW lo \in Nat, NEW d \in Int, from <= lo,
         from <= lo + d, from <= a.len, NEW m, Carried(m, a, lo..(a.len - 1), d)
  PROVE  Prepared(m, a, from, lo, d)
<1>1. m \in Arrays /\ m.locked = a.locked /\ (a.locked = {} => ~Failed(m))
  BY DEF Carried
<1>2. ASSUME NEW j \in 0..(from - 1) PROVE m.at[j] = a.at[j]
  <2>1. a.len \in 0..(Modulus - 1)
    BY DEF Arrays
  <2>2. j \in Places
    BY <2>1, PlacesHold DEF Places
  <2>3. j - d \notin lo..(a.len - 1)
    BY <2>1
  <2> QED BY <2>2, <2>3 DEF Carried
<1>3. \A i \in lo..(a.len - 1) : m.at[i + d] = a.at[i] \/ (Failed(m) /\ m.at[i] = a.at[i])
  BY DEF Carried
<1> QED BY <1>1, <1>2, <1>3 DEF Prepared

LiesBeyond(S, from, end) == S \subseteq Nat /\ \A s \in S : from <= s /\ end <= s
LEMMA DeletedPrepared ==
  ASSUME NEW a \in Arrays, NEW from \in Nat, NEW lo \in Nat, NEW d \in Int, from <= a.len, 0 <= lo + d,
         d <= 0, NEW end, end = a.len + d, NEW m, Prepared(m, a, from, lo, d),
         NEW S, LiesBeyond(S, from, end), NEW r, Emptied(r, m, S)
  PROVE  Prepared(r, a, from, lo, d)
<1>1. m \in Arrays /\ m.locked = a.locked /\ (a.locked = {} => ~Failed(m))
  BY DEF Prepared
<1>2. r \in Arrays /\ r.locked = a.locked /\ (a.locked = {} => ~Failed(r))
  BY <1>1 DEF Emptied
<1>3. a.len \in 0..(Modulus - 1)
  BY DEF Arrays
<1>4. ASSUME NEW j \in 0..(from - 1) PROVE r.at[j] = a.at[j]
  <2>1. j \in Places
    BY <1>3, PlacesHold DEF Places
  <2>2. j \notin S
    BY DEF LiesBeyond
  <2> QED BY <2>1, <2>2 DEF Emptied, Prepared
<1>5. ASSUME NEW i \in lo..(a.len - 1)
      PROVE  r.at[i + d] = a.at[i] \/ (Failed(r) /\ r.at[i] = a.at[i])
  <2>1. CASE m.at[i + d] = a.at[i]
    <3>1. PICK j : j = i + d
      OBVIOUS
    <3>2. j \in 0..(Modulus - 1) /\ j < end
      <4>1. PICK l \in 0..(Modulus - 1) : l = a.len
        BY <1>3
      <4>2. i \in Int /\ lo <= i /\ i <= l - 1 /\ end = l + d
        BY <4>1
      <4>3. 0 <= lo + d /\ lo + d <= j /\ j <= l - 1 /\ j \in Int
        BY <3>1, <4>2
      <4> QED BY <3>1, <4>1, <4>2, <4>3, PlacesHold
    <3>3. j \in Places
      BY <3>2, PlacesHold DEF Places
    <3>4. j \notin S
      BY <1>3, <3>2 DEF LiesBeyond
    <3>5. r.at[j] = m.at[j]
      BY <3>3, <3>4 DEF Emptied
    <3> QED BY <2>1, <3>1, <3>5
  <2>2. CASE Failed(m) /\ m.at[i] = a.at[i]
    BY <2>2 DEF Emptied
  <2> QED BY <2>1, <2>2 DEF Prepared
<1> QED BY <1>2, <1>4, <1>5 DEF Prepared

LEMMA DeletedOne ==
  ASSUME NEW m \in Arrays, NEW i \in Places
  PROVE  Emptied(DeleteAt(m, i), m, {i})
<1>1. DeleteAt(m, i) \in Arrays
  BY DeleteTyped
<1> QED BY <1>1 DEF Emptied, DeleteAt, Throw, Failed, Arrays

-----------------------------------------------------------------------------
(* What is left, as a sequence                                             *)

LEMMA ArrayAsSeq ==
  ASSUME NEW a \in Arrays, NEW s, s = AsSeq(a)
  PROVE  s \in Seq(Slots) /\ Len(s) = a.len /\ \A k \in 1..a.len : s[k] = a.at[k - 1]
<1>1. a.len \in Nat /\ \A k \in 1..a.len : k - 1 \in Places
  BY PlacesHold DEF Arrays, Places
<1>2. \A k \in 1..a.len : a.at[k - 1] \in Slots
  BY <1>1 DEF Arrays, Slots
<1> QED BY <1>1, <1>2 DEF AsSeq

\* items instead of those from the from-th to the lo-th.
Around(s, from, lo, items) == SubSeq(s, 1, from) \o items \o SubSeq(s, lo + 1, Len(s))

Surrounded(t, s, l, from, lo, n, items) ==
  /\ t \in Seq(Slots) /\ Len(t) = from + n + (l - lo)
  /\ \A k \in 1..(from + n + (l - lo)) :
       t[k] = IF k <= from THEN s[k]
              ELSE IF k <= from + n THEN items[k - from] ELSE s[k - (from + n) + lo]
LEMMA AroundIs ==
  ASSUME NEW s \in Seq(Slots), NEW l, l = Len(s), NEW items \in Seq(Slots), NEW n, n = Len(items),
         NEW from \in 0..l, NEW lo \in 0..l
  PROVE  Surrounded(Around(s, from, lo, items), s, l, from, lo, n, items)
<1>0. PICK t : t = Around(s, from, lo, items)
  OBVIOUS
<1>1. l \in Nat /\ n \in Nat /\ \A k \in 1..l : s[k] \in Slots
  OBVIOUS
<1>2. PICK u : u = SubSeq(s, 1, from)
  OBVIOUS
<1>3. PICK v : v = SubSeq(s, lo + 1, l)
  OBVIOUS
<1>4. u \in Seq(Slots) /\ Len(u) = from /\ \A k \in 1..from : u[k] = s[k]
  <2>1. \A i \in 1..from : s[i] \in Slots
    BY <1>1
  <2>2. PICK x \in Int : x = 1
    OBVIOUS
  <2>3. u = SubSeq(s, x, from) /\ \A i \in x..from : s[i] \in Slots
    BY <1>2, <2>1, <2>2
  <2>4. /\ u \in Seq(Slots) /\ Len(u) = IF x <= from THEN from - x + 1 ELSE 0
        /\ \A i \in 1..(from - x + 1) : u[i] = s[x + i - 1]
    BY <2>3, SubSeqProperties
  <2> QED BY <2>2, <2>4
<1>5. v \in Seq(Slots) /\ Len(v) = l - lo /\ \A k \in 1..(l - lo) : v[k] = s[lo + k]
  <2>1. PICK x \in Int : x = lo + 1
    OBVIOUS
  <2>2. v = SubSeq(s, x, l) /\ \A i \in x..l : s[i] \in Slots
    BY <1>1, <1>3, <2>1
  <2>3. /\ v \in Seq(Slots) /\ Len(v) = IF x <= l THEN l - x + 1 ELSE 0
        /\ \A i \in 1..(l - x + 1) : v[i] = s[x + i - 1]
    BY <1>1, <2>2, SubSeqProperties
  <2>4. l - x + 1 = l - lo /\ (IF x <= l THEN l - x + 1 ELSE 0) = l - lo
    BY <1>1, <2>1
  <2>5. \A k \in 1..(l - lo) : x + k - 1 = lo + k
    BY <1>1, <2>1
  <2> QED BY <2>3, <2>4, <2>5
<1>6. PICK w : w = u \o items
  OBVIOUS
<1>7. /\ w \in Seq(Slots) /\ Len(w) = from + n
      /\ \A i \in 1..(from + n) : w[i] = IF i <= from THEN u[i] ELSE items[i - from]
  <2>1. u \in Seq(Slots) /\ items \in Seq(Slots) /\ Len(u) = from /\ Len(items) = n
    BY <1>4
  <2>2. /\ u \o items \in Seq(Slots) /\ Len(u \o items) = Len(u) + Len(items)
        /\ \A i \in 1..(Len(u) + Len(items)) :
             (u \o items)[i] = IF i <= Len(u) THEN u[i] ELSE items[i - Len(u)]
    BY <2>1, ConcatProperties, Zenon
  <2>3. /\ w \in Seq(Slots) /\ Len(w) = Len(u) + Len(items)
        /\ \A i \in 1..(Len(u) + Len(items)) :
             w[i] = IF i <= Len(u) THEN u[i] ELSE items[i - Len(u)]
    BY <1>6, <2>2
  <2> QED BY <2>1, <2>3, Zenon
<1>8. t = w \o v
  BY <1>0, <1>2, <1>3, <1>6 DEF Around
<1>9. /\ t \in Seq(Slots) /\ Len(t) = from + n + (l - lo)
      /\ \A i \in 1..(from + n + (l - lo)) : t[i] = IF i <= from + n THEN w[i] ELSE v[i - (from + n)]
  <2>1. /\ t \in Seq(Slots) /\ Len(t) = Len(w) + Len(v)
        /\ \A i \in 1..(Len(w) + Len(v)) : t[i] = IF i <= Len(w) THEN w[i] ELSE v[i - Len(w)]
    BY <1>5, <1>7, <1>8, ConcatProperties
  <2> QED BY <1>5, <1>7, <2>1
<1>10. ASSUME NEW k \in 1..(from + n + (l - lo))
       PROVE  t[k] = IF k <= from THEN s[k]
                     ELSE IF k <= from + n THEN items[k - from] ELSE s[k - (from + n) + lo]
  <2>1. CASE k <= from + n
    <3>1. k \in 1..(from + n) /\ t[k] = w[k]
      BY <1>1, <1>9, <2>1
    <3>2. k <= from => k \in 1..from
      BY <3>1
    <3> QED BY <1>4, <1>7, <2>1, <3>1, <3>2
  <2>2. CASE ~(k <= from + n)
    <3>1. PICK m : m = k - (from + n)
      OBVIOUS
    <3>2. m \in 1..(l - lo) /\ t[k] = v[m] /\ ~(k <= from)
      <4>1. m \in 1..(l - lo) /\ ~(k <= from)
        BY <1>1, <2>2, <3>1
      <4>2. t[k] = IF k <= from + n THEN w[k] ELSE v[k - (from + n)]
        BY <1>9
      <4> QED BY <2>2, <3>1, <4>1, <4>2
    <3>3. lo + m = k - (from + n) + lo
      BY <1>1, <3>1
    <3> QED BY <1>5, <2>2, <3>1, <3>2, <3>3
  <2> QED BY <2>1, <2>2
<1> QED BY <1>0, <1>9, <1>10 DEF Surrounded

LEMMA RebuiltAround ==
  ASSUME NEW a \in Arrays, a.locked = {}, NEW from, NEW lo, NEW d, NEW n, NEW size,
         Fitting(a, from, lo, d, n, size), NEW items \in Seq(Elements), n = Len(items),
         NEW c, Rebuilt(c, a, from, lo, d, items, size)
  PROVE  ~Failed(c) /\ AsSeq(c) = Around(AsSeq(a), from, lo, items)
<1>1. /\ from \in Nat /\ lo \in Nat /\ n \in Nat /\ d \in Int
      /\ from <= lo /\ lo <= a.len /\ from + n = lo + d
      /\ size \in 0..(Modulus - 1) /\ size = a.len + d /\ a.len \in 0..(Modulus - 1)
  BY DEF Fitting, Arrays
<1>2. PICK s : s = AsSeq(a)
  OBVIOUS
<1>3. s \in Seq(Slots) /\ Len(s) = a.len /\ \A k \in 1..a.len : s[k] = a.at[k - 1]
  BY <1>2, ArrayAsSeq
<1>4. PICK t : t = Around(s, from, lo, items)
  OBVIOUS
<1>5. PICK l \in Nat : l = a.len
  BY <1>1
<1>6. /\ t \in Seq(Slots) /\ Len(t) = from + n + (l - lo)
      /\ \A k \in 1..(from + n + (l - lo)) :
           t[k] = IF k <= from THEN s[k]
                  ELSE IF k <= from + n THEN items[k - from] ELSE s[k - (from + n) + lo]
  <2>1. items \in Seq(Slots) /\ from \in 0..l /\ lo \in 0..l /\ l = Len(s)
    BY <1>1, <1>3, <1>5 DEF Slots
  <2>2. Surrounded(t, s, l, from, lo, n, items)
    BY <1>3, <1>4, <2>1, AroundIs
  <2> QED BY <2>2 DEF Surrounded
<1>7. size = from + n + (l - lo)
  BY <1>1, <1>5
<1>8. /\ ~Failed(c) /\ c.len = size
      /\ \A j \in 0..(size - 1) : c.at[j] = IF j < from THEN a.at[j]
                                           ELSE IF j < lo + d THEN items[j - from + 1] ELSE a.at[j - d]
  BY DEF Rebuilt
<1>9. ASSUME NEW k \in 1..size PROVE c.at[k - 1] = t[k]
  <2>1. PICK j : j = k - 1
    OBVIOUS
  <2>2. j \in 0..(size - 1) /\ k \in 1..(from + n + (l - lo))
    <3>1. size \in Int
      BY <1>1, <1>7
    <3>2. j \in 0..(size - 1)
      BY <2>1, <3>1
    <3> QED BY <1>7, <3>2
  <2>3. c.at[j] = IF j < from THEN a.at[j]
                  ELSE IF j < lo + d THEN items[j - from + 1] ELSE a.at[j - d]
    BY <1>8, <2>2
  <2>4. CASE k <= from
    <3>1. k \in 1..a.len /\ j < from
      <4>1. k \in Int /\ 1 <= k /\ from <= l
        BY <1>1, <1>5
      <4>2. k \in 1..l /\ j < from
        BY <1>1, <2>1, <2>4, <4>1
      <4> QED BY <1>5, <4>2
    <3> QED BY <1>3, <1>6, <2>1, <2>2, <2>3, <2>4, <3>1
  <2>5. CASE ~(k <= from) /\ k <= from + n
    <3>1. ~(j < from) /\ j < lo + d /\ j - from + 1 = k - from
      BY <1>1, <2>1, <2>5
    <3> QED BY <1>6, <2>1, <2>2, <2>3, <2>5, <3>1
  <2>6. CASE ~(k <= from + n)
    <3>1. PICK m : m = k - (from + n) + lo
      OBVIOUS
    <3>2. ~(j < from) /\ ~(j < lo + d) /\ m \in 1..a.len /\ m - 1 = j - d /\ ~(k <= from)
      <4>1. k \in Int /\ k <= from + n + (l - lo) /\ from + n < k
        BY <1>1, <2>2, <2>6
      <4>2. m \in 1..l
        BY <1>1, <3>1, <4>1
      <4>3. ~(j < from) /\ ~(j < lo + d) /\ ~(k <= from)
        BY <1>1, <2>1, <4>1
      <4>4. m - 1 = j - d
        <5>1. from + n = lo + d /\ lo \in Int /\ d \in Int /\ from \in Int /\ n \in Int
          BY <1>1
        <5> QED BY <2>1, <3>1, <4>1, <5>1
      <4> QED BY <1>5, <4>2, <4>3, <4>4
    <3>3. t[k] = s[m]
      BY <1>6, <2>2, <2>6, <3>1, <3>2
    <3>4. s[m] = a.at[m - 1]
      BY <1>3, <3>2
    <3> QED BY <2>1, <2>3, <3>2, <3>3, <3>4
  <2> QED BY <2>4, <2>5, <2>6
<1>10. AsSeq(c) = [k \in 1..size |-> t[k]]
  BY <1>8, <1>9 DEF AsSeq
<1>11. t = [k \in 1..size |-> t[k]]
  BY <1>6, <1>7
<1> QED BY <1>2, <1>4, <1>8, <1>10, <1>11

\* c is a with items instead of those from from on and below lo, as far as the
\* call came.
Rebuilds(c, a, from, lo, items) ==
  \E d, n, size : /\ Fitting(a, from, lo, d, n, size) /\ n = Len(items)
                  /\ Rebuilt(c, a, from, lo, d, items, size)

LEMMA RebuildsIf ==
  ASSUME NEW a \in Arrays, NEW from, NEW lo, NEW d, NEW n, NEW size, Fitting(a, from, lo, d, n, size),
         NEW items, n = Len(items), NEW m, Prepared(m, a, from, lo, d),
         NEW b, Filled(b, m, from, n, items), NEW c, c = PutLength(b, size)
  PROVE  Rebuilds(c, a, from, lo, items)
<1>1. Rebuilt(c, a, from, lo, d, items, size)
  BY Rebuilding
<1> QED BY <1>1 DEF Rebuilds

LEMMA PopRebuilds ==
  ASSUME NEW a \in Arrays, ~Failed(a), NEW c, c = Pop(a).array, NEW from, NEW l, l = a.len,
         from = IF l = 0 THEN 0 ELSE l - 1
  PROVE  Rebuilds(c, a, from, l, <<>>)
<1>1. l \in 0..(Modulus - 1) /\ <<>> = <<>> /\ Len(<<>>) = 0
  BY DEF Arrays
<1>2. PICK d \in Int : d = from - l
  BY <1>1
<1>3. from \in Nat /\ Fitting(a, from, l, d, 0, from)
  BY <1>1, <1>2, PlacesHold DEF Fitting
<1>4. CASE l = 0
  <2>1. c = PutLength(a, from)
    BY <1>4 DEF Pop, Returning
  <2>2. Prepared(a, a, from, l, d) /\ Filled(a, a, from, 0, <<>>)
    BY <1>3, NothingMoves, NothingPut
  <2> QED BY <1>1, <1>3, <2>1, <2>2, RebuildsIf
<1>5. CASE l # 0
  <2>1. PICK m : m = DeleteAt(a, from)
    OBVIOUS
  <2>2. from \in Places
    BY <1>1, PlacesHold DEF Places
  <2>3. Emptied(m, a, {from})
    BY <2>1, <2>2, DeletedOne
  <2>4. Prepared(a, a, from, l, d)
    BY NothingMoves
  <2>5. Prepared(m, a, from, l, d)
    <3>1. PICK end : end = l + d
      OBVIOUS
    <3>2. LiesBeyond({from}, from, end) /\ from <= a.len /\ 0 <= l + d /\ d <= 0 /\ l \in Nat
      BY <1>1, <1>2, <1>3, <3>1 DEF LiesBeyond
    <3> QED BY <1>3, <2>3, <2>4, <3>1, <3>2, DeletedPrepared
  <2>6. Filled(m, m, from, 0, <<>>)
    BY <1>3, <2>5, NothingPut DEF Prepared
  <2>7. c = PutLength(m, from)
    BY <1>5, <2>1 DEF Pop, Returning
  <2> QED BY <1>1, <1>3, <2>5, <2>6, <2>7, RebuildsIf
<1> QED BY <1>4, <1>5

LEMMA PushRebuilds ==
  ASSUME NEW a \in Arrays, ~Failed(a), NEW items \in Seq(Elements), NEW l, l = a.len,
         l + Len(items) < Modulus, NEW c, c = Push(a, items).array
  PROVE  Rebuilds(c, a, l, l, items)
<1>1. PICK n \in Nat : n = Len(items)
  OBVIOUS
<1>2. PICK size : size = l + n
  OBVIOUS
<1>3. l \in Nat /\ Fitting(a, l, l, n, n, size) /\ l + n <= Modulus
  BY <1>1, <1>2, PlacesHold DEF Fitting, Arrays
<1>4. PICK b : b = Put(a, l, items)
  OBVIOUS
<1>5. Filled(b, a, l, n, items)
  BY <1>1, <1>3, <1>4, PutsHold
<1>6. Prepared(a, a, l, l, n)
  BY NothingMoves
<1>7. c = PutLength(b, size)
  BY <1>1, <1>2, <1>4 DEF Push, Returning
<1> QED BY <1>1, <1>3, <1>5, <1>6, <1>7, RebuildsIf

LEMMA ShiftRebuilds ==
  ASSUME NEW a \in Arrays, ~Failed(a), NEW c, c = Shift(a).array, NEW lo,
         lo = IF a.len = 0 THEN 0 ELSE 1
  PROVE  Rebuilds(c, a, 0, lo, <<>>)
<1>1. PICK l \in 0..(Modulus - 1) : l = a.len
  BY DEF Arrays
<1>2. PICK d \in Int : d = -lo
  OBVIOUS
<1>3. PICK size : size = l - lo
  OBVIOUS
<1>4. Len(<<>>) = 0 /\ 0 \in Nat /\ lo \in Nat /\ Fitting(a, 0, lo, d, 0, size)
  BY <1>1, <1>2, <1>3, PlacesHold DEF Fitting
<1>5. CASE l = 0
  <2>1. c = PutLength(a, 0) /\ size = 0 /\ lo = l
    BY <1>1, <1>3, <1>5 DEF Shift, Returning
  <2>2. Prepared(a, a, 0, lo, d) /\ Filled(a, a, 0, 0, <<>>)
    BY <1>1, <2>1, NothingMoves, NothingPut
  <2> QED BY <1>4, <2>1, <2>2, RebuildsIf
<1>6. CASE l # 0
  <2>1. PICK hi \in Int : hi = l - 1
    BY <1>1
  <2>2. PICK m : m = MoveAll(a, Upwards(1, hi), -1)
    OBVIOUS
  <2>3. lo = 1 /\ d = -1
    BY <1>1, <1>2, <1>6
  <2>4. Carried(m, a, 1..hi, d)
    <3>1. 1 \in Nat /\ hi <= Modulus - 1 /\ d <= 0 /\ 1 + d >= 0 /\ d = -1
      BY <1>1, <2>1, <2>3, PlacesHold
    <3>2. m = MoveAll(a, Upwards(1, hi), d)
      BY <2>2, <2>3
    <3> QED BY <3>1, <3>2, MovedUp
  <2>5. Prepared(m, a, 0, lo, d)
    <3>1. Carried(m, a, lo..(a.len - 1), d)
      BY <1>1, <2>1, <2>3, <2>4
    <3>2. 0 \in Nat /\ 0 <= lo /\ 0 <= lo + d /\ 0 <= a.len
      BY <1>1, <2>3
    <3> QED BY <1>4, <3>1, <3>2, CarriedPrepares
  <2>6. PICK r : r = DeleteAt(m, hi)
    OBVIOUS
  <2>7. m \in Arrays
    BY <2>5 DEF Prepared
  <2>8. hi \in Places
    BY <1>1, <1>6, <2>1, PlacesHold DEF Places
  <2>9. Emptied(r, m, {hi})
    BY <2>6, <2>7, <2>8, DeletedOne
  <2>10. Prepared(r, a, 0, lo, d)
    <3>1. size = a.len + d
      BY <1>1, <1>3, <2>3
    <3>2. LiesBeyond({hi}, 0, size) /\ 0 <= a.len /\ 0 <= lo + d /\ d <= 0
      BY <1>1, <1>3, <1>6, <2>1, <2>3 DEF LiesBeyond
    <3> QED BY <1>4, <2>5, <2>9, <3>1, <3>2, DeletedPrepared
  <2>11. Filled(r, r, 0, 0, <<>>)
    BY <2>10, NothingPut DEF Prepared
  <2>12. c = PutLength(r, size)
    BY <1>1, <1>3, <1>6, <2>1, <2>2, <2>3, <2>6 DEF Shift, Returning
  <2> QED BY <1>4, <2>10, <2>11, <2>12, RebuildsIf
<1> QED BY <1>5, <1>6

LEMMA UnshiftRebuilds ==
  ASSUME NEW a \in Arrays, ~Failed(a), NEW items \in Seq(Elements), NEW l, l = a.len,
         l + Len(items) < Modulus, NEW c, c = Unshift(a, items).array
  PROVE  Rebuilds(c, a, 0, 0, items)
<1>1. PICK n \in Nat : n = Len(items)
  OBVIOUS
<1>2. PICK size : size = l + n
  OBVIOUS
<1>3. /\ l \in 0..(Modulus - 1) /\ 0 \in Nat /\ n \in Int
      /\ size \in 0..(Modulus - 1) /\ Fitting(a, 0, 0, n, n, size) /\ 0 + n <= Modulus
  BY <1>1, <1>2, PlacesHold DEF Fitting, Arrays
<1>4. PICK hi \in Int : hi = l - 1
  BY <1>3
<1>5. PICK m : m = IF n = 0 THEN a ELSE MoveAll(a, Downwards(hi, 0), n)
  OBVIOUS
<1>6. Prepared(m, a, 0, 0, n)
  <2>1. CASE n = 0
    <3>1. Prepared(a, a, 0, 0, 0)
      BY DEF Prepared
    <3> QED BY <1>5, <2>1, <3>1
  <2>2. CASE n # 0
    <3>1. m = MoveAll(a, Downwards(hi, 0), n)
      BY <1>5, <2>2
    <3>2. hi + n <= Modulus - 1
      <4>1. size \in Int /\ size <= Modulus - 1 /\ size = hi + 1 + n
        <5>1. Modulus \in Int
          BY PlacesHold
        <5>2. size \in Int /\ size <= Modulus - 1 /\ l \in Int
          BY <1>3, <5>1
        <5> QED BY <1>1, <1>2, <1>4, <5>2
      <4>2. Modulus \in Int
        BY PlacesHold
      <4> QED BY <4>1, <4>2
    <3>3. Carried(m, a, 0..(a.len - 1), n)
      BY <1>3, <1>4, <3>1, <3>2, MovedDown
    <3>4. 0 <= 0 /\ 0 <= 0 + n /\ 0 <= a.len
      BY <1>3
    <3> QED BY <1>3, <3>3, <3>4, CarriedPrepares
  <2> QED BY <2>1, <2>2
<1>7. PICK b : b = Put(m, 0, items)
  OBVIOUS
<1>8. Filled(b, m, 0, n, items)
  BY <1>1, <1>3, <1>6, <1>7, PutsHold DEF Prepared
<1>9. UInt32(size) = size
  BY <1>3, Unwrapped
<1>10. c = PutLength(b, size)
  BY <1>1, <1>2, <1>4, <1>5, <1>7, <1>9 DEF Unshift, Returning
<1> QED BY <1>1, <1>3, <1>6, <1>8, <1>10, RebuildsIf

SpliceSizes(l, n, from, count, lo, d, size, hi) ==
  /\ lo \in Nat /\ from \in Nat /\ d \in Int /\ hi \in Int /\ from <= lo /\ lo <= l
  /\ size \in 0..(Modulus - 1) /\ size = l + d /\ from + n = lo + d /\ from + n <= size
  /\ from <= lo + d /\ from <= l /\ hi <= Modulus - 1 /\ 0 <= lo + d /\ hi + d <= Modulus - 1
  /\ n < count => d <= 0
  /\ n > count => d \in Nat
LEMMA SpliceNumbers ==
  ASSUME NEW l \in 0..(Modulus - 1), NEW n \in Nat, l + n < Modulus, NEW from \in 0..l,
         NEW count \in 0..(l - from), NEW lo, lo = from + count, NEW d, d = n - count,
         NEW size, size = l - count + n, NEW hi, hi = l - 1
  PROVE  SpliceSizes(l, n, from, count, lo, d, size, hi)
<1>1. /\ l \in Int /\ from \in Int /\ count \in Int /\ Modulus \in Int
      /\ 0 <= l /\ l <= Modulus - 1 /\ 0 <= from /\ from <= l /\ 0 <= count /\ count <= l - from
  BY PlacesHold
<1>2. lo \in Nat /\ from \in Nat /\ d \in Int /\ hi \in Int /\ from <= lo /\ lo <= l
  BY <1>1
<1>3. size \in 0..(Modulus - 1) /\ size = l + d /\ from + n = lo + d /\ from + n <= size
  BY <1>1
<1>4. from <= lo + d /\ from <= l /\ hi <= Modulus - 1 /\ 0 <= lo + d /\ hi + d <= Modulus - 1
  BY <1>1
<1>5. n < count => d <= 0
  BY <1>1
<1>6. n > count => d \in Nat
  BY <1>1
<1> QED BY <1>2, <1>3, <1>4, <1>5, <1>6 DEF SpliceSizes

\* The elements that splice takes out, and what it makes of the array.
Cut(a, x, y, from, count) == from = Relative(a, x) /\ count = Min({Max({y, 0}), a.len - from})
RoomFor(a, items) == a.len + Len(items) < Modulus
Replaces(c, a, from, count, items) ==
  /\ from \in 0..a.len /\ count \in 0..(a.len - from)
  /\ \E lo : lo = from + count /\ Rebuilds(c, a, from, lo, items)
LEMMA SpliceRebuilds ==
  ASSUME NEW a \in Arrays, ~Failed(a), NEW items \in Seq(Elements), RoomFor(a, items),
         NEW x \in Int, NEW y \in Int, NEW from, NEW count, Cut(a, x, y, from, count)
  PROVE  Replaces(Splice(a, x, y, items).array, a, from, count, items)
<1>0. PICK l, lo, c : l = a.len /\ lo = from + count /\ c = Splice(a, x, y, items).array
  OBVIOUS
<1>1. PICK n \in Nat : n = Len(items) /\ l + n < Modulus
  BY <1>0 DEF RoomFor
<1>2. /\ l \in 0..(Modulus - 1) /\ from \in 0..l
      /\ from = Relative(a, x) /\ count = Min({Max({y, 0}), l - from})
  <2>1. l \in 0..(Modulus - 1) /\ from = Relative(a, x) /\ count = Min({Max({y, 0}), l - from})
    BY <1>0 DEF Arrays, Cut
  <2>2. a.len \in Nat
    BY <1>0, <2>1
  <2> QED BY <1>0, <2>1, <2>2, RelativeIs
<1>3. count \in 0..(l - from)
  <2>1. PICK u \in Int : u = l - from /\ u >= 0
    BY <1>2
  <2>2. Max({y, 0}) = IF y >= 0 THEN y ELSE 0
    BY OfTwo
  <2>3. PICK v \in Nat : v = Max({y, 0})
    BY <2>2
  <2>4. Min({v, u}) = IF v <= u THEN v ELSE u
    <3>1. v \in Int
      BY <2>3
    <3> QED BY <3>1, OfTwo
  <2> QED BY <1>2, <2>1, <2>3, <2>4
<1>4. PICK d, size, hi : d = n - count /\ size = l - count + n /\ hi = l - 1
  OBVIOUS
<1>5. SpliceSizes(l, n, from, count, lo, d, size, hi)
  BY <1>0, <1>1, <1>2, <1>3, <1>4, SpliceNumbers
<1>6. /\ size \in 0..(Modulus - 1) /\ Fitting(a, from, lo, d, n, size) /\ from + n <= Modulus
      /\ lo \in Nat /\ from \in Nat /\ d \in Int /\ hi \in Int
  BY <1>0, <1>1, <1>5, PlacesHold DEF SpliceSizes, Fitting
<1>8. PICK m1 : m1 = IF n < count THEN MoveAll(a, Upwards(lo, hi), d)
                     ELSE IF n > count THEN MoveAll(a, Downwards(hi, lo), d) ELSE a
  OBVIOUS
<1>9. Prepared(m1, a, from, lo, d)
  <2>1. from <= lo /\ from <= lo + d /\ from <= a.len
    BY <1>0, <1>5 DEF SpliceSizes
  <2>2. lo..hi = lo..(a.len - 1)
    BY <1>0, <1>4
  <2>3. CASE n < count
    <3>1. m1 = MoveAll(a, Upwards(lo, hi), d)
      BY <1>8, <2>3
    <3>2. hi <= Modulus - 1 /\ d <= 0 /\ lo + d >= 0
      BY <1>5, <2>3 DEF SpliceSizes
    <3>3. Carried(m1, a, lo..hi, d)
      BY <1>6, <3>1, <3>2, MovedUp
    <3> QED BY <1>6, <2>1, <2>2, <3>3, CarriedPrepares
  <2>4. CASE n > count
    <3>1. m1 = MoveAll(a, Downwards(hi, lo), d)
      BY <1>3, <1>8, <2>4
    <3>2. hi + d <= Modulus - 1 /\ d \in Nat
      BY <1>5, <2>4 DEF SpliceSizes
    <3>3. Carried(m1, a, lo..hi, d)
      BY <1>6, <3>1, <3>2, MovedDown
    <3> QED BY <1>6, <2>1, <2>2, <3>3, CarriedPrepares
  <2>5. CASE n = count
    <3>1. m1 = a /\ d = 0
      BY <1>1, <1>3, <1>4, <1>8, <2>5
    <3>2. Prepared(a, a, from, lo, 0)
      BY <1>6 DEF Prepared
    <3> QED BY <3>1, <3>2
  <2> QED BY <1>3, <2>3, <2>4, <2>5
<1>10. PICK m : m = IF n < count THEN DeleteAll(m1, Downwards(hi, size)) ELSE m1
  OBVIOUS
<1>11. Prepared(m, a, from, lo, d)
  <2>1. CASE ~(n < count)
    BY <1>9, <1>10, <2>1
  <2>2. CASE n < count
    <3>1. PICK p, k : p = Downwards(hi, size) /\ k = Span(size, hi)
      OBVIOUS
    <3>2. k \in Nat /\ Falling(p, hi, k)
      <4>1. size \in Int
        BY <1>6
      <4> QED BY <1>6, <3>1, <4>1, DownwardsIs
    <3>4. PICK S : S = size..hi
      OBVIOUS
    <3>5. \A i \in 1..k : p[i] \in S /\ p[i] \in Places
      <4> SUFFICES ASSUME NEW i \in 1..k PROVE p[i] \in S /\ p[i] \in Places
        OBVIOUS
      <4>1. p[i] = hi - i + 1
        BY <3>2 DEF Falling
      <4>2. hi - size + 1 = k
        BY <1>6, <3>1, <3>2 DEF Span
      <4>3. hi - i + 1 \in S
        BY <1>6, <3>2, <3>4, <4>2
      <4>4. S \subseteq Places
        <5>1. hi <= Modulus - 1
          BY <1>5 DEF SpliceSizes
        <5> QED BY <1>6, <3>4, <5>1, PlacesHold DEF Places
      <4> QED BY <4>1, <4>3, <4>4
    <3>6. Len(p) = k
      BY <3>2 DEF Falling
    <3>7. m = DeleteAll(m1, p) /\ m1 \in Arrays
      BY <1>9, <1>10, <2>2, <3>1 DEF Prepared
    <3>8. Emptied(m, m1, S)
      BY <3>2, <3>5, <3>6, <3>7, DeletesHold
    <3>9. LiesBeyond(S, from, size)
      <4>1. from <= size
        <5>1. from + n <= size
          BY <1>5 DEF SpliceSizes
        <5> QED BY <1>1, <1>6, <5>1
      <4> QED BY <1>6, <3>4, <4>1 DEF LiesBeyond
    <3>10. size = a.len + d /\ from <= a.len /\ 0 <= lo + d /\ d <= 0
      BY <1>0, <1>5, <2>2 DEF SpliceSizes
    <3> QED BY <1>6, <1>9, <3>8, <3>9, <3>10, DeletedPrepared
  <2> QED BY <2>1, <2>2
<1>12. PICK b : b = Put(m, from, items)
  OBVIOUS
<1>13. Filled(b, m, from, n, items)
  BY <1>1, <1>6, <1>11, <1>12, PutsHold DEF Prepared
<1>14. UInt32(size) = size
  BY <1>6, Unwrapped
<1>15. c = PutLength(b, size)
  BY <1>0, <1>1, <1>2, <1>4, <1>8, <1>10, <1>12, <1>14 DEF Splice, Returning
<1>16. Rebuilds(c, a, from, lo, items)
  BY <1>1, <1>6, <1>11, <1>13, <1>15, RebuildsIf
<1> QED BY <1>0, <1>2, <1>3, <1>16 DEF Replaces

LEMMA RebuildsAround ==
  ASSUME NEW a \in Arrays, a.locked = {}, NEW from, NEW lo, NEW items \in Seq(Elements),
         NEW c, Rebuilds(c, a, from, lo, items)
  PROVE  ~Failed(c) /\ AsSeq(c) = Around(AsSeq(a), from, lo, items)
<1>1. PICK d, n, size : /\ Fitting(a, from, lo, d, n, size) /\ n = Len(items)
                        /\ Rebuilt(c, a, from, lo, d, items, size)
  BY DEF Rebuilds
<1> QED BY <1>1, RebuiltAround

\* Those that stay are where they were or have moved by d.
StayOrMove(c, a, from, lo, d) ==
  /\ \A i \in 0..(from - 1) : c.at[i] = a.at[i]
  /\ \A i \in lo..(a.len - 1) : c.at[i] = a.at[i] \/ (i + d \in Places /\ c.at[i + d] = a.at[i])

LEMMA RebuildsKeeps ==
  ASSUME NEW a \in Arrays, NEW from, NEW lo, NEW items, NEW c, Rebuilds(c, a, from, lo, items),
         NEW d \in Int, lo + d = from + Len(items)
  PROVE  StayOrMove(c, a, from, lo, d)
<1>1. PICK e, n, size : /\ Fitting(a, from, lo, e, n, size) /\ n = Len(items)
                        /\ Rebuilt(c, a, from, lo, e, items, size)
  BY DEF Rebuilds
<1>2. e = d /\ lo \in Nat /\ from \in Nat /\ lo + d >= 0 /\ size = a.len + d
      /\ size \in 0..(Modulus - 1)
  BY <1>1 DEF Fitting
<1>3. ASSUME NEW i \in lo..(a.len - 1) PROVE i + d \in Places
  <2>1. a.len \in Int
    BY DEF Arrays
  <2>2. i \in Int /\ lo <= i /\ i <= a.len - 1 /\ lo \in Int
    BY <1>2, <2>1
  <2>3. PICK j : j = i + d
    OBVIOUS
  <2>4. j \in Int /\ 0 <= j
    BY <1>2, <2>2, <2>3
  <2>5. j <= size - 1
    <3>1. PICK l \in Int : l = a.len
      BY <2>1
    <3>2. size = l + d /\ i <= l - 1
      BY <1>2, <2>2, <3>1
    <3> QED BY <2>2, <2>3, <3>2
  <2>6. j \in 0..(Modulus - 1)
    BY <1>2, <2>4, <2>5, PlacesHold
  <2> QED BY <2>3, <2>6, Unwrapped
<1>4. Rebuilt(c, a, from, lo, d, items, size)
  BY <1>1, <1>2
<1>5. \A i \in 0..(from - 1) : c.at[i] = a.at[i]
  BY <1>4 DEF Rebuilt
<1>6. \A i \in lo..(a.len - 1) : c.at[i] = a.at[i] \/ c.at[i + d] = a.at[i]
  BY <1>4 DEF Rebuilt
<1>7. ASSUME NEW i \in lo..(a.len - 1)
      PROVE  c.at[i] = a.at[i] \/ (i + d \in Places /\ c.at[i + d] = a.at[i])
  <2>1. i + d \in Places
    BY <1>3
  <2>2. c.at[i] = a.at[i] \/ c.at[i + d] = a.at[i]
    BY <1>6
  <2> QED BY <2>1, <2>2
<1> QED BY <1>5, <1>7, Zenon DEF StayOrMove

\* The call leaves the sequence t and answers v.
Answers(r, t, v) == ~Failed(r.array) /\ AsSeq(r.array) = t /\ r.value = v

LEMMA PopAnswers ==
  ASSUME NEW a \in Arrays, ~Failed(a), a.locked = {}, NEW s, s = AsSeq(a)
  PROVE  Answers(Pop(a), IF s = <<>> THEN s ELSE Front(s), IF s = <<>> THEN Undefined ELSE Or(Last(s)))
<1>1. PICK c, l, from : c = Pop(a).array /\ l = a.len /\ from = IF l = 0 THEN 0 ELSE l - 1
  OBVIOUS
<1>2. Rebuilds(c, a, from, l, <<>>)
  BY <1>1, PopRebuilds
<1>3. ~Failed(c) /\ AsSeq(c) = Around(s, from, l, <<>>)
  <2>1. <<>> \in Seq(Elements)
    BY EmptySeq
  <2> QED BY <1>2, <2>1, RebuildsAround
<1>4. s \in Seq(Slots) /\ Len(s) = l /\ l \in Nat /\ \A k \in 1..l : s[k] = a.at[k - 1]
  <2>1. l \in Nat
    BY <1>1 DEF Arrays
  <2> QED BY <1>1, <2>1, ArrayAsSeq
<1>5. Around(s, from, l, <<>>) = SubSeq(s, 1, from)
  <2>1. SubSeq(s, l + 1, l) = <<>>
    BY <1>4, SubSeqEmpty
  <2>2. SubSeq(s, 1, from) \in Seq(Slots)
    BY <1>1, <1>4
  <2> QED BY <1>4, <2>1, <2>2, ConcatEmptySeq DEF Around
<1>6. CASE l = 0
  <2>1. s = <<>> /\ from = 0
    BY <1>1, <1>4, <1>6
  <2>2. SubSeq(s, 1, from) = s
    BY <2>1, SubSeqEmpty
  <2>3. Pop(a).value = Undefined
    BY <1>1, <1>6 DEF Pop, Returning
  <2> QED BY <1>1, <1>3, <1>5, <2>1, <2>2, <2>3 DEF Answers
<1>7. CASE l # 0
  <2>1. s # <<>> /\ from = Len(s) - 1
    BY <1>1, <1>4, <1>7
  <2>2. Pop(a).value = Get(a, l - 1)
    BY <1>1, <1>7 DEF Pop, Returning
  <2>3. s[l] = a.at[l - 1]
    BY <1>4, <1>7
  <2>4. Pop(a).value = Or(Last(s))
    BY <1>4, <2>2, <2>3 DEF Get, Has, Or, Last
  <2> QED BY <1>1, <1>3, <1>5, <2>1, <2>4 DEF Answers, Front
<1> QED BY <1>6, <1>7

LEMMA PushAnswers ==
  ASSUME NEW a \in Arrays, ~Failed(a), a.locked = {}, NEW s, s = AsSeq(a),
         NEW items \in Seq(Elements), a.len + Len(items) < Modulus
  PROVE  Answers(Push(a, items), s \o items, Len(s) + Len(items))
<1>1. PICK c, l : c = Push(a, items).array /\ l = a.len
  OBVIOUS
<1>2. Rebuilds(c, a, l, l, items)
  BY <1>1, PushRebuilds
<1>3. ~Failed(c) /\ AsSeq(c) = Around(s, l, l, items)
  BY <1>2, RebuildsAround
<1>4. s \in Seq(Slots) /\ Len(s) = l /\ l \in Nat /\ items \in Seq(Slots)
  <2>1. l \in Nat /\ items \in Seq(Slots)
    BY <1>1 DEF Arrays, Slots
  <2> QED BY <1>1, <2>1, ArrayAsSeq
<1>5. Around(s, l, l, items) = s \o items
  <2>1. SubSeq(s, l + 1, l) = <<>>
    BY <1>4, SubSeqEmpty
  <2>2. SubSeq(s, 1, l) = s
    BY <1>4, SubSeqFull
  <2>3. s \o items \in Seq(Slots)
    BY <1>4
  <2> QED BY <1>4, <2>1, <2>2, <2>3, ConcatEmptySeq DEF Around
<1>6. Push(a, items).value = Len(s) + Len(items)
  BY <1>1, <1>4 DEF Push, Returning
<1> QED BY <1>1, <1>3, <1>5, <1>6 DEF Answers

LEMMA ShiftAnswers ==
  ASSUME NEW a \in Arrays, ~Failed(a), a.locked = {}, NEW s, s = AsSeq(a)
  PROVE  Answers(Shift(a), IF s = <<>> THEN s ELSE Tail(s), IF s = <<>> THEN Undefined ELSE Or(Head(s)))
<1>1. PICK c, l, lo : c = Shift(a).array /\ l = a.len /\ lo = IF l = 0 THEN 0 ELSE 1
  OBVIOUS
<1>2. Rebuilds(c, a, 0, lo, <<>>)
  BY <1>1, ShiftRebuilds
<1>3. ~Failed(c) /\ AsSeq(c) = Around(s, 0, lo, <<>>)
  <2>1. <<>> \in Seq(Elements)
    BY EmptySeq
  <2> QED BY <1>2, <2>1, RebuildsAround
<1>4. s \in Seq(Slots) /\ Len(s) = l /\ l \in Nat /\ \A k \in 1..l : s[k] = a.at[k - 1]
  <2>1. l \in Nat
    BY <1>1 DEF Arrays
  <2> QED BY <1>1, <2>1, ArrayAsSeq
<1>5. Around(s, 0, lo, <<>>) = SubSeq(s, lo + 1, l)
  <2>1. SubSeq(s, 1, 0) = <<>>
    BY SubSeqEmpty
  <2>2. SubSeq(s, lo + 1, l) \in Seq(Slots)
    <3>1. lo + 1 \in Int /\ \A i \in (lo + 1)..l : s[i] \in Slots
      BY <1>1, <1>4
    <3> QED BY <1>4, <3>1, SubSeqProperties
  <2>3. <<>> \o <<>> = <<>>
    BY EmptySeq, ConcatEmptySeq
  <2> QED BY <1>4, <2>1, <2>2, <2>3, ConcatEmptySeq DEF Around
<1>6. CASE l = 0
  <2>1. s = <<>> /\ lo = 0
    BY <1>1, <1>4, <1>6
  <2>2. SubSeq(s, lo + 1, l) = s
    BY <1>6, <2>1, SubSeqEmpty
  <2>3. Shift(a).value = Undefined
    BY <1>1, <1>6 DEF Shift, Returning
  <2> QED BY <1>1, <1>3, <1>5, <2>1, <2>2, <2>3 DEF Answers
<1>7. CASE l # 0
  <2>1. s # <<>> /\ lo = 1
    BY <1>1, <1>4, <1>7
  <2>2. Shift(a).value = Get(a, 0)
    BY <1>1, <1>7 DEF Shift, Returning
  <2>3. s[1] = a.at[0]
    <3>1. 1 \in 1..l /\ 1 - 1 = 0
      BY <1>4, <1>7
    <3> QED BY <1>4, <3>1
  <2>4. Shift(a).value = Or(Head(s))
    BY <1>4, <2>1, <2>2, <2>3 DEF Get, Has, Or
  <2>5. Tail(s) = SubSeq(s, lo + 1, l)
    <3>1. Tail(s) = SubSeq(s, 2, Len(s))
      BY <1>4, <2>1, TailIsSubSeq
    <3> QED BY <1>4, <2>1, <3>1
  <2> QED BY <1>1, <1>3, <1>5, <2>1, <2>4, <2>5 DEF Answers
<1> QED BY <1>6, <1>7

LEMMA UnshiftAnswers ==
  ASSUME NEW a \in Arrays, ~Failed(a), a.locked = {}, NEW s, s = AsSeq(a),
         NEW items \in Seq(Elements), a.len + Len(items) < Modulus
  PROVE  Answers(Unshift(a, items), items \o s, Len(s) + Len(items))
<1>1. PICK c, l : c = Unshift(a, items).array /\ l = a.len
  OBVIOUS
<1>2. Rebuilds(c, a, 0, 0, items)
  BY <1>1, UnshiftRebuilds
<1>3. ~Failed(c) /\ AsSeq(c) = Around(s, 0, 0, items)
  BY <1>2, RebuildsAround
<1>4. s \in Seq(Slots) /\ Len(s) = l /\ l \in Nat /\ items \in Seq(Slots)
  <2>1. l \in Nat /\ items \in Seq(Slots)
    BY <1>1 DEF Arrays, Slots
  <2> QED BY <1>1, <2>1, ArrayAsSeq
<1>5. Around(s, 0, 0, items) = items \o s
  <2>1. SubSeq(s, 1, 0) = <<>>
    BY SubSeqEmpty
  <2>2. SubSeq(s, 0 + 1, Len(s)) = s
    <3>1. 0 + 1 = 1
      OBVIOUS
    <3> QED BY <1>4, <3>1, SubSeqFull
  <2> QED BY <1>4, <2>1, <2>2, ConcatEmptySeq DEF Around
<1>6. Unshift(a, items).value = Len(s) + Len(items)
  <2>1. PICK size : size = l + Len(items)
    OBVIOUS
  <2>2. size \in 0..(Modulus - 1)
    BY <1>1, <1>4, <2>1, PlacesHold
  <2>3. UInt32(size) = size
    BY <2>2, Unwrapped
  <2> QED BY <1>1, <1>4, <2>1, <2>3 DEF Unshift, Returning
<1> QED BY <1>1, <1>3, <1>5, <1>6 DEF Answers

\* What is copied is a part of the sequence.
Part(s, from, final) == SubSeq(s, from + 1, final)
LEMMA CopiedIs ==
  ASSUME NEW a \in Arrays, NEW s, s = AsSeq(a), NEW from \in Nat, NEW final \in 0..a.len, NEW n,
         n = IF final > from THEN final - from ELSE 0
  PROVE  Copied(a, from, n) = Part(s, from, final)
<1>1. PICK l \in Nat : l = a.len
  BY DEF Arrays
<1>2. s \in Seq(Slots) /\ Len(s) = l /\ \A k \in 1..l : s[k] = a.at[k - 1]
  BY <1>1, ArrayAsSeq
<1>3. PICK t, x : t = SubSeq(s, from + 1, final) /\ x = from + 1
  OBVIOUS
<1>4. x \in Int /\ final \in Int /\ final <= l /\ n \in Nat /\ n = IF x <= final THEN final - x + 1 ELSE 0
  BY <1>1, <1>3
<1>5. \A i \in x..final : i \in 1..l /\ s[i] \in Slots
  <2>1. \A i \in x..final : i \in 1..l
    BY <1>3, <1>4
  <2> QED BY <1>2, <2>1
<1>6. /\ t \in Seq(Slots) /\ Len(t) = n
      /\ \A i \in 1..(final - x + 1) : t[i] = s[x + i - 1]
  BY <1>3, <1>4, <1>5, SubSeqProperties
<1>7. ASSUME NEW i \in 1..n PROVE t[i] = a.at[from + i - 1]
  <2>1. PICK k : k = x + i - 1
    OBVIOUS
  <2>2. i \in 1..(final - x + 1) /\ k \in x..final /\ k - 1 = from + i - 1
    BY <1>3, <1>4, <2>1
  <2>3. t[i] = s[k]
    BY <1>6, <2>1, <2>2
  <2>4. s[k] = a.at[k - 1]
    BY <1>2, <1>5, <2>2
  <2> QED BY <2>2, <2>3, <2>4
<1>8. t = [i \in 1..n |-> t[i]]
  BY <1>6
<1> QED BY <1>3, <1>7, <1>8 DEF Copied, Part

LEMMA SliceAnswers ==
  ASSUME NEW a \in Arrays, ~Failed(a), NEW s, s = AsSeq(a), NEW x \in Int, NEW y \in Int
  PROVE  Answers(Slice(a, x, y), s, SubSeq(s, Relative(a, x) + 1, Relative(a, y)))
<1>1. PICK k, final : k = Relative(a, x) /\ final = Relative(a, y)
  OBVIOUS
<1>2. k \in 0..a.len /\ final \in 0..a.len
  <2>1. a.len \in Nat
    BY DEF Arrays
  <2> QED BY <1>1, <2>1, RelativeIs
<1>3. PICK n : n = IF final > k THEN final - k ELSE 0
  OBVIOUS
<1>4. Copied(a, k, n) = Part(s, k, final)
  BY <1>2, <1>3, CopiedIs
<1>5. Slice(a, x, y) = Returning(a, Copied(a, k, n))
  BY <1>1, <1>3 DEF Slice
<1>6. Answers(Slice(a, x, y), s, Part(s, k, final))
  BY <1>4, <1>5 DEF Answers, Returning
<1> QED BY <1>1, <1>6 DEF Part

LEMMA SpliceAnswers ==
  ASSUME NEW a \in Arrays, ~Failed(a), a.locked = {}, NEW s, s = AsSeq(a),
         NEW items \in Seq(Elements), a.len + Len(items) < Modulus, NEW x \in Int, NEW y \in Int,
         NEW from, from = Relative(a, x), NEW count, count = Min({Max({y, 0}), Len(s) - from})
  PROVE  Answers(Splice(a, x, y, items),
                 SubSeq(s, 1, from) \o items \o SubSeq(s, from + count + 1, Len(s)),
                 SubSeq(s, from + 1, from + count))
<1>1. PICK c, l, lo : c = Splice(a, x, y, items).array /\ l = a.len /\ lo = from + count
  OBVIOUS
<1>2. s \in Seq(Slots) /\ Len(s) = l /\ l \in Nat
  <2>1. l \in Nat
    BY <1>1 DEF Arrays
  <2> QED BY <1>1, <2>1, ArrayAsSeq
<1>3. from \in 0..l /\ count \in 0..(l - from) /\ Rebuilds(c, a, from, lo, items)
  <2>1. RoomFor(a, items) /\ Cut(a, x, y, from, count)
    BY <1>1, <1>2 DEF RoomFor, Cut
  <2>2. Replaces(c, a, from, count, items)
    BY <1>1, <2>1, SpliceRebuilds
  <2> QED BY <1>1, <2>2 DEF Replaces
<1>4. ~Failed(c) /\ AsSeq(c) = Around(s, from, lo, items)
  BY <1>3, RebuildsAround
<1>5. Splice(a, x, y, items).value = Copied(a, from, count)
  BY <1>1, <1>2 DEF Splice, Returning
<1>6. Copied(a, from, count) = Part(s, from, lo)
  <2>1. lo \in 0..a.len /\ from \in Nat /\ count = IF lo > from THEN lo - from ELSE 0
    <3>1. from \in Nat /\ count \in Nat /\ from + count <= l
      BY <1>2, <1>3
    <3>2. lo \in Nat /\ lo <= l /\ lo - from = count /\ (lo > from <=> count > 0)
      BY <1>1, <3>1
    <3>3. lo \in 0..a.len
      BY <1>1, <1>2, <3>2
    <3>4. count = IF lo > from THEN lo - from ELSE 0
      BY <3>1, <3>2
    <3> QED BY <3>1, <3>3, <3>4
  <2> QED BY <2>1, CopiedIs
<1> QED BY <1>1, <1>4, <1>5, <1>6 DEF Answers, Around, Part

LEMMA ReverseAnswers ==
  ASSUME NEW a \in Arrays, ~Failed(a), a.locked = {}, NEW s, s = AsSeq(a)
  PROVE  Answers(ReverseOf(a), Reverse(s), Undefined)
<1>1. PICK l \in Nat : l = a.len
  BY DEF Arrays
<1>2. s \in Seq(Slots) /\ Len(s) = l /\ \A k \in 1..l : s[k] = a.at[k - 1]
  BY <1>1, ArrayAsSeq
<1>3. a \in Open(l)
  BY <1>1 DEF Open
<1>4. PICK u, c, h : u = Upwards(0, (l \div 2) - 1) /\ c = ExchangeAll(a, u) /\ h = l \div 2
  OBVIOUS
<1>5. Reversed(c, a, l, h)
  BY <1>3, <1>4, ExchangesHold
<1>6. c \in Open(l) /\ h \in Nat /\ 2 * h <= l /\ l <= 2 * h + 1
  <2>1. h \in Nat /\ 2 * h <= l /\ l <= 2 * h + 1
    BY <1>4
  <2> QED BY <1>5, <2>1 DEF Reversed
<1>7. c.len = l /\ ~Failed(c)
  BY <1>6 DEF Open
<1>8. ASSUME NEW k \in 1..l PROVE c.at[k - 1] = s[(l - k) + 1]
  <2>1. PICK j, i : j = k - 1 /\ i = (l - k) + 1
    OBVIOUS
  <2>2. j \in 0..(l - 1) /\ i \in 1..l /\ l - 1 - j = i - 1
    BY <2>1
  <2>3. c.at[j] = IF j < h \/ j >= l - h THEN a.at[l - 1 - j] ELSE a.at[j]
    BY <1>5, <2>2 DEF Reversed
  <2>4. j < h \/ j >= l - h \/ l - 1 - j = j
    BY <1>6, <2>2
  <2>5. c.at[j] = a.at[i - 1]
    BY <2>2, <2>3, <2>4
  <2>6. s[i] = a.at[i - 1]
    BY <1>2, <2>2
  <2> QED BY <2>1, <2>5, <2>6
<1>9. AsSeq(c) = Reverse(s)
  BY <1>2, <1>7, <1>8 DEF AsSeq, Reverse
<1>10. ReverseOf(a) = Returning(c, Undefined)
  BY <1>1, <1>4 DEF ReverseOf
<1> QED BY <1>7, <1>9, <1>10 DEF Answers, Returning

-----------------------------------------------------------------------------
(* concat                                                                  *)

\* A part as a sequence.
Spelled(part) == IF part.isArray THEN part.items ELSE <<part.item>>

Flat(f, w, n) ==
  /\ n > 0 => f[1] = w[1] /\ FlattenSeq(w) = f[n]
  /\ n = 0 => FlattenSeq(w) = w
  /\ \A k \in 2..n : f[k] = f[k - 1] \o w[k]
LEMMA FlattenIs ==
  ASSUME NEW S, NEW w \in Seq(Seq(S)), NEW n, n = Len(w)
  PROVE  \E f : Flat(f, w, n)
<1>1. n \in Nat /\ \A k \in 1..n : w[k] \in Seq(S)
  OBVIOUS
<1> DEFINE Step(f, k) == IF k = 1 THEN w[k] ELSE f[k - 1] \o w[k]
           Whole(f) == f = [k \in 1..n |-> Step(f, k)]
<1>2. PICK G : G = [x \in Seq(S) \X (1..n) |-> x[1] \o w[x[2]]]
  OBVIOUS
<1>3. \A b \in Seq(S), k \in 1..n : G[<<b, k>>] = b \o w[k]
  BY <1>2
<1>4. PICK f \in [0..n -> Seq(S)] : f[0] = <<>> /\ \A k \in 1..n : f[k] = G[<<f[k - 1], k>>]
  <2>1. StaysIn(Seq(S), n, G)
    <3> SUFFICES ASSUME NEW b \in Seq(S), NEW k \in 1..n PROVE G[<<b, k>>] \in Seq(S)
      BY DEF StaysIn
    <3>1. PICK x \in Seq(S) : x = w[k]
      BY <1>1
    <3>2. G[<<b, k>>] = b \o x
      BY <1>3, <3>1
    <3> QED BY <3>2, ConcatProperties
  <2>2. <<>> \in Seq(S)
    BY EmptySeq
  <2>3. \E f \in [0..n -> Seq(S)] : Follows(f, <<>>, n, G)
    BY <1>1, <2>1, <2>2, Recursion
  <2> QED BY <2>3 DEF Follows
<1>5. PICK h : h = [k \in 1..n |-> f[k]]
  OBVIOUS
<1>6. Whole(h)
  <2>1. ASSUME NEW k \in 1..n PROVE f[k] = Step(h, k)
    <3>1. k - 1 \in 0..n
      BY <1>1
    <3>2. f[k - 1] \in Seq(S) /\ w[k] \in Seq(S)
      BY <1>1, <1>4, <3>1
    <3>3. f[k] = f[k - 1] \o w[k]
      BY <1>3, <1>4, <3>2
    <3>4. CASE k = 1
      <4>1. f[k - 1] = <<>>
        BY <1>4, <3>4
      <4>2. <<>> \o w[k] = w[k]
        BY <3>2, ConcatEmptySeq
      <4> QED BY <3>3, <3>4, <4>1, <4>2
    <3>5. CASE k # 1
      <4>1. k - 1 \in 1..n
        BY <1>1, <3>5
      <4>2. h[k - 1] = f[k - 1]
        BY <1>5, <4>1
      <4> QED BY <3>3, <3>5, <4>2
    <3> QED BY <3>4, <3>5
  <2> HIDE DEF Step
  <2> QED BY <1>5, <2>1
<1>7. PICK g : g = CHOOSE f1 : Whole(f1)
  OBVIOUS
<1>8. Whole(g)
  <2> HIDE DEF Whole
  <2> QED BY <1>6, <1>7
<1>9. FlattenSeq(w) = IF n = 0 THEN w ELSE g[n]
  BY <1>7 DEF FlattenSeq
<1>10. ASSUME NEW k \in 1..n PROVE g[k] = Step(g, k)
  <2> HIDE DEF Step
  <2> QED BY <1>8
<1>11. n > 0 => g[1] = w[1] /\ FlattenSeq(w) = g[n]
  BY <1>1, <1>9, <1>10
<1>12. ASSUME NEW k \in 2..n PROVE g[k] = g[k - 1] \o w[k]
  <2>1. k \in 1..n /\ k # 1
    OBVIOUS
  <2>2. g[k] = Step(g, k)
    <3> HIDE DEF Step
    <3> QED BY <1>10, <2>1
  <2> QED BY <2>1, <2>2
<1>13. Flat(g, w, n)
  BY <1>9, <1>11, <1>12 DEF Flat
<1> QED BY <1>13

Joining(g, a, n, items) ==
  /\ g[0] = Copied(a, 0, a.len)
  /\ \A k \in 1..n : g[k] = IF items[k].isArray THEN g[k - 1] \o items[k].items
                            ELSE Append(g[k - 1], items[k].item)
  /\ Concat(a, items) = Returning(a, g[n])
LEMMA JoiningIs ==
  ASSUME NEW a, Copied(a, 0, a.len) \in Seq(Slots), NEW items \in Seq(Parts), NEW n, n = Len(items)
  PROVE  \E g : Joining(g, a, n, items)
<1>1. n \in Nat /\ \A k \in 1..n : items[k] \in Parts
  OBVIOUS
<1> DEFINE Extended(b, k) == IF items[k].isArray THEN b \o items[k].items ELSE Append(b, items[k].item)
           Step(f, k) == Extended(f[k - 1], k)
           Whole(f) == f = [k \in 0..n |-> IF k = 0 THEN Copied(a, 0, a.len) ELSE Step(f, k)]
<1>2. PICK G : G = [x \in Seq(Slots) \X (1..n) |-> Extended(x[1], x[2])]
  OBVIOUS
<1>3. ASSUME NEW b \in Seq(Slots), NEW k \in 1..n
      PROVE  G[<<b, k>>] = Extended(b, k) /\ Extended(b, k) \in Seq(Slots)
  <2>1. items[k] \in Parts
    BY <1>1
  <2>2. G[<<b, k>>] = Extended(b, k)
    BY <1>2
  <2>3. CASE items[k].isArray
    <3>1. items[k].items \in Seq(Slots)
      BY <2>1, <2>3 DEF Parts, Slots
    <3> QED BY <2>2, <2>3, <3>1, ConcatProperties
  <2>4. CASE ~items[k].isArray
    <3>1. items[k].item \in Slots
      BY <2>1, <2>4 DEF Parts, Slots
    <3> QED BY <2>2, <2>4, <3>1, AppendProperties
  <2> QED BY <2>3, <2>4
<1>4. PICK f \in [0..n -> Seq(Slots)] :
        f[0] = Copied(a, 0, a.len) /\ \A k \in 1..n : f[k] = G[<<f[k - 1], k>>]
  <2>1. StaysIn(Seq(Slots), n, G)
    <3> HIDE DEF Extended
    <3> QED BY <1>3 DEF StaysIn
  <2>2. PICK c \in Seq(Slots) : c = Copied(a, 0, a.len)
    OBVIOUS
  <2>3. \E f \in [0..n -> Seq(Slots)] : Follows(f, c, n, G)
    BY <1>1, <2>1, Recursion
  <2> QED BY <2>2, <2>3 DEF Follows
<1>5. Whole(f)
  <2>1. ASSUME NEW k \in 1..n PROVE f[k] = Step(f, k)
    <3>1. k - 1 \in 0..n
      BY <1>1
    <3>2. f[k - 1] \in Seq(Slots)
      BY <1>4, <3>1
    <3>3. f[k] = G[<<f[k - 1], k>>]
      BY <1>4
    <3> HIDE DEF Extended
    <3> QED BY <1>3, <3>2, <3>3
  <2>2. \A k \in 0..n : k = 0 \/ k \in 1..n
    BY <1>1
  <2>3. f = [k \in 0..n |-> f[k]]
    BY <1>4
  <2> HIDE DEF Step
  <2> QED BY <1>4, <2>1, <2>2, <2>3
<1>6. PICK g : g = CHOOSE f1 : Whole(f1)
  OBVIOUS
<1>7. Whole(g)
  <2> HIDE DEF Whole
  <2> QED BY <1>5, <1>6
<1>8. Concat(a, items) = Returning(a, g[n])
  BY <1>6 DEF Concat
<1>9. g[0] = Copied(a, 0, a.len)
  BY <1>1, <1>7
<1>10. ASSUME NEW k \in 1..n PROVE g[k] = Step(g, k)
  <2>1. k \in 0..n /\ k # 0
    BY <1>1
  <2> HIDE DEF Step
  <2> QED BY <1>7, <2>1
<1> QED BY <1>8, <1>9, <1>10 DEF Joining

LEMMA ConcatAnswers ==
  ASSUME NEW a \in Arrays, ~Failed(a), NEW s, s = AsSeq(a), NEW items \in Seq(Parts), NEW w,
         w = [k \in DOMAIN items |-> IF items[k].isArray THEN items[k].items ELSE <<items[k].item>>]
  PROVE  Answers(Concat(a, items), s, s \o FlattenSeq(w))
<1>1. PICK n \in Nat : n = Len(items)
  OBVIOUS
<1>2. s \in Seq(Slots) /\ Copied(a, 0, a.len) = s
  <2>1. PICK l \in Nat : l = a.len
    BY DEF Arrays
  <2>2. s \in Seq(Slots) /\ Len(s) = l
    BY <2>1, ArrayAsSeq
  <2>3. Copied(a, 0, l) = s
    BY <2>1 DEF Copied, AsSeq
  <2> QED BY <2>1, <2>2, <2>3
<1>3. w \in Seq(Seq(Slots)) /\ Len(w) = n /\ \A k \in 1..n : w[k] \in Seq(Slots)
  <2>1. ASSUME NEW k \in 1..n PROVE Spelled(items[k]) \in Seq(Slots)
    <3>1. items[k] \in Parts
      BY <1>1
    <3>2. CASE items[k].isArray
      BY <3>1, <3>2 DEF Parts, Slots, Spelled
    <3>3. CASE ~items[k].isArray
      <4>1. items[k].item \in Slots
        BY <3>1, <3>3 DEF Parts, Slots
      <4> QED BY <3>3, <4>1 DEF Spelled
    <3> QED BY <3>2, <3>3
  <2>2. w = [k \in 1..n |-> Spelled(items[k])]
    BY <1>1 DEF Spelled
  <2>3. w \in [1..n -> Seq(Slots)]
    BY <2>1, <2>2
  <2> QED BY <1>1, <2>3
<1>4. \A k \in 1..n : /\ items[k] \in Parts
                      /\ items[k].isArray => w[k] = items[k].items
                      /\ ~items[k].isArray => w[k] = <<items[k].item>>
  BY <1>1
<1>5. PICK j : Joining(j, a, n, items)
  BY <1>1, <1>2, JoiningIs
<1>6. PICK f : Flat(f, w, n)
  BY <1>3, FlattenIs
<1> DEFINE T == {k \in 0..n : /\ k = 0 => j[k] = s
                              /\ k > 0 => f[k] \in Seq(Slots) /\ j[k] = s \o f[k]}
<1>7. 0 \in T
  BY <1>1, <1>2, <1>5 DEF Joining
<1>8. ASSUME NEW k \in 1..n, k - 1 \in T PROVE k \in T
  <2>1. PICK b : b = j[k - 1]
    OBVIOUS
  <2>2. b \in Seq(Slots)
    <3>1. CASE k - 1 = 0
      BY <1>2, <1>8, <2>1, <3>1
    <3>2. CASE k - 1 > 0
      <4>1. f[k - 1] \in Seq(Slots) /\ j[k - 1] = s \o f[k - 1]
        BY <1>8, <3>2
      <4> QED BY <1>2, <2>1, <4>1, ConcatProperties
    <3> QED BY <1>1, <1>8, <3>1, <3>2
  <2>3. j[k] = b \o w[k]
    <3>1. CASE items[k].isArray
      BY <1>4, <1>5, <2>1, <3>1 DEF Joining
    <3>2. CASE ~items[k].isArray
      <4>1. PICK x \in Slots : x = items[k].item
        BY <1>4, <3>2 DEF Parts, Slots
      <4>2. j[k] = Append(b, x)
        BY <1>5, <2>1, <3>2, <4>1 DEF Joining
      <4>3. Append(b, x) = b \o <<x>>
        BY <2>2, <4>1, AppendIsConcat
      <4> QED BY <1>4, <3>2, <4>1, <4>2, <4>3
    <3> QED BY <3>1, <3>2
  <2>4. CASE k = 1
    <3>1. b = s /\ f[1] = w[1]
      BY <1>1, <1>6, <1>8, <2>1, <2>4 DEF Flat
    <3>2. f[k] \in Seq(Slots) /\ j[k] = s \o f[k]
      BY <1>3, <2>3, <2>4, <3>1
    <3> QED BY <1>1, <2>4, <3>2
  <2>5. CASE k # 1
    <3>1. k \in 2..n /\ k - 1 > 0
      BY <1>1, <2>5
    <3>2. PICK u \in Seq(Slots) : u = f[k - 1] /\ b = s \o u
      BY <1>8, <2>1, <3>1
    <3>3. f[k] = u \o w[k]
      BY <1>6, <3>1, <3>2 DEF Flat
    <3>4. PICK v \in Seq(Slots) : v = w[k]
      BY <1>3
    <3>5. (s \o u) \o v = s \o (u \o v)
      BY <1>2, ConcatAssociative
    <3>6. f[k] \in Seq(Slots)
      BY <3>3, <3>4, ConcatProperties
    <3>7. j[k] = s \o f[k]
      BY <2>3, <3>2, <3>3, <3>4, <3>5
    <3> QED BY <1>1, <3>1, <3>6, <3>7
  <2> QED BY <2>4, <2>5
<1>9. n \in T
  <2>1. n \in 0..n
    BY <1>1
  <2> HIDE DEF T
  <2> QED BY <1>1, <1>7, <1>8, <2>1, Reaches
<1>10. j[n] = s \o FlattenSeq(w)
  <2>1. CASE n = 0
    <3>1. FlattenSeq(w) = w /\ w = <<>>
      BY <1>3, <1>6, <2>1 DEF Flat
    <3> QED BY <1>2, <1>9, <2>1, <3>1, ConcatEmptySeq
  <2>2. CASE n > 0
    BY <1>6, <1>9, <2>2 DEF Flat
  <2> QED BY <1>1, <2>1, <2>2
<1>11. Concat(a, items) = Returning(a, j[n])
  BY <1>5 DEF Joining
<1> QED BY <1>10, <1>11 DEF Answers, Returning

-----------------------------------------------------------------------------
(* The calls                                                               *)

Arguments ==
  /\ call.fn \in {"push", "unshift", "splice", "concat"} => "items" \in DOMAIN call
  /\ call.fn \in {"push", "unshift", "splice"} => call.items \in Seq(Elements)
  /\ call.fn \in {"slice", "splice"} => call.from \in Int /\ call.to \in Int
  /\ call.fn = "concat" => call.items \in Seq(Parts)

Called == start \in Arrays /\ ~Failed(start) /\ Arguments

\* r is what ES5 says.
Expected(r) ==
  start.locked = {} /\ Fits => Answers(r, AfterCall(AsSeq(start))[1], AfterCall(AsSeq(start))[2])

LEMMA GivenItems ==
  ASSUME Called, call.fn \in {"push", "unshift", "splice", "concat"}
  PROVE  Given = call.items
BY DEF Called, Arguments, Given

LEMMA MovesExpected ==
  ASSUME Called
  PROVE  /\ call.fn = "pop" => Expected(Pop(start))
         /\ call.fn = "push" => Expected(Push(start, call.items))
         /\ call.fn = "reverse" => Expected(ReverseOf(start))
         /\ call.fn = "shift" => Expected(Shift(start))
         /\ call.fn = "unshift" => Expected(Unshift(start, call.items))
<1>1. PICK s : s = AsSeq(start)
  OBVIOUS
<1>2. start \in Arrays /\ ~Failed(start)
  BY DEF Called
<1>3. ASSUME call.fn = "pop", start.locked = {}
      PROVE  Answers(Pop(start), AfterCall(s)[1], AfterCall(s)[2])
  <2>1. Answers(Pop(start), IF s = <<>> THEN s ELSE Front(s), IF s = <<>> THEN Undefined ELSE Or(Last(s)))
    BY <1>1, <1>2, <1>3, PopAnswers
  <2>2. AfterCall(s) = IF s = <<>> THEN <<s, Undefined>> ELSE <<Front(s), Or(Last(s))>>
    BY <1>3 DEF AfterCall
  <2> QED BY <2>1, <2>2
<1>4. ASSUME call.fn = "shift", start.locked = {}
      PROVE  Answers(Shift(start), AfterCall(s)[1], AfterCall(s)[2])
  <2>1. Answers(Shift(start), IF s = <<>> THEN s ELSE Tail(s), IF s = <<>> THEN Undefined ELSE Or(Head(s)))
    BY <1>1, <1>2, <1>4, ShiftAnswers
  <2>2. AfterCall(s) = IF s = <<>> THEN <<s, Undefined>> ELSE <<Tail(s), Or(Head(s))>>
    BY <1>4 DEF AfterCall
  <2> QED BY <2>1, <2>2
<1>5. ASSUME call.fn = "push", start.locked = {}, Fits
      PROVE  Answers(Push(start, call.items), AfterCall(s)[1], AfterCall(s)[2])
  <2>1. Given = call.items /\ call.items \in Seq(Elements) /\ start.len + Len(call.items) < Modulus
    BY <1>5, GivenItems DEF Called, Arguments, Fits
  <2>2. Answers(Push(start, call.items), s \o call.items, Len(s) + Len(call.items))
    BY <1>1, <1>2, <1>5, <2>1, PushAnswers
  <2>3. AfterCall(s) = <<s \o call.items, Len(s) + Len(call.items)>>
    BY <1>5, <2>1 DEF AfterCall
  <2> QED BY <2>2, <2>3
<1>6. ASSUME call.fn = "unshift", start.locked = {}, Fits
      PROVE  Answers(Unshift(start, call.items), AfterCall(s)[1], AfterCall(s)[2])
  <2>1. Given = call.items /\ call.items \in Seq(Elements) /\ start.len + Len(call.items) < Modulus
    BY <1>6, GivenItems DEF Called, Arguments, Fits
  <2>2. Answers(Unshift(start, call.items), call.items \o s, Len(s) + Len(call.items))
    BY <1>1, <1>2, <1>6, <2>1, UnshiftAnswers
  <2>3. AfterCall(s) = <<call.items \o s, Len(s) + Len(call.items)>>
    BY <1>6, <2>1 DEF AfterCall
  <2> QED BY <2>2, <2>3
<1>7. ASSUME call.fn = "reverse", start.locked = {}
      PROVE  Answers(ReverseOf(start), AfterCall(s)[1], AfterCall(s)[2])
  <2>1. Answers(ReverseOf(start), Reverse(s), Undefined)
    BY <1>1, <1>2, <1>7, ReverseAnswers
  <2>2. AfterCall(s) = <<Reverse(s), Undefined>>
    BY <1>7 DEF AfterCall
  <2> QED BY <2>1, <2>2
<1> QED BY <1>1, <1>3, <1>4, <1>5, <1>6, <1>7 DEF Expected

LEMMA PartsExpected ==
  ASSUME Called
  PROVE  /\ call.fn = "slice" => Expected(Slice(start, call.from, call.to))
         /\ call.fn = "splice" => Expected(Splice(start, call.from, call.to, call.items))
         /\ call.fn = "concat" => Expected(Concat(start, call.items))
<1>1. PICK s : s = AsSeq(start)
  OBVIOUS
<1>2. start \in Arrays /\ ~Failed(start)
  BY DEF Called
<1>3. \A x : Ordinal(x) = Relative(start, x)
  BY DEF Ordinal, Relative
<1>4. ASSUME call.fn = "slice"
      PROVE  Answers(Slice(start, call.from, call.to), AfterCall(s)[1], AfterCall(s)[2])
  <2>1. PICK x, y \in Int : x = call.from /\ y = call.to
    BY <1>4 DEF Called, Arguments
  <2>2. Answers(Slice(start, x, y), s, SubSeq(s, Relative(start, x) + 1, Relative(start, y)))
    BY <1>1, <1>2, SliceAnswers
  <2>3. AfterCall(s) = <<s, SubSeq(s, Relative(start, x) + 1, Relative(start, y))>>
    BY <1>3, <1>4, <2>1 DEF AfterCall
  <2> QED BY <2>1, <2>2, <2>3
<1>5. ASSUME call.fn = "splice", start.locked = {}, Fits
      PROVE  Answers(Splice(start, call.from, call.to, call.items), AfterCall(s)[1], AfterCall(s)[2])
  <2>1. PICK x, y \in Int : x = call.from /\ y = call.to
    BY <1>5 DEF Called, Arguments
  <2>2. Given = call.items /\ call.items \in Seq(Elements) /\ start.len + Len(call.items) < Modulus
    BY <1>5, GivenItems DEF Called, Arguments, Fits
  <2>3. PICK from, count : from = Relative(start, x) /\ count = Min({Max({y, 0}), Len(s) - from})
    OBVIOUS
  <2>4. Answers(Splice(start, x, y, call.items),
                SubSeq(s, 1, from) \o call.items \o SubSeq(s, from + count + 1, Len(s)),
                SubSeq(s, from + 1, from + count))
    BY <1>1, <1>2, <1>5, <2>2, <2>3, SpliceAnswers
  <2>5. AfterCall(s) = <<SubSeq(s, 1, from) \o call.items \o SubSeq(s, from + count + 1, Len(s)),
                         SubSeq(s, from + 1, from + count)>>
    BY <1>3, <1>5, <2>1, <2>2, <2>3 DEF AfterCall
  <2> QED BY <2>1, <2>4, <2>5
<1>6. ASSUME call.fn = "concat"
      PROVE  Answers(Concat(start, call.items), AfterCall(s)[1], AfterCall(s)[2])
  <2>1. PICK items \in Seq(Parts) : items = call.items /\ Given = items
    BY <1>6, GivenItems DEF Called, Arguments
  <2>2. PICK w : w = [k \in DOMAIN items |-> IF items[k].isArray THEN items[k].items ELSE <<items[k].item>>]
    OBVIOUS
  <2>3. Answers(Concat(start, items), s, s \o FlattenSeq(w))
    BY <1>1, <1>2, <2>2, ConcatAnswers
  <2>4. AfterCall(s) = <<s, s \o FlattenSeq(w)>>
    BY <1>6, <2>1, <2>2 DEF AfterCall
  <2> QED BY <2>1, <2>3, <2>4
<1> QED BY <1>1, <1>4, <1>5, <1>6 DEF Expected

\* The elements of kept are where they were or have moved by d.
Survives(c, kept, d) ==
  \A i \in kept : Has(start, i) => \/ c.at[i] = start.at[i]
                                   \/ i + d \in Places /\ c.at[i + d] = start.at[i]

LEMMA MovesLoseNothing ==
  ASSUME Called, Fits
  PROVE  /\ call.fn = "pop" => Survives(Pop(start).array, 0..(start.len - 2), 0)
         /\ call.fn = "push" => Survives(Push(start, call.items).array, 0..(start.len - 1), 0)
         /\ call.fn = "shift" => Survives(Shift(start).array, 1..(start.len - 1), -1)
         /\ call.fn = "unshift" =>
              Survives(Unshift(start, call.items).array, 0..(start.len - 1), Len(Given))
<1>1. PICK l \in Nat : l = start.len
  BY DEF Called, Arrays
<1>2. start \in Arrays /\ ~Failed(start)
  BY DEF Called
<1>3. Len(<<>>) = 0
  OBVIOUS
<1>4. ASSUME call.fn = "pop" PROVE Survives(Pop(start).array, 0..(l - 2), 0)
  <2>1. PICK c, from : c = Pop(start).array /\ from = IF l = 0 THEN 0 ELSE l - 1
    OBVIOUS
  <2>2. Rebuilds(c, start, from, l, <<>>)
    BY <1>1, <1>2, <2>1, PopRebuilds
  <2>3. PICK d \in Int : l + d = from + Len(<<>>)
    <3>1. from - l \in Int /\ l + (from - l) = from + 0
      BY <2>1
    <3> QED BY <1>3, <3>1
  <2>4. StayOrMove(c, start, from, l, d)
    BY <1>2, <2>2, <2>3, RebuildsKeeps
  <2>5. \A i \in 0..(l - 2) : i \in 0..(from - 1)
    BY <2>1
  <2> QED BY <2>1, <2>4, <2>5 DEF StayOrMove, Survives
<1>5. ASSUME call.fn = "push" PROVE Survives(Push(start, call.items).array, 0..(l - 1), 0)
  <2>1. PICK c : c = Push(start, call.items).array
    OBVIOUS
  <2>2. call.items \in Seq(Elements) /\ l + Len(call.items) < Modulus
    BY <1>1, <1>5, GivenItems DEF Called, Arguments, Fits
  <2>3. Rebuilds(c, start, l, l, call.items)
    BY <1>1, <1>2, <2>1, <2>2, PushRebuilds
  <2>4. PICK d \in Int : d = Len(call.items)
    BY <2>2
  <2>5. StayOrMove(c, start, l, l, d)
    BY <1>2, <2>3, <2>4, RebuildsKeeps
  <2> QED BY <2>1, <2>5 DEF StayOrMove, Survives
<1>6. ASSUME call.fn = "shift" PROVE Survives(Shift(start).array, 1..(l - 1), -1)
  <2>1. PICK c, lo : c = Shift(start).array /\ lo = IF start.len = 0 THEN 0 ELSE 1
    OBVIOUS
  <2>2. Rebuilds(c, start, 0, lo, <<>>)
    BY <1>2, <2>1, ShiftRebuilds
  <2>3. PICK d \in Int : d = -lo /\ lo + d = 0 + Len(<<>>)
    BY <1>3, <2>1
  <2>4. StayOrMove(c, start, 0, lo, d)
    BY <1>2, <2>2, <2>3, RebuildsKeeps
  <2>5. CASE l = 0
    <3>1. 1..(l - 1) = {}
      BY <2>5
    <3> QED BY <3>1 DEF Survives
  <2>6. CASE l # 0
    <3>1. lo = 1 /\ d = -1
      BY <1>1, <2>1, <2>3, <2>6
    <3> QED BY <1>1, <2>1, <2>4, <3>1 DEF StayOrMove, Survives
  <2> QED BY <2>5, <2>6
<1>7. ASSUME call.fn = "unshift"
      PROVE  Survives(Unshift(start, call.items).array, 0..(l - 1), Len(Given))
  <2>1. PICK c : c = Unshift(start, call.items).array
    OBVIOUS
  <2>2. Given = call.items /\ call.items \in Seq(Elements) /\ l + Len(call.items) < Modulus
    BY <1>1, <1>7, GivenItems DEF Called, Arguments, Fits
  <2>3. Rebuilds(c, start, 0, 0, call.items)
    BY <1>1, <1>2, <2>1, <2>2, UnshiftRebuilds
  <2>4. PICK d \in Int : d = Len(call.items)
    BY <2>2
  <2>5. StayOrMove(c, start, 0, 0, d)
    BY <1>2, <2>3, <2>4, RebuildsKeeps
  <2> QED BY <1>1, <2>1, <2>2, <2>4, <2>5 DEF StayOrMove, Survives
<1> QED BY <1>1, <1>4, <1>5, <1>6, <1>7

LEMMA SpliceLosesNothing ==
  ASSUME Called, Fits, call.fn = "splice", NEW from, from = Ordinal(call.from),
         NEW count, count = Min({Max({call.to, 0}), start.len - from}),
         NEW c, c = Splice(start, call.from, call.to, call.items).array
  PROVE  Survives(c, (0..(from - 1)) \cup ((from + count)..(start.len - 1)), Len(Given) - count)
<1>1. PICK x, y \in Int : x = call.from /\ y = call.to
  BY DEF Called, Arguments
<1>2. PICK l, items : l = start.len /\ items = call.items
  OBVIOUS
<1>3. items = Given /\ items \in Seq(Elements) /\ l + Len(items) < Modulus
  BY <1>2, GivenItems DEF Called, Arguments, Fits
<1>4. start \in Arrays /\ ~Failed(start) /\ l \in Nat
  BY <1>2 DEF Called, Arrays
<1>5. from = Relative(start, x) /\ count = Min({Max({y, 0}), l - from})
  BY <1>1, <1>2 DEF Ordinal, Relative
<1>6. PICK lo : lo = from + count
  OBVIOUS
<1>7. from \in 0..l /\ count \in 0..(l - from) /\ Rebuilds(c, start, from, lo, items)
  <2>1. c = Splice(start, x, y, items).array
    BY <1>1, <1>2
  <2>2. RoomFor(start, items) /\ Cut(start, x, y, from, count)
    BY <1>2, <1>3, <1>5 DEF RoomFor, Cut
  <2>3. Replaces(c, start, from, count, items)
    BY <1>3, <1>4, <2>1, <2>2, SpliceRebuilds
  <2> QED BY <1>2, <1>6, <2>3 DEF Replaces
<1>8. PICK d \in Int : d = Len(items) - count
  BY <1>3, <1>4, <1>7
<1>9. lo + d = from + Len(items)
  BY <1>3, <1>4, <1>6, <1>7, <1>8
<1>10. StayOrMove(c, start, from, lo, d)
  BY <1>4, <1>7, <1>9, RebuildsKeeps
<1>11. Survives(c, (0..(from - 1)) \cup (lo..(start.len - 1)), d)
  BY <1>10 DEF StayOrMove, Survives
<1> QED BY <1>3, <1>6, <1>8, <1>11

DirectFns == {"pop", "push", "reverse", "shift", "unshift", "slice", "splice", "concat"}
DirectInv ==
  call.fn \in DirectFns =>
    /\ Called /\ stage \in {"call", "done"} /\ (stage = "call" => array = start)
    /\ SequenceOperations /\ FailureLosesNothing

\* The step of such a call.
Returned(r) == array' = r.array /\ result' = r.value
DirectStep ==
  \/ call.fn = "pop" /\ Returned(Pop(start))
  \/ call.fn = "push" /\ Returned(Push(start, call.items))
  \/ call.fn = "reverse" /\ Returned(ReverseOf(start))
  \/ call.fn = "shift" /\ Returned(Shift(start))
  \/ call.fn = "unshift" /\ Returned(Unshift(start, call.items))
  \/ call.fn = "slice" /\ Returned(Slice(start, call.from, call.to))
  \/ call.fn = "splice" /\ Returned(Splice(start, call.from, call.to, call.items))
  \/ call.fn = "concat" /\ Returned(Concat(start, call.items))

LEMMA StepReturns ==
  ASSUME DirectInv, call.fn \in DirectFns, BNext
  PROVE  DirectStep /\ call' = call /\ start' = start /\ stage' = "done"
<1>1. ~(Begin \/ Skip \/ FirstElement \/ Visit \/ End)
  BY DEF Begin, Skip, FirstElement, Visit, End, Looping, Iterating, DirectFns
<1>2. ~(SortBegin \/ SortRange \/ SortShift \/ SortPlace \/ SortPartition)
  BY DEF SortBegin, SortRange, SortShift, SortPlace, SortPartition, Sorting, Doing, DirectFns
<1>3. WithoutScript
  BY <1>1, <1>2 DEF BNext
<1>4. stage = "call" /\ array = start
  BY <1>3 DEF WithoutScript, Doing, DirectInv
<1>5. ASSUME NEW r, Return(r) PROVE Returned(r) /\ call' = call /\ start' = start /\ stage' = "done"
  BY <1>5 DEF Return, Returned
<1>6. ~Doing("indexOf") /\ ~Doing("lastIndexOf")
  BY DEF Doing, DirectFns
<1> QED BY <1>3, <1>4, <1>5, <1>6, Zenon DEF WithoutScript, Doing, DirectStep

LEMMA StepSequence ==
  ASSUME DirectInv, call.fn \in DirectFns, DirectStep, call' = call, start' = start
  PROVE  SequenceOperations'
<1> SUFFICES ASSUME start.locked = {}, Fits
             PROVE  /\ ~Failed(array') /\ AsSeq(array') = AfterCall(AsSeq(start))[1]
                    /\ result' = AfterCall(AsSeq(start))[2]
  <2>1. Given' = Given
    BY DEF Given
  <2>2. Fits' = Fits
    BY <2>1 DEF Fits
  <2>3. \A x : Ordinal(x)' = Ordinal(x)
    BY DEF Ordinal
  <2>4. ASSUME NEW s PROVE AfterCall(s)' = AfterCall(s)
    BY <2>1, <2>3 DEF AfterCall
  <2> QED BY <2>2, <2>4 DEF SequenceOperations
<1>1. Called
  BY DEF DirectInv
<1>2. ASSUME NEW r, Expected(r), Returned(r)
      PROVE  /\ ~Failed(array') /\ AsSeq(array') = AfterCall(AsSeq(start))[1]
             /\ result' = AfterCall(AsSeq(start))[2]
  BY <1>2 DEF Expected, Returned, Answers
<1>3. \E r : Expected(r) /\ Returned(r)
  BY <1>1, MovesExpected, PartsExpected DEF DirectStep
<1> QED BY <1>2, <1>3

LEMMA StepLosesNothing ==
  ASSUME DirectInv, call.fn \in DirectFns, DirectStep, call' = call, start' = start
  PROVE  FailureLosesNothing'
<1>1. Called
  BY DEF DirectInv
<1>2. Fits' = Fits /\ Given' = Given
  BY DEF Fits, Given
<1> SUFFICES ASSUME Fits, call.fn \in {"pop", "push", "shift", "unshift", "splice"} PROVE FailureLosesNothing'
  BY <1>2 DEF FailureLosesNothing, Ended
<1>3. CASE call.fn = "pop"
  <2>1. Survives(array', 0..(start.len - 2), 0)
    BY <1>1, <1>3, MovesLoseNothing DEF DirectStep, Returned
  <2> QED BY <1>3, <2>1 DEF FailureLosesNothing, Survives
<1>4. CASE call.fn = "push"
  <2>1. Survives(array', 0..(start.len - 1), 0)
    BY <1>1, <1>4, MovesLoseNothing DEF DirectStep, Returned
  <2> QED BY <1>4, <2>1 DEF FailureLosesNothing, Survives
<1>5. CASE call.fn = "shift"
  <2>1. Survives(array', 1..(start.len - 1), -1)
    BY <1>1, <1>5, MovesLoseNothing DEF DirectStep, Returned
  <2> QED BY <1>5, <2>1 DEF FailureLosesNothing, Survives
<1>6. CASE call.fn = "unshift"
  <2>1. Survives(array', 0..(start.len - 1), Len(Given))
    BY <1>1, <1>6, MovesLoseNothing DEF DirectStep, Returned
  <2> QED BY <1>2, <1>6, <2>1 DEF FailureLosesNothing, Survives
<1>7. CASE call.fn = "splice"
  <2>1. PICK from : from = Ordinal(call.from)
    OBVIOUS
  <2>2. PICK count : count = Min({Max({call.to, 0}), start.len - from})
    OBVIOUS
  <2>3. Survives(array', (0..(from - 1)) \cup ((from + count)..(start.len - 1)), Len(Given) - count)
    <3>1. array' = Splice(start, call.from, call.to, call.items).array
      BY <1>7 DEF DirectStep, Returned
    <3> QED BY <1>1, <1>7, <2>1, <2>2, <3>1, SpliceLosesNothing
  <2>4. Ordinal(call.from)' = from
    BY <2>1 DEF Ordinal
  <2> QED BY <1>2, <1>7, <2>2, <2>3, <2>4 DEF FailureLosesNothing, Survives
<1> QED BY <1>3, <1>4, <1>5, <1>6, <1>7

LEMMA StepDirect ==
  ASSUME DirectInv, [BNext]_bvars
  PROVE  DirectInv'
<1>1. call' = call
  <2>1. CASE Begin \/ Skip \/ FirstElement \/ Visit \/ End
    BY <2>1 DEF Begin, Skip, FirstElement, Visit, End, Return
  <2> QED BY <2>1, OtherCalls DEF BNext, bvars
<1> SUFFICES ASSUME call.fn \in DirectFns PROVE DirectInv'
  BY <1>1 DEF DirectInv
<1>2. CASE UNCHANGED bvars
  <2>1. /\ array' = array /\ start' = start /\ call' = call /\ result' = result /\ stage' = stage
    BY <1>2 DEF bvars
  <2>2. Called' = Called
    BY <2>1 DEF Called, Arguments
  <2>3. SequenceOperations' = SequenceOperations
    BY <2>1 DEF SequenceOperations, Ended, Fits, Given, AfterCall, Ordinal
  <2>4. FailureLosesNothing' = FailureLosesNothing
    BY <2>1 DEF FailureLosesNothing, Ended, Fits, Given, Ordinal
  <2> QED BY <2>1, <2>2, <2>3, <2>4 DEF DirectInv
<1>3. CASE BNext
  <2>1. DirectStep /\ call' = call /\ start' = start /\ stage' = "done"
    BY <1>3, StepReturns
  <2>2. SequenceOperations' /\ FailureLosesNothing'
    BY <2>1, StepSequence, StepLosesNothing
  <2>3. Called'
    BY <2>1 DEF DirectInv, Called, Arguments
  <2> QED BY <2>1, <2>2, <2>3 DEF DirectInv
<1> QED BY <1>2, <1>3

LEMMA DirectHolds == BSpec => []DirectInv
<1>1. BInit => DirectInv
  <2> SUFFICES ASSUME BInit PROVE DirectInv
    OBVIOUS
  <2>1. PICK s \in Starts : array = s.array /\ start = s.array /\ call = s.call
    BY DEF BInit
  <2>2. Called
    BY <2>1, StartsAssumption DEF Called, Arguments
  <2> QED BY <2>1, <2>2 DEF BInit, DirectInv, SequenceOperations, FailureLosesNothing, Ended
<1>2. DirectInv /\ [BNext]_bvars => DirectInv'
  BY StepDirect
<1> QED BY <1>1, <1>2, PTL DEF BSpec

\* pop, push, reverse, shift, unshift, slice, splice and concat leave the
\* sequence, and answer what, ES5 15.4.4 says, over holes and for arrays of any
\* length, when nothing is locked and the new length is one; indexOf and
\* lastIndexOf find what there is (runtime/array.cc).
THEOREM DirectCallsKeepToES5 == BSpec => []DirectCallsMatchES5
<1>1. DirectInv => SequenceOperations
  BY DEF DirectInv, DirectFns, SequenceOperations, Ended
<1>2. SequenceOperations /\ SearchesFindTheirs => DirectCallsMatchES5
  BY DEF DirectCallsMatchES5
<1> QED BY <1>1, <1>2, DirectHolds, SearchesFind, PTL

\* One of them that fails on the way, at an element that cannot be written or
\* taken away, has lost no element that it was not told to remove.
THEOREM FailuresLoseNothing == BSpec => []FailureLosesNothing
<1>1. DirectInv => FailureLosesNothing
  BY DEF DirectInv, DirectFns, FailureLosesNothing, Ended
<1> QED BY <1>1, DirectHolds, PTL

=============================================================================
