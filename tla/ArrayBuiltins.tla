---------------------------- MODULE ArrayBuiltins ----------------------------
(***************************************************************************)
(* One call of a function of Array.prototype (runtime/array.cc).  Those    *)
(* that call no script are one step.  Those that call a function for every *)
(* element take a step per element, in which the function may change the   *)
(* array; sort takes one per element moved and per exchange.               *)
(***************************************************************************)
EXTENDS ArrayCall

CONSTANTS
  Starts,          \* the calls, with fn and the arguments, and the array of each;
                   \* that of sort has compare, from pairs of elements to -1, 0 and 1
  InsertionLimit,  \* 20: up to so many elements are sorted by insertion
  StackSize,       \* kStackSize of sort
  MaxEffects       \* bound: so often a callback changes the array

Arrays == [at : [Places -> Elements \cup {Hole}], len : 0..(Modulus - 1),
           locked : SUBSET Places, error : {"none", "Type", "Range"}]

Defined == Elements \ {Undefined}

\* What concat joins: the elements of an array, or a value.
Parts == [isArray : {TRUE}, items : Seq(Elements \cup {Hole})]
           \cup [isArray : {FALSE}, item : Elements]

ASSUME StartsAssumption ==
  \A s \in Starts :
    /\ s.array \in Arrays /\ ~Failed(s.array)
    /\ s.call.fn \in {"reduce", "reduceRight"} => s.call.initial \in Seq(Elements)
    /\ s.call.fn \in {"indexOf", "lastIndexOf"} => s.call.x \in Elements /\ s.call.from \in Int
    /\ s.call.fn \in {"push", "unshift", "splice", "concat"} => "items" \in DOMAIN s.call
    /\ s.call.fn \in {"push", "unshift", "splice"} => s.call.items \in Seq(Elements)
    /\ s.call.fn \in {"slice", "splice"} => s.call.from \in Int /\ s.call.to \in Int
    /\ s.call.fn = "concat" => s.call.items \in Seq(Parts)
    /\ s.call.fn = "sort" => s.call.compare \in [Defined \X Defined -> Int]

\* Insertion sort sorts two, and the stack has room for every array.
ASSUME SortAssumption ==
  /\ InsertionLimit \in Nat /\ InsertionLimit > 1
  /\ StackSize \in Nat /\ \E k \in 0..StackSize : Modulus <= 2 ^ k

VARIABLES
  array,
  start,     \* the array at the call
  call,
  loop,      \* where a function that takes several steps is
  visits,    \* the calls of the function passed: index, element, answer
  touched,   \* the places callbacks have changed
  effects,   \* how often callbacks have changed the array
  result,
  stage      \* "call", "loop", then "done"

bvars == <<array, start, call, loop, visits, touched, effects, result, stage>>

Doing(fn) == stage = "call" /\ call.fn = fn
Return(answer) ==
  \E r \in {answer} :
  /\ array' = r.array /\ result' = r.value /\ stage' = "done"
  /\ UNCHANGED <<start, call, loop, visits, touched, effects>>

WithoutScript ==
  \/ Doing("pop") /\ Return(Pop(array))
  \/ Doing("push") /\ Return(Push(array, call.items))
  \/ Doing("reverse") /\ Return(ReverseOf(array))
  \/ Doing("shift") /\ Return(Shift(array))
  \/ Doing("unshift") /\ Return(Unshift(array, call.items))
  \/ Doing("slice") /\ Return(Slice(array, call.from, call.to))
  \/ Doing("splice") /\ Return(Splice(array, call.from, call.to, call.items))
  \/ Doing("concat") /\ Return(Concat(array, call.items))
  \/ Doing("indexOf") /\ Return(IndexOf(array, call.x, call.from))
  \/ Doing("lastIndexOf") /\ Return(LastIndexOf(array, call.x, call.from))

-----------------------------------------------------------------------------
(* every, some, forEach, map, filter, reduce and reduceRight.              *)
Backwards == call.fn = "reduceRight"
Folding == call.fn \in {"reduce", "reduceRight"}
Iterating == {"every", "some", "forEach", "map", "filter", "reduce", "reduceRight"}
Looping == stage = "loop" /\ call.fn \in Iterating

\* The length is read once, before the loop.
\* Mutant: it is read again each time.
SizeNow == array.len
Size == loop.size

Beginning(a) == [size |-> a.len, k |-> IF Backwards THEN a.len - 1 ELSE 0,
                 acc |-> IF Folding THEN call.initial ELSE <<>>]

Begin ==
  /\ stage = "call" /\ call.fn \in Iterating
  /\ IF Folding /\ call.initial = <<>> /\ array.len = 0
     THEN Return(Returning(Throw(array, "Type"), Undefined))
     ELSE /\ loop' = Beginning(array)
          /\ stage' = "loop"
          /\ UNCHANGED <<array, start, call, visits, touched, effects, result>>

AtEnd == IF Backwards THEN loop.k < 0 ELSE loop.k >= Size
\* Mutant: a hole is not stepped over.
OnwardFromElements == IF ~Has(array, loop.k) THEN loop.k
                      ELSE IF Backwards THEN loop.k - 1 ELSE loop.k + 1
Onward == IF Backwards THEN loop.k - 1 ELSE loop.k + 1

\* A hole: nothing is called.
Skip ==
  /\ Looping /\ ~AtEnd /\ ~Has(array, loop.k)
  /\ loop' = [loop EXCEPT !.k = Onward]
  /\ UNCHANGED <<array, start, call, visits, touched, effects, result, stage>>

\* reduce without an initial value starts with the first element there is.
FirstElement ==
  /\ Looping /\ ~AtEnd /\ Has(array, loop.k)
  /\ Folding /\ loop.acc = <<>>
  /\ loop' = [loop EXCEPT !.k = Onward, !.acc = <<array.at[loop.k]>>]
  /\ UNCHANGED <<array, start, call, visits, touched, effects, result, stage>>

\* What a callback may do to the array.
Effects(a) ==
  {a} \cup (IF effects = MaxEffects THEN {}
            ELSE {DeleteAt(a, i) : i \in 0..2}
                   \cup {PutAt(a, i, v) : i \in 0..2, v \in Elements}
                   \cup {PutLength(a, n) : n \in 0..2})

Satisfied(yes) == (call.fn = "every" /\ ~yes) \/ (call.fn = "some" /\ yes)

Kept(k, v, after, yes) == IF yes THEN Append(loop.acc, v) ELSE loop.acc

\* map writes at the index, so that holes stay holes.
Mapped(k, v) == [n \in 1..(k + 1) |-> IF n = k + 1 THEN v
                                      ELSE IF n \in DOMAIN loop.acc THEN loop.acc[n] ELSE Hole]

Accumulated(k, v, after, yes) ==
  CASE call.fn = "map" -> Mapped(k, v)
    [] call.fn = "filter" -> Kept(k, v, after, yes)
    [] Folding -> Append(loop.acc, v)
    [] OTHER -> loop.acc

Visit ==
  /\ Looping /\ ~AtEnd /\ Has(array, loop.k)
  /\ ~(Folding /\ loop.acc = <<>>)
  /\ \E after \in {b \in Effects(array) : ~Failed(b)}, yes \in BOOLEAN :
       LET k == loop.k
           v == array.at[k]
       IN /\ array' = after
          /\ effects' = IF after = array THEN effects ELSE effects + 1
          /\ touched' = touched \cup {i \in Places : after.at[i] # array.at[i]}
          /\ visits' = Append(visits, [k |-> k, v |-> v, yes |-> yes])
          /\ loop' = [loop EXCEPT !.k = Onward, !.acc = Accumulated(k, v, after, yes)]
          /\ stage' = IF Satisfied(yes) THEN "done" ELSE "loop"
          /\ result' = IF Satisfied(yes) THEN yes ELSE result
          /\ UNCHANGED <<start, call>>

Padded(s, n) == [i \in 1..n |-> IF i \in DOMAIN s THEN s[i] ELSE Hole]

End ==
  /\ Looping /\ AtEnd
  /\ LET failed == Folding /\ loop.acc = <<>>
     IN Return(Returning(IF failed THEN Throw(array, "Type") ELSE array,
                         CASE call.fn = "every" -> TRUE
                           [] call.fn = "some" -> FALSE
                           [] call.fn = "map" -> Padded(loop.acc, loop.size)
                           [] OTHER -> loop.acc))

-----------------------------------------------------------------------------
(* sort: ranges on a stack, quick sort down to short ones.                 *)
Sorting(at) == stage = "loop" /\ call.fn = "sort" /\ loop.at = at
Compared(x, y) == call.compare[<<x, y>>]

Resume(left, l) ==
  \E a \in {left} :
  /\ array' = a /\ loop' = l
  /\ stage' = IF Failed(a) THEN "done" ELSE "loop"
  /\ UNCHANGED <<start, call, visits, touched, effects, result>>

SortBegin ==
  /\ Doing("sort")
  /\ IF array.len = 0 THEN Return(Returning(array, Undefined))
     ELSE Resume(array, [at |-> "range", stack |-> <<<<0, array.len - 1>>>>])

\* Insertion sort, before it finds a place for the element at i.
Inserting(a, stack, l, r, i) ==
  [at |-> "insert", stack |-> stack, l |-> l, r |-> r, i |-> i, j |-> i - 1, t |-> a.at[i]]

SortRange ==
  /\ Sorting("range")
  /\ IF loop.stack = <<>> THEN Return(Returning(array, Undefined))
     ELSE LET range == Last(loop.stack)
              l == range[1]
              r == range[2]
              rest == Front(loop.stack)
          IN Resume(array,
               IF l >= r THEN [at |-> "range", stack |-> rest]
               ELSE IF r - l < InsertionLimit THEN Inserting(array, rest, l, r, l + 1)
               ELSE [at |-> "partition", stack |-> rest, l |-> l, r |-> r, i |-> l - 1, j |-> r + 1,
                     pivot |-> array.at[(l + r) \div 2]])

\* Whether x, left of t, has to move behind t.
MovesBehind(x, t) ==
  /\ t # Hole
  /\ x # Hole => /\ t # Undefined
                 /\ x # Undefined => Compared(x, t) > 0

GoesOn == loop.j >= loop.l /\ MovesBehind(array.at[loop.j], loop.t)

SortShift ==
  /\ Sorting("insert") /\ GoesOn
  /\ Resume(Move(array, loop.j, loop.j + 1), [loop EXCEPT !.j = @ - 1])

SortPlace ==
  /\ Sorting("insert") /\ ~GoesOn
  /\ LET placed == IF loop.t = Hole THEN DeleteAt(array, loop.j + 1)
                   ELSE PutAt(array, loop.j + 1, loop.t)
     IN Resume(placed, IF loop.i = loop.r THEN [at |-> "range", stack |-> loop.stack]
                       ELSE Inserting(placed, loop.stack, loop.l, loop.r, loop.i + 1))

\* The two searches of a partition: what they pass over.
\* Mutant: the left one passes over what is equal to the pivot.
PassedFromLeftEqual(x) ==
  IF loop.pivot = Hole THEN x # Hole
  ELSE /\ x \notin {Hole, Undefined}
       /\ loop.pivot # Undefined => Compared(x, loop.pivot) <= 0
PassedFromLeft(x) ==
  IF loop.pivot = Hole THEN x # Hole
  ELSE /\ x \notin {Hole, Undefined}
       /\ loop.pivot # Undefined => Compared(x, loop.pivot) < 0
PassedFromRight(x) ==
  /\ loop.pivot # Hole
  /\ \/ x = Hole
     \/ loop.pivot # Undefined /\ (x = Undefined \/ Compared(x, loop.pivot) > 0)

FromLeft == Min({k \in (loop.i + 1)..loop.r : k = loop.r \/ ~PassedFromLeft(array.at[k])})
FromRight == Max({k \in loop.l..(loop.j - 1) : k = loop.l \/ ~PassedFromRight(array.at[k])})

\* Both questions whether there is a hole are about i.
Swapped(a, i, j) ==
  IF Has(a, i) THEN PutAt(PutAt(a, i, Get(a, j)), j, a.at[i])
  ELSE DeleteAt(DeleteAt(a, i), j)

\* The shorter part goes on top.
\* Mutant: the longer one does.
SplitLongerFirst(i) ==
  LET low == <<loop.l, i - 1>>
      high == <<i, loop.r>>
  IN IF i - loop.l < loop.r - i THEN <<low, high>> ELSE <<high, low>>
Split(i) ==
  LET low == <<loop.l, i - 1>>
      high == <<i, loop.r>>
  IN IF i - loop.l < loop.r - i THEN <<high, low>> ELSE <<low, high>>

SortPartition ==
  /\ Sorting("partition")
  /\ LET i == FromLeft
         j == FromRight
     IN IF i < j
        THEN Resume(Swapped(array, i, j), [loop EXCEPT !.i = i, !.j = j])
        ELSE IF Len(loop.stack) + 2 > StackSize
        THEN Resume(Throw(array, "Type"), loop)
        ELSE Resume(array, [at |-> "range", stack |-> loop.stack \o Split(i)])

-----------------------------------------------------------------------------
BInit ==
  /\ \E s \in Starts : array = s.array /\ start = s.array /\ call = s.call
  /\ loop = [at |-> "none"]
  /\ visits = <<>> /\ touched = {} /\ effects = 0
  /\ result = Undefined /\ stage = "call"

BNext ==
  \/ WithoutScript
  \/ Begin \/ Skip \/ FirstElement \/ Visit \/ End
  \/ SortBegin \/ SortRange \/ SortShift \/ SortPlace \/ SortPartition

\* Every call of a built-in runs on: each iteration is the next thing the
\* thread does.
BSpec == BInit /\ [][BNext]_bvars /\ WF_bvars(BNext)
-----------------------------------------------------------------------------
AsSeq(a) == [n \in 1..a.len |-> a.at[n - 1]]
Ended(fns) == stage = "done" /\ call.fn \in fns
Given == IF "items" \in DOMAIN call THEN call.items ELSE <<>>
Fits == start.len + Len(Given) < Modulus

\* ES5 15.4.4, of a sequence s with holes: what is left of it, and the answer.
Ordinal(x) == IF x < 0 THEN Max({x + start.len, 0}) ELSE Min({x, start.len})
Or(v) == IF v = Hole THEN Undefined ELSE v
AfterCall(s) ==
  LET a == Ordinal(call.from)
      count == Min({Max({call.to, 0}), Len(s) - a})
  IN CASE call.fn = "pop" -> IF s = <<>> THEN <<s, Undefined>> ELSE <<Front(s), Or(Last(s))>>
       [] call.fn = "push" -> <<s \o Given, Len(s) + Len(Given)>>
       [] call.fn = "reverse" -> <<Reverse(s), Undefined>>
       [] call.fn = "shift" -> IF s = <<>> THEN <<s, Undefined>> ELSE <<Tail(s), Or(Head(s))>>
       [] call.fn = "unshift" -> <<Given \o s, Len(s) + Len(Given)>>
       [] call.fn = "slice" -> <<s, SubSeq(s, a + 1, Ordinal(call.to))>>
       [] call.fn = "splice" -> <<SubSeq(s, 1, a) \o Given \o SubSeq(s, a + count + 1, Len(s)),
                                  SubSeq(s, a + 1, a + count)>>
       [] call.fn = "concat" -> <<s, s \o FlattenSeq([n \in DOMAIN Given |->
                                    IF Given[n].isArray THEN Given[n].items ELSE <<Given[n].item>>])>>

\* indexOf finds the first element from fromIndex on, lastIndexOf the last one
\* up to it, also with a negative one and one beyond the ends.
SearchesFindTheirs ==
  Ended({"indexOf", "lastIndexOf"}) =>
    LET from == IF call.from < 0 THEN start.len + call.from ELSE call.from
        hits == {i \in 0..(start.len - 1) :
                   start.at[i] = call.x /\ IF call.fn = "indexOf" THEN i >= from ELSE i <= from}
    IN IF hits = {} THEN result = -1
       ELSE result = IF call.fn = "indexOf" THEN Min(hits) ELSE Max(hits)

\* The functions that move elements one at a time, over holes and in one
\* direction or the other, do to the array what ECMAScript 5 says they do to
\* the sequence, when nothing is locked and the new length is one.
SequenceOperations ==
  Ended({"pop", "push", "reverse", "shift", "unshift", "slice", "splice", "concat"})
    /\ start.locked = {} /\ Fits
  => /\ ~Failed(array)
     /\ AsSeq(array) = AfterCall(AsSeq(start))[1]
     /\ result = AfterCall(AsSeq(start))[2]

\* The functions that call no script, as ECMAScript 5, 15.4.4 says.
DirectCallsMatchES5 == SequenceOperations /\ SearchesFindTheirs

\* A call that ends half-way in an error has lost no element it was not told to
\* remove: each is where it was or where the call would bring it.
FailureLosesNothing ==
  Ended({"pop", "push", "shift", "unshift", "splice"}) /\ Failed(array) /\ Fits =>
    LET a == Ordinal(call.from)
        count == Min({Max({call.to, 0}), start.len - a})
        kept == CASE call.fn = "pop" -> 0..(start.len - 2)
                  [] call.fn = "shift" -> 1..(start.len - 1)
                  [] call.fn = "splice" -> (0..(a - 1)) \cup ((a + count)..(start.len - 1))
                  [] OTHER -> 0..(start.len - 1)
        shift == CASE call.fn = "shift" -> -1
                   [] call.fn = "unshift" -> Len(Given)
                   [] call.fn = "splice" -> Len(Given) - count
                   [] OTHER -> 0
    IN \A i \in kept : Has(start, i) =>
         \/ array.at[i] = start.at[i]
         \/ i + shift \in Places /\ array.at[i + shift] = start.at[i]

\* Whatever callbacks do to the array, a loop that is not stopped visits every
\* element it had and still has, once, in order, and none past its first length.
VisitsEveryElement ==
  Ended(Iterating) /\ result \notin (IF call.fn = "every" THEN {FALSE}
                                    ELSE IF call.fn = "some" THEN {TRUE} ELSE {}) =>
    LET first == IF Folding /\ call.initial = <<>> THEN 1 ELSE 0
        present == {i \in 0..(start.len - 1) \ touched : Has(start, i)}
        visited == {visits[n].k : n \in DOMAIN visits}
    IN /\ Cardinality(present \ visited) <= first
       /\ \A n \in DOMAIN visits : /\ visits[n].k < start.len
                                   /\ visits[n].k \in present => visits[n].v = start.at[visits[n].k]
       /\ \A m, n \in DOMAIN visits : m < n =>
            IF Backwards THEN visits[m].k > visits[n].k ELSE visits[m].k < visits[n].k

\* map gives an array of the same length with the same holes, filter what the
\* callback was given and accepted, reduce a fold of what it was given.
ResultsOfLoops ==
  Ended({"map", "filter", "reduce", "reduceRight"}) /\ ~Failed(array) =>
    LET given == [n \in DOMAIN visits |-> visits[n].v]
        accepted == {n \in DOMAIN visits : visits[n].yes}
    IN CASE call.fn = "map" ->
              /\ Len(result) = start.len
              /\ \A i \in 0..(start.len - 1) \ touched : result[i + 1] = start.at[i]
         [] call.fn = "filter" ->
              /\ Len(result) = Cardinality(accepted)
              /\ \A n \in accepted : result[Cardinality({m \in accepted : m <= n})] = visits[n].v
         [] Folding /\ call.initial # <<>> -> result = call.initial \o given
         [] OTHER -> Tail(result) = given

\* The functions that call one for every element, whatever it does to the array.
LoopsMatchES5 == VisitsEveryElement /\ ResultsOfLoops

-----------------------------------------------------------------------------
Sorted == Ended({"sort"}) /\ ~Failed(array)
Dense(a) == \A i \in 0..(a.len - 1) : Has(a, i)
Count(a, v) == Cardinality({i \in 0..(a.len - 1) : a.at[i] = v})
Consistent(c) ==
  /\ \A x, y \in Defined : c[<<x, y>>] = -c[<<y, x>>]
  /\ \A x, y, z \in Defined : c[<<x, y>>] <= 0 /\ c[<<y, z>>] <= 0 => c[<<x, z>>] <= 0

\* sort puts the elements in another order and loses none, whatever the
\* comparison function answers.
SortKeepsElements ==
  Sorted /\ (Dense(start) \/ start.len <= InsertionLimit)
    => array.len = start.len /\ \A v \in Elements : Count(array, v) = Count(start, v)

\* With a consistent comparison function the result is in order, undefined and
\* then holes last.
SortOrders ==
  Sorted /\ Consistent(call.compare) /\ (Dense(start) \/ start.len <= InsertionLimit) =>
    \A i, j \in 0..(array.len - 1) : i < j => ~MovesBehind(array.at[i], array.at[j])

\* The stack of ranges stays as low as the halving of ranges keeps it, so that
\* kStackSize is enough for every uint32_t length.
SortStackBound ==
  stage = "loop" /\ call.fn = "sort" => 2 ^ Len(loop.stack) <= 2 * start.len

\* The result of sort is a permutation of the elements, in order, and the stack
\* of ranges never overflows on the way.
SortMatchesES5 == SortKeepsElements /\ SortOrders /\ SortStackBound

\* Every call ends, however the callbacks make the array grow; sort, with a
\* consistent comparison function.
CallsEnd == (call.fn = "sort" => Consistent(call.compare)) => <>(stage = "done")
=============================================================================
