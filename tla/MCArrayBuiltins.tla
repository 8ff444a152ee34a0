--------------------------- MODULE MCArrayBuiltins ---------------------------
(* Short arrays with holes, undefined and a locked element, at and below    *)
(* the largest length; every function with arguments on both sides of the   *)
(* ends.  Longer ones for sort, which partitions from four elements on.     *)
EXTENDS ArrayBuiltins

CONSTANTS undefined, hole

MCElements == {1, 2, undefined}
Array(s, locked) ==
  [at |-> [i \in Places |-> IF i < Len(s) THEN s[i + 1] ELSE hole], len |-> Len(s),
   locked |-> {i \in locked : i < Len(s) /\ s[i + 1] # hole}, error |-> "none"]
Contents(S, n) == UNION {[1..k -> S] : k \in 0..n}

Short == {Array(s, l) : s \in Contents({1, 2, hole}, 3), l \in {{}, {0}, {1}, {2}}}
           \cup {Array(s, {}) : s \in Contents({1, undefined, hole}, 3)}
           \cup {Array(s, {}) : s \in [1..6 -> {1, hole}]}
Plain == {Array(s, {}) : s \in Contents({1, 2, hole}, 3)}
Sortable == {Array(s, {}) : s \in Contents({1, 2}, 7)}
              \cup {Array(s, l) : s \in Contents({1, 2, undefined, hole}, 4), l \in {{}, {1}}}

Items == {<<>>, <<2>>, <<1, undefined>>}
Ordinals == {-4, -1, 0, 1, 2, 5}
Simple == {[fn |-> f] : f \in {"pop", "reverse", "shift"}}
Loops == {[fn |-> f] : f \in {"every", "some", "forEach", "map", "filter"}}
Folds == {[fn |-> f, initial |-> s] : f \in {"reduce", "reduceRight"}, s \in {<<>>, <<1>>}}
Adding == {[fn |-> f, items |-> s] : f \in {"push", "unshift"}, s \in Items}
Cutting == {[fn |-> "slice", from |-> a, to |-> b] : a, b \in Ordinals}
             \cup {[fn |-> "splice", from |-> a, to |-> b, items |-> s] : a, b \in Ordinals, s \in Items}
Finding == {[fn |-> f, x |-> 1, from |-> a] : f \in {"indexOf", "lastIndexOf"}, a \in Ordinals}
Joining == {[fn |-> "concat", items |-> s] :
              s \in {<<>>, <<[isArray |-> TRUE, items |-> <<2, hole>>], [isArray |-> FALSE, item |-> 1]>>}}

\* Consistent, reversed, and inconsistent ones.
Comparator(low, high, same) == [p \in {1, 2} \X {1, 2} |->
  IF p[1] < p[2] THEN low ELSE IF p[1] > p[2] THEN high ELSE same]
Comparators == {Comparator(c[1], c[2], c[3]) :
  c \in {<<-1, 1, 0>>, <<1, -1, 0>>, <<0, 0, 0>>, <<1, 1, 1>>, <<-1, -1, -1>>, <<1, 1, 0>>, <<-1, 1, 1>>}}
Sorts == {[fn |-> "sort", compare |-> c] : c \in Comparators}

Starting(calls, arrays) == {[call |-> c, array |-> a] : c \in calls, a \in arrays}
MCStarts == Starting(Simple \cup Adding \cup Cutting \cup Finding \cup Joining, Short)
              \cup Starting(Loops \cup Folds, Plain) \cup Starting(Sorts, Sortable)
=============================================================================
