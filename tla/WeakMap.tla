------------------------------ MODULE WeakMap ------------------------------
(***************************************************************************)
(* The table of a WeakMap (JSWeakMap::WeakCellMap of lv5/jsweak_map.h):     *)
(* open addressing with deleted places, whose keys the collector may take   *)
(* away at any time.                                                        *)
(***************************************************************************)
EXTENDS Integers, FiniteSets, SequencesExt

CONSTANTS
  Cells,        \* the addresses of objects used as keys
  HashOf,       \* the hash of each
  WeakValues,
  InitialSize,  \* kInitialSize
  MaxTable      \* bound: the table does not grow beyond it

ASSUME WeakMapAssumption ==
  /\ HashOf \in [Cells -> Nat] /\ Cells \cap {"none", "collected"} = {}
  /\ InitialSize \in Nat /\ MaxTable \in Nat /\ InitialSize >= 4
  /\ "undefined" \notin WeakValues

VARIABLES
  vector, size,  \* vector_ and size_
  alive,         \* the objects there are
  entries,       \* what the map should hold
  twice,         \* the keys that a call entered a second time
  right          \* whether the last answer was right, or about a key of twice

wvars == <<vector, size, alive, entries, twice, right>>

EmptyPlace == [state |-> "EMPTY", key |-> "none", value |-> "undefined"]
DeletedPlace == [EmptyPlace EXCEPT !.state = "DELETED"]
Used(c, v) == [state |-> "USED", key |-> c, value |-> v]
IsCollected(p) == p.key = "collected"
Fresh(n) == [v |-> [i \in 0..(n - 1) |-> EmptyPlace], n |-> 0]

\* The places in the order in which a cell is looked for.
Probe(v, c) == [i \in 1..Cardinality(DOMAIN v) |-> (HashOf[c] + i - 1) % Cardinality(DOMAIN v)]
FirstOf(s, P(_)) == LET at == {i \in DOMAIN s : P(s[i])} IN IF at = {} THEN 0 ELSE Min(at)

\* Where Set puts it: the first place that is not another key's.
PlaceFor(v, c) ==
  FirstOf(Probe(v, c), LAMBDA k : v[k].state # "USED" \/ IsCollected(v[k]) \/ v[k].key = c)
PutIn(t, c, v) ==
  LET k == Probe(t.v, c)[PlaceFor(t.v, c)]
  IN [v |-> [t.v EXCEPT ![k] = Used(c, v)], n |-> IF t.v[k].state = "USED" THEN t.n ELSE t.n + 1]

\* GrowForce: the places in the order of the table.
EnterAgain(t, p) == IF p.state = "USED" /\ ~IsCollected(p) THEN PutIn(t, p.key, p.value) ELSE t
GrowForce(t) ==
  LET n == Cardinality(DOMAIN t.v)
      grown[i \in 0..n] == IF i = 0 THEN Fresh(2 * n) ELSE EnterAgain(grown[i - 1], t.v[i - 1])
  IN grown[n]
GrowTable(t) == IF 4 * t.n >= 3 * Cardinality(DOMAIN t.v) THEN GrowForce(t) ELSE t

\* Mutant: a deleted place ends it like an empty one.
EndsAtGap(p, c) == p.state # "USED" \/ p.key = c
EndsAt(p, c) == p.state = "EMPTY" \/ (p.state = "USED" /\ p.key = c)

\* A search: up to an empty place or the key; the collected ones it passes
\* become deleted.
Search(c) ==
  LET p == Probe(vector, c)
      stop == FirstOf(p, LAMBDA k : EndsAt(vector[k], c))
      passed == {p[i] : i \in 1..(IF stop = 0 THEN Len(p) ELSE stop - 1)}
      swept == {k \in passed : vector[k].state = "USED" /\ IsCollected(vector[k])}
  IN [v |-> [k \in DOMAIN vector |-> IF k \in swept THEN DeletedPlace ELSE vector[k]],
      n |-> size - Cardinality(swept),
      at |-> IF stop = 0 \/ vector[p[stop]].state # "USED" THEN -1 ELSE p[stop]]

Places(v, c) == {k \in DOMAIN v : v[k].state = "USED" /\ v[k].key = c}
Becomes(t) == vector' = t.v /\ size' = t.n
Replies(c, got, should) == right' = (c \notin twice => got = should)

WeakSet(c, v) ==
  /\ c \in alive
  /\ LET t == PutIn([v |-> vector, n |-> size], c, v)
     IN /\ Cardinality(DOMAIN GrowTable(t).v) <= MaxTable
        /\ Becomes(GrowTable(t))
        /\ twice' = IF Cardinality(Places(t.v, c)) > 1 THEN twice \cup {c} ELSE twice
  /\ entries' = [d \in DOMAIN entries \cup {c} |-> IF d = c THEN v ELSE entries[d]]
  /\ right' = TRUE
  /\ UNCHANGED alive

WeakGet(c) ==
  /\ c \in alive
  /\ LET s == Search(c)
     IN /\ Becomes(s)
        /\ Replies(c, IF s.at = -1 THEN "undefined" ELSE vector[s.at].value,
                   IF c \in DOMAIN entries THEN entries[c] ELSE "undefined")
  /\ UNCHANGED <<alive, entries, twice>>

WeakHas(c) ==
  /\ c \in alive
  /\ LET s == Search(c)
     IN Becomes(s) /\ Replies(c, s.at # -1, c \in DOMAIN entries)
  /\ UNCHANGED <<alive, entries, twice>>

Without(c) == [d \in DOMAIN entries \ {c} |-> entries[d]]
WeakDelete(c) ==
  /\ c \in alive
  /\ LET s == Search(c)
         t == IF s.at = -1 THEN s ELSE [v |-> [s.v EXCEPT ![s.at] = DeletedPlace], n |-> s.n - 1]
     IN Becomes(t) /\ Replies(c, s.at # -1, c \in DOMAIN entries)
  /\ entries' = Without(c)
  /\ UNCHANGED <<alive, twice>>

WeakClear ==
  /\ Becomes(Fresh(InitialSize))
  /\ entries' = <<>> /\ twice' = {}
  /\ right' = TRUE
  /\ UNCHANGED alive

\* The collector takes an object, and another one gets its address.
Collect(c) ==
  /\ c \in alive
  /\ alive' = alive \ {c}
  /\ vector' = [k \in DOMAIN vector |->
                  IF vector[k].key = c THEN [vector[k] EXCEPT !.key = "collected"] ELSE vector[k]]
  /\ entries' = Without(c)
  /\ twice' = twice \ {c}
  /\ right' = TRUE
  /\ UNCHANGED size
NewObject(c) ==
  /\ c \notin alive
  /\ alive' = alive \cup {c}
  /\ UNCHANGED <<vector, size, entries, twice, right>>

WInit ==
  /\ vector = Fresh(InitialSize).v /\ size = 0
  /\ alive = Cells /\ entries = <<>> /\ twice = {}
  /\ right = TRUE
WNext ==
  \/ \E c \in Cells :
       \/ \E v \in WeakValues : WeakSet(c, v)
       \/ WeakGet(c) \/ WeakHas(c) \/ WeakDelete(c) \/ Collect(c) \/ NewObject(c)
  \/ WeakClear
WSpec == WInit /\ [][WNext]_wvars

-----------------------------------------------------------------------------
(* Properties                                                              *)

\* Through deletions, collected keys and growth, a key is found with its last
\* value and no other is, as long as no key was entered a second time before
\* its place (README, section 6).  A quarter of the table is free, so that Set
\* finds a place without growing first.
WeakMapIsMap ==
  /\ right
  /\ 4 * size < 3 * Cardinality(DOMAIN vector)
  /\ size = Cardinality({k \in DOMAIN vector : vector[k].state = "USED"})
=============================================================================
