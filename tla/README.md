# A verification project for iv / lv5

iv is a collection of ECMAScript libraries; lv5 is its ECMAScript 5 engine
(`src/iv/lv5`): a parser, the railgun bytecode compiler and interpreter, the
breaker template JIT, the regular expressions of aero, and the object system
they all run on.  This directory models the parts of it whose correctness nobody
can see by reading one function: something is computed once (a table, a
transition, a register, a piece of machine code) and used much later, after any
number of other operations.

    tlc -workers 2 -config MCInlineCacheLoad.cfg MCInlineCache.tla
    tlapm CacheProofs.tla

## 1. Inventory

| part | state it keeps | operations | how it meets the others |
|------|----------------|------------|-------------------------|
| Property descriptors (`property.h`, `property_fwd.h`, `attributes.h`) | a stored slot: a value and six attribute bits | accept, merge, create | every define and put of every object |
| Hidden classes (`map.h`) | per map: table, free offsets, transitions, unique and flattened flags, prototype | add, delete, change attributes / prototype / indexed / extensible, flatten; build the table on first use | shared by objects, compared by inline caches |
| Named properties (`jsobject.h`, `storage.h`, `slot.h`) | per object: map, slots, flags | get, put, define, delete, change prototype, prevent extensions | chain of prototypes; method table for exotic objects |
| Indexed elements and arrays (`indexed_elements.h`, `jsarray.h`) | per object: dense vector, sparse map, length, two flags | put, define, delete, set length | the same descriptors; `map.h` only through the indexed flag |
| Polymorphic inline caches (`breaker/poly_ic.h`, `chain.h`, stubs of `breaker/stub.cc`) | per site: a chain of units of machine code | generate, hit, miss | bake in maps, prototypes and offsets |
| Global object (`jsglobal.h`, `breaker/mono_ic.h`, `GlobalInstantiation` of `railgun/compiler.h`) | variables beside the map's properties; one patched site per access | declare, direct and cached load / store | overrides the own-property methods |
| Array built-ins (`runtime/array.cc`) | one call: position, length, arguments | every function of `Array.prototype` | callbacks change the array it runs over |
| railgun compiler (`compiler_statement.h`, `compiler_expression.h`, `scope.h`) | registers in use, levels, jump targets, exception table | statements, expressions, names | what the interpreter and breaker run |
| railgun VM (`railgun/vm.h`, `operation.h`, `stack.h`, `frame.h`) | frames, registers, instruction caches | call, return, throw, load, store | runs everything |
| Environments (`jsenv.h`, `environment.h`) | bindings with mutable / immutable state | declare, initialise, set, delete | object environments wrap objects |
| for-in (`railgun/native_iterator.h`, `property_names_collector.h`) | names collected before the loop | collect, next | order follows the offsets of the maps |
| Maps, sets, weak maps (`jsmap.h`, `jsset.h`, `jsweak_map.h`, iterators) | hash tables and positions in them | set, delete, next | iterators over a table that changes; the collector takes keys away |
| Eval cache (`railgun/lru_code_map.h`) | a bounded list of compiled code | lookup, insert, evict | direct eval |
| radio (`radio/`) | blocks, free lists, scopes | allocate, mark, sweep | an experimental collector; the default is Boehm's |
| aero (`src/iv/aero`), text loops (`jsregexp.h`, `runtime/string.cc`) | backtracking stack, captures; lastIndex | parse, compile, run; match, replace, split | regular expressions |
| lexer, parser, JSON, conversions, dates, i18n | none across calls | pure functions | input |

The engine runs scripts on one thread.  What is hard is not a race between
threads but between the moments of a long program, and between a function and
the scripts, collectors and callbacks that run in the middle of it.  Every such
operation is an action of the models here, so TLC tries them in every order.
The list of those places, each with its line, is "hazards" in `PROJECT.json`.

What makes each part correct:

* descriptors: what is accepted and what results is ECMAScript 5, 8.12.9,
  from every stored state and for every descriptor;
* hidden classes: sharing is invisible.  What happens to one object never
  shows in another; an offset has one meaning; a map somebody relies on stays;
* inline caches: a unit that lets an object through does what the full lookup
  or the full put would do at that moment;
* global object: a name has one home, and a cached site never reads or writes
  a property that a later declaration has replaced;
* arrays: length is above every element, locked elements and a locked length
  stay, and the two representations hold the same elements;
* built-ins over arrays: the result of ECMAScript 5, 15.4.4, whatever the
  callbacks do, a failure half-way leaves what the standard leaves, and the call
  ends;
* compiler and VM: a program completes, evaluates and throws as ECMAScript 5
  says; an operand stays what it was until it is used; a name is found where the
  standard finds it;
* stack: activations do not overlap, and the collector sees what they need;
* weak maps: a map, whatever is deleted and collected;
* regular expressions: the match of 15.10.2 and the loops of 15.5.4, and they end.

## 2. Modules

| module | models | of |
|--------|--------|----|
| `PropertyDescriptor` | descriptors, stored slots, `IsDefineOwnPropertyAccepted`, `Merge`, and the reference `SpecAllows` / `SpecChanged` | `property.h`, `property_fwd.h`, `attributes.h` |
| `DescriptorMachine` | one property under define, delete, preventExtensions | `jsobject.h` |
| `HiddenClass` | maps, transitions, slots, and the operations on named properties | `map.h`, `jsobject.h`, `storage.h` |
| `ObjectModel` | the abstract specification: objects as dictionaries | ECMAScript 5, 8.12 |
| `InlineCache` | load and store units over `HiddenClass` | `poly_ic.h`, `chain.h`, `stub.cc` |
| `LazyTables` | tables built on first use and shared, beside `InlineCache` | `map.h` |
| `GlobalObject` | variables and global caches over `HiddenClass` | `jsglobal.h`, `mono_ic.h`, `railgun` |
| `IndexedElements` | vector, sparse map and length of an array, and the indexed operations | `indexed_elements.h`, `jsobject.h`, `jsarray.h` |
| `ArrayModel` | the abstract specification: one dictionary of elements under a length | ECMAScript 5, 15.4.5.1 |
| `ElementCache` | compiled stores of elements over `IndexedElements` | `breaker/compiler.cc`, `poly_ic.h`, `stub.cc` |
| `FrameStack` | frames, calls in place and by native code, argument lists, unwinding, marking | `stack.h`, `frame.h`, `vm.h`, `context.h` |
| `WeakMap` | the table of a WeakMap and the collector | `jsweak_map.h` |
| `RuntimeStructures` | `DescriptorMachine`, `ElementCache`, `FrameStack` and `WeakMap`, one at a time | |
| `ArrayCall`, `ArrayBuiltins` | the functions that call no script; those that do, a step per callback; sort, a step per element moved or pair exchanged | `runtime/array.cc` |
| `Scopes` | analysis of names, places, environments | `environment.h`, `ast.h`, `railgun/scope.h`, `jsenv.h` |
| `Statements`, `StatementCompiler`, `StatementMachine` | completions of ECMAScript 5, 12; the compiler; the VM with its exception table | `ast.h`, `compiler_statement.h`, `railgun/vm.h` |
| `Expressions`, `ExpressionCompiler`, `ExpressionMachine` | evaluation of ECMAScript 5, 11; the register allocation; the VM | `ast.h`, `compiler_expression.h`, `railgun/vm.h` |
| `Bytecode` | a body of statements or an expression, one at a time | |
| `Pattern`, `PatternParser`, `PatternCompiler`, `PatternMachine` | 15.10.2; parser, compiler with quick check, backtracking machine | `aero/` |
| `RegExpText`, `RegExp` | the loops over a matcher and the `$` forms; both together | `jsregexp.h`, `runtime/string.cc` |
| `MC...` | the instances TLC checks | |
| `SharedLemmas`, `...Proofs` | theorems (section 4) | |

Data is abstracted to what the properties tell apart: values, functions, names
and objects are model values.  A pair of attribute bits (`CONFIGURABLE`,
`UNDEF_CONFIGURABLE`) is one field with the values TRUE, FALSE and `Absent`.
Control is kept: every early return of `IsDefineOwnPropertyAccepted`, every
condition of `AddPropertyTransition`, the order in which the units of a site
are tried, every instruction the compilers emit for the constructs modelled.

**HiddenClass.**  `maps[m]` is a `Map`, never removed; `objs[o]` is what a
`JSObject` holds.  Each transition of `map.h` is an operator that answers the
heap of maps after it and the map the object moves to; `Uniquely` is the path
`if (IsUnique())` shared by three of them.  A unique map changes in place: in
the code the object gets a *new* `Map` that takes the table of the old one
over; as nobody looks at the old one again (`InUse`), the model replaces it.
`Derived` is the constructor, so `transit_count_` and the transitions start
anew and the flattened mark is gone.  An object operation takes a transition
and writes the slot in one action, as the code does.  Requests that are refused
change nothing; they are the step `Get` or a stutter.

**LazyTables.**  Which maps have a table now, which successive unique maps share
one, and what `AllocateTable` builds from the maps before.  It runs beside
`InlineCache` and reads nothing of its `table` fields, which are the history the
tables are compared with.

**InlineCache.**  A unit is a record of the maps it compares (`guards`), the
prototype objects whose addresses it contains (`via`), the offset, and for a
store the map it installs and whether it grows the storage.  `Load`,
`StoreReplace` and `StoreNew` are the slow path together with the unit they
generate; `StoreHit` runs a unit on an object; everything else that can happen
is `Next` of `HiddenClass`.  Load hits change nothing, so their correctness is
an invariant (`LoadICSound`): a unit that would let an object through now must
answer what the lookup answers now.

**IndexedElements.**  `elements` is an `IndexedElements`: the memory of the
vector up to its capacity, its size, the sparse map and the two flags.  One
action per call: `DefineOwn` and `Put` with the array fast path, `Delete`,
`DefineLength` with `SetLength` and its three algorithms (dense, small and big
shrink), `PreventExtensions`.  A shrink that deletes index by index is one
action, as nothing runs between the deletions; what it leaves when it stops is
`ShrunkSparse`.  `CallsAreArrayCalls` says of every call with its arguments that
it is the call of `ArrayModel` with the same arguments.  It excepts four
departures (section 6), stated as precisely as they are known, so that it shows
that there is no fifth.

**ElementCache.**  Compiled `a[i] = v` has five ways: overwrite, fill a hole
with a unit, grow within the capacity with a unit, the miss that generates a
unit, and the generic put.  `unit` says whether the site has one for the maps
of this array and its prototypes; initially it may, since other arrays have the
same maps.  What lies above the size of the vector is left-over memory, kept in
the model because compiled code can make it visible.

**GlobalObject.**  `variables` is `JSGlobal::variables_`.  The actions on named
properties of the global object are those of `HiddenClass` restricted to names
that are not variables, because the overridden methods look there first.

**FrameStack.**  `calls` is the nesting of activations: frames of interpreted
code, native functions, argument lists; `sp` the stack pointer.  A frame lies
where its caller put the arguments, so frames overlap, and `needs` says how far
the caller still asks for its registers.

**WeakMap.**  `vector` and `size` are those of `WeakCellMap`; `entries` is what
the map should hold, `right` whether the last answer agreed with it.  `Collect`
takes an object away at any moment, `NewObject` reuses its address.

**The compilers.**  `CompileStatement` and `CompileExpression` answer the code of
a program; the machines run it instruction by instruction against the
completion, or the value and trace of effects, that the reference defines.
Values are terms that say where they come from, so two orders of evaluation
differ.

**Regular expressions.**  The parser, compiler and machine of aero, and a
matcher in continuation style after 15.10.2 as the reference.

**ArrayBuiltins.**  Functions without callbacks are one action; the others take
an action per callback, which may change the array first.  `sort` takes a step
per range taken from its stack, per element that insertion sort moves up, per
element it puts in its place, and per exchange of a partition.  Indices are numbers
modulo `Modulus` (2^32 in the code).

Operators marked "Mutant" next to a definition change it the way a bug would;
no specification uses them.  `PROJECT.json` names, for every property of every
run, the mutant that violates it.

## 3. Runs

| run | instance | shows |
|-----|----------|-------|
| `objects_shared_map` | two objects with one shared map, two names, a store site for each | tables built lazily answer what the history of each map says; offsets, slots, uniqueness and transitions stay right |
| `load_ic` | a chain of three objects, one load site | own, prototype and chain units stay right; guarded maps are stable |
| `store_ic` | two objects with a shared map above a prototype, one store site | replace and new-property units do what the put does; the objects implement `ObjectModel` |
| `global_object` | the global object, its prototype, one name | one home per name, sound caches, constants stay |
| `indexed_elements` | a vector of up to two in an array of up to three, prototypes with and without elements | two representations and the length are one array, but for four known departures |
| `runtime_structures` | every descriptor over two values and undefined; the array above with compiled stores; a stack of 18 cells; a table of 4 places that grows to 8 | acceptance, merge and locks of 8.12.9; compiled stores are puts; activations keep apart; the weak map is a map |
| `descriptor_stale` | the same | a finding, see 6 |
| `array_builtins` | arrays of up to three elements, or six, also at the largest lengths | results and losses of 15.4.4 with callbacks that change the array; calls end |
| `names` | functions of two items nested in global, eval and strict eval code | a name is found where ECMAScript 5 finds it |
| `bytecode` | statements up to three deep; every kind of expression as operand of every other | completion, log, value and order of effects; iterators released once; registers of windows stay on top |
| `statements_handler_hidden` | the same | a finding, see 6 |
| `regexp` | about 600 patterns, every short subject; loops over a matcher | 15.10.2, 15.5.4, termination |

Bounds.  `MaxMaps = 4` caps how many maps a behaviour creates (an operation
that needs another one is not taken); four are enough for a root, a transition,
the transition after it or a second branch, and a unique map.  `MaxTransition`
(32 in the code) is 0 or 1 so that the limit is crossed; `MinCapacity` (8 in
the code) is 2 so that storage has room left at one property and is full at
two.  `MaxPolyIC` (5 in the code) is 1 or 2: one unit in front of another where
two maps are at stake.  `MaxVectorSize` (65536 in the code) is 2 and `MaxLength`
3, so an index can be in the vector and above it; a capacity is a power of two
no larger than it.  `BigShrink` (2^24 in the code) is 2 or 3: both shrinks
occur.  One or two names suffice because a property at stake is always between
one slot and another or between the same name on two objects.
`StackCapacity = 18`, `MaxDepth = 6` and calls with up to `MaxArgs = 1`
argument: four or five frames with fewer, as many and more parameters than
arguments fit, so that overflow is met at every kind of entry.  `MaxTable = 8`
lets the table of the weak map grow once; two of three keys collide and one
probes past the end.  `Modulus = 8` in place of 2^32: lengths wrap, and there
are names above the last index (`Beyond`).  `InsertionLimit = 3` (20 in the
code) so that sort partitions; `MaxEffects = 1` change of the array per
callback.  Programs have `MaxAnswers = 4` decided conditions and traces of
`MaxTrace = 16`; `IteratorCacheMax = 20` is the code's.  `MaxFrames = 30` bounds
the backtracking stack, `FilterLimit = 8` the quick check's.  Symmetry is used
where only safety is checked and the initial state is symmetric.

Fairness.  The object system has no scheduler and no retry: nothing waits for
anything, and its properties are safety properties.  A call of a regular
expression (`CallsReturn`) and of an array built-in (`CallsEnd`) must end: there
weak fairness of the step of the running call says that the one thread goes on
running it, and nothing more.  Deadlock is not checked where a run is over when
its call or program is (`array_builtins`, `bytecode`, `names`, `regexp`,
`runtime_structures`: the last because a stack that overflowed in the wild
place is left alone, section 6).

## 4. Proofs

TLAPS proves for every value of the constants, from the named assumptions of the
modules.  They say what the code takes for granted: `DescriptorAssumption`
(undefined is a value, `Absent` is none), `HeapAssumption` (finitely many names;
the smallest storage is a power of two: it is 8, `utils.h:126`), `RootAssumption`
and `RootContents` (the maps a context is set up with: no transitions, no
properties of objects yet, no cycle of prototypes), `SiteAssumption`,
`GlobalAssumption`, `ElementsAssumption` (`kMaxVectorSize` is a capacity, and
no length is `Absent`), `FrameStackAssumption` (sizes are not negative, a frame has a
header, the stack a cell), `WeakMapAssumption` (a hash is a number, a table has at
least four places, and the marks of the model are neither keys nor values),
`ArrayAssumption` (undefined is an element, a hole is none), `StartsAssumption`
(a call begins with an array that has not failed and arguments of their kinds; a
comparison function answers any integer), and `SortAssumption` (insertion sort
sorts two elements, and `Modulus` is halved to one in `StackSize` steps: they are
2^32 and 32 in the code).  TLC evaluates each of them in the runs.

| module | theorems | by |
|--------|----------|----|
| `StructureProofs` | `DescriptorTypeCorrect`, `AcceptanceIsES5`, `MergeIsES5`, `LockedPropertiesStay` | cases on the kinds of the old and the new property |
| `StructureProofs` | `FramesStayApart` | `StackInv` |
| `StructureProofs` | `WeakMapStaysMap` | `WInv` |
| `HiddenClassProofs` | `TypeCorrect`, `UniqueMapsStayUnshared`, `MapsStayStable`, `OffsetsStaySlots`, `TransitionsStayExact` | `IInv`, then `HeapInv` |
| `HiddenClassProofs` | `SlotsStayMatched`, `MapsImplementObjects` | `SlotInv`, then `RefInv` |
| `GlobalObjectProofs` | `GlobalsHaveOneHome`, `GlobalSitesAnswer`, `GlobalConstantsStayPut` | `GInv` |
| `CacheProofs` | `LoadUnitsAnswer`, `StoreUnitsPut`, `CachedMapsStayStable`, `CachesImplementObjects` | `ICInv` |
| `LazyProofs` | `TablesStayRight` | `LazyInv` |
| `ElementProofs` | `ElementsStayStored`, `ElementsHaveOneHome`, `ElementsStayBelowLength`, `CallsRefineArray`, `CompiledStoresArePuts` | `EInv`, `CInv` |
| `ArrayProofs` | `LoopsKeepToES5` | `LoopInv` |
| `ArrayProofs` | `SearchesFind` | `SearchInv` |
| `ArrayProofs` | `SortStackSuffices`, `SortKeepsToES5` | `HeightInv`, then `OrderInv` |
| `ArrayProofs` | `DirectCallsKeepToES5`, `FailuresLoseNothing` | `DirectInv` |
| `SharedLemmas` | lemmas on descriptors, merges, powers of two and least elements | |

**Objects.**  The invariants are layers, each the one below with what the next
argument needs.

* `IInv` is `TypeOK` and `UniqueMapsNotShared`: without the second a unique map
  replaced in place could be one that another object, or a transition, still
  leads to.  Lemmas about the transitions of `Map` say what each does to the
  heap (`Evolves`: only the object's own unique map changes, or a map is
  appended; a shared map gains at most one transition), lemmas about the object
  operations that each is such a move, and `Lasting` that a map in use keeps
  what compiled code may rely on.
* `HeapInv` adds `Exact`: the offsets of a map's table and its free list are the
  slots `0 .. GetSlotsSize-1`, each once (`Placed`, with the cardinalities that
  `GetSlotsSize` counts), and a recorded transition leads to its map plus its
  property.  Two shared maps that grew apart could otherwise disagree about a
  slot after a `Flatten`.
* `SlotInv` adds `Fits`: storage reaches over the slots of the map, holds at each
  offset what the attributes say and `Empty` at the free ones, and is `Roomy`: a
  store that installs a map without reallocation stays inside.  This is where
  the smallest capacity must be a power of two.
* `RefInv` adds `Acyclic`, which makes the lookup along prototypes (`Holder`)
  well defined: the proofs reason with the set of objects from which a chain
  ends at a given one (`EndingAtIsSearch`), so that no recursion is expanded.
  Each action is then the action of `ObjectModel` of the same arguments under
  the mapping `Properties`, `Links`, `Opens`, or none.
* `GInv` adds `OneHome` and that a patched site describes the property it was
  patched for as long as the global object has the map it compares.
* `ICInv` adds `Opened` (an object that is closed has a unique map), and of each
  unit that its guards are maps that can no longer change, have or lack the name,
  and name the next object of the unit as their prototype (`LoadUnitOK`,
  `StoreUnitOK`).  These are statements about maps alone; `Lasting` keeps them
  for ever, and the guards that an object passes place them on its chain.
* `LazyInv` adds `Sides`, which relates the tables to the maps.  A map with a
  table has the entries in it, in a table that no other map in use has.  A map
  without one continues the map before it (`Continues`): it has those entries and
  what it adds itself, and it counted its slots when it was made.  The map before
  it can then not change, because it is shared, or was unique and was left
  before it had a table.  So the chain of any length that `AllocateTable` walks
  back is right at every map of it (`AllocateIs`, by the least wrong one), and
  writing into the table of a unique map shows in no other (`WrittenSides`).
  The transitions are stated of any heap of maps, as one of them goes through
  several: a new map, a table for it, a change of that table.

`SlotsStayMatched`, `MapsImplementObjects` and `CachesImplementObjects` assume
`InputsCarryValues`: no descriptor makes a data property without a value.  With
one that does, they are false: see `property.h:171` in section 6.

**Elements.**  `EInv` is `Whole` (`Stored`: sizes and memory in bounds; `Apart`:
a dense array has in its map only indices from `kMaxVectorSize` on, below length)
with `Tidy`: nothing at or above length, and nothing in the vector of a sparse
array.  Compiled stores break `Tidy`: they fill the vector of a sparse array and
holes above the length (section 6).  So `CInv`, the invariant of calls and
compiled stores together, is `Whole` alone, and `Tidy` is derived where a
compiled store claims to be a put, of a vector in order (`InOrder`).  That needs
`kMaxVectorSize` to be a capacity: otherwise a compiled store would grow the
vector over indices of the map.  The refinement of `ArrayModel` shows, call by
call, which one element, or which end of the array, the call changes
(`Defines`, `HasElement`, `CutAt`), in terms of the two representations, and once
for all that this is the change of the dictionary.  `CallsRefineArray` assumes
`ValuesGiven`, for the same reason as above.

**The stack.**  `ActivationsApart` speaks of the cells that activations ask for
now; what a caller asks for when its callee is gone is what a return has to find
again, so the invariant speaks of that.  The `Floor` of an activation is where
the cells end that it may ever ask for: all registers of a frame that called
native code, those before the window of one that called in place, nothing of a
list that a frame was entered with.  `StackInv` says that above the first frame
(`Above`) every floor lies below the beginning of each later activation
(`Ordered`) and below the stack pointer (`Covered`), and what may be on top of
what (`Sound`): a frame begins where its list does and keeps its own cells above
that list, and a list is never directly on a frame, so dropping one gives no
frame its registers back.  Two lemmas carry the steps: pushing an activation that
begins above the floors (`PushStacked`), and popping one when the stack pointer
is left above the end of the one below (`PopStacked`), which is what
`RestoreTo` takes the greater of two ends for.  That the collector sees each of
those cells needs no order at all: the last frame whose header begins at or below
the cell reaches over it (`MarkedUpToTop`).  The theorem holds for `told = "wild"`
too, as nothing steps from there.

**The weak map.**  That an answer is right depends on what a search passes, so
`WInv` (`Kept`) says, of every key in the table, that no place of its probe before
it is empty (`Reached`); and, of every living key that was not entered a second
time, that it is in one place at most (`Once`), is there exactly if it has an
entry, and has the value of that entry.  A quarter of the table is free; as the
probe of a key goes over every place (`ProbeCovers`, for any hash and size), `Set`
finds a place (`FreePlace`) and need not grow first.  Deletion and collection make
no place empty, which keeps `Reached`; a place a search sweeps held no living key.
`GrowForce` enters into a table without deleted or collected places (`Clean`),
where `Set` finds a key that is there before any free place: so every key is
in the new table once (`Copied`), and with its value if it was once in the old one.
The tables it goes through are a recursive function of the position; that there
is one is shown by its least counterexample (`GrowForceIs`), without induction
over data.

**Array built-ins.**  The callbacks of the loops may change the array in any way;
`LoopInv` says that the visits so far are those ES5 asks for at the indices
passed, and relates what a loop has gathered to them: `filter` by the rank of a
visit among the accepted ones.  For `sort` there are two invariants.

* `HeightInv` (`RangesHalved`): the range at height `h` of the stack is so short
  that `2^h` times its width is at most twice the widest.  The longer half is
  pushed first and worked on last, so the invariant survives (`SplitHalved`), and
  a stack of `kStackSize` ranges suffices for every length (`PowerAbove`).
* `OrderInv`: the array, with the element that insertion sort holds put where it
  would go (`Current`), is one exchange away from what it was after every step,
  so no element is lost and none doubled (`ExchangeKeeps`), whatever the
  comparison function answers.  With a consistent one, two places are in order
  unless one pending range has both, and no two pending ranges meet (`Waiting`,
  `Working`).  Within a range, `InsertOrdered` and `PartOrdered` say how far the
  insertion or the partition has come; the second also says what stops the two
  searches, as each leaves a sentinel for the other.

What is claimed of the order and the counts is claimed for arrays without holes
and for those that insertion sort takes whole (`Claimed`): on a longer one with
holes an exchange may lose an element or make undefined of a hole, as it takes
`j_is_hole` from i (section 6).

`pop`, `push`, `reverse`, `shift`, `unshift`, `slice`, `splice` and `concat` are one
step each, so `DirectInv` says little: the work is in what their loops compute,
for any number of elements.  Every loop is a recursive function of the places it
has passed (`MoveAll`, `DeleteAll`, `Put`, `ExchangeAll`), and what it has done by
then is proved by the least place where it would not hold (`Reaches`,
`Recursion`), without induction over data.

* A loop of moves that goes up when the elements move down, and down when they
  move up, reads no place it has already written (`Unmoved`): so all have moved,
  or the loop has failed after some of them and every element is at its old place
  or at its new one (`MovesHold`, `Carried`).
* Of every function that moves elements: those before `from` stay, those from `lo`
  on move by `d`, the new ones stand between, and the length follows; what failed
  on the way has left each element that stays at one of its two places
  (`Prepared`, `Filled`, `Rebuilt`).
* As a sequence this is a part, the new elements, and the rest (`Around`), which
  is what ES5 says of each (`PopAnswers` to `ConcatAnswers`).

Only model-checked, because a recursive operator puts the module out of the
prover's reach, or the claim is about what a recursion computes for every input:
the compilers and machines of statements and expressions, names and regular
expressions.  Only model-checked, because it is liveness: `CallsReturn`,
`CallsEnd`.

## 5. Not modelled

* Setters and getters as running scripts: what they do is a sequence of the
  actions here, and the code re-reads nothing after a call.
* `Object.freeze` and `Object.seal`, which are sequences of the actions here;
  `JSVector`; arrays copied from one literal, which share its sparse map.
* Objects that override own-property methods, other than the global object.
* Cyclic prototype chains: `Reflect.setPrototypeOf` does not look for a cycle,
  and a lookup on one would not return.
* `StoreReplacePropertyWithMapTransition`: a put never changes attributes, so
  `STORE_PROP` never generates it.
* `delete`, accessors in literals and invalid left sides in expressions; the
  values of bindings; function statements in blocks.
* Simple patterns (`simple_case.h`), which bypass the regular expression machine;
  replacement functions; the machine code of breaker and aero.
* The interpreter's own caches, the eval cache, which names for-in collects, the
  iterators of Map and Set, radio, JSON, the front end: see section 1 and the
  components of `PROJECT.json`.

## 6. Findings

Two that a run shows:

* `property.h:171` (`descriptor_stale`): redefining an accessor as a data
  property without a value keeps the internal `Accessor` cell as the value, where
  8.12.9, which the comment names, makes it undefined.
  `MergeMatchesES5WithValue` is the same property without that case.
* `railgun/vm.h:2182` (`statements_handler_hidden`): the search of the exception
  table gives up at the first handler that begins after the throw, once an
  iterator or environment handler was in range, so the handler that should catch
  can be passed by.  `CompletesWhenHandlersFound` is the same property of the
  programs in which it is not.

Departures from ECMAScript 5, or from what a comment or an assertion says, that
the models contain or that were met while reading, and that no run singles out.

Objects and arrays:

* Capacity: a compiled store that does not resize relies on the smallest capacity
  being a power of two (it is 8, `utils.h:126`); compiled stores of elements on
  `kMaxVectorSize` (65536) being a capacity itself.  Nothing in the code says so.
* `jsobject.h:322` (571): the array fast path of a put extends an array whose
  length is read-only.  `jsobject.h:534` (579): deleting the last element of the
  map makes the elements of an object that is not extensible dense again, and
  the fast path then adds elements.  `jsarray.h:273`: a dense array that is
  shortened drops the map, locked elements included.  `jsarray.h:302`: a big
  shrink deletes every element, those below the new length too, or stops at a
  locked one below it.  These are the four that `CallsAreArrayCalls` excepts.
* `breaker/compiler.cc:1541`: neither the guard nor the map tells a sparse array
  from a dense one, so a compiled store fills the vector of a sparse array behind
  the back of its map.  `breaker/poly_ic.h:677`: growth by a unit makes left-over
  memory between the old size and the index into elements.
  `breaker/poly_ic.h:650`: a unit fills a hole at or above the length and leaves
  the length.  `CompiledStoreIsPut` asks for a vector in order.
* `array.cc:683`: sort with an inconsistent comparison of more than twenty
  elements does not end; `array.cc:795` takes `j_is_hole` from i; unshift and
  splice wrap the length at 2^32; reverse may lose a value when it fails half-way.
* `jsweak_map.h:45`: `Set` enters a key a second time at a deleted place before
  its own (`twice` in `WeakMap`).
* `property_names_collector.h:72`, `jsobject.h:432`: shadowed names are collected
  twice, a non-enumerable own property does not shadow, and the order follows
  reused offsets.  `map.cc:94`: `forEach` keeps iterators across callbacks.
  `jsvector.h:133`: `ToJSArray` inserts `JSEmpty` as holes.

Stack and interpreter:

* `stack.h:206`: `GainFrame` that overflows with missing arguments writes at the
  null pointer plus their number (`told = "wild"`).  Unwinding with no frame below
  restores the base of the stack although argument lists of the embedder are alive.
* `compiler_statement.h:443`: `continue` to an outer loop directly over a for-in
  skips `FORIN_LEAVE`.  `vm.h:760`: `DELETE_PROP` writes its destination before
  the deletion can throw.  The eval cache ignores the strictness of its caller
  (`railgun/runtime.h:110`).

Expressions (`ExpressionMachine` lists them as `Departs`):

* `x + f(++x)`: a prefix increment is no `SideEffect` (`ast.h:1114`), so the spill
  happens over the window of the call (assertion `compiler_expression.h:1276`).
* `x + (y ? (x = 1) : h)`, `x + (h && (x = 1))`: the spill happens in one arm only.
* `x = h || x`, `x = x++ && h`; `x = x++` gives the old value plus one;
  `x = a && f()` and `x = ++g` show a changed x when they throw.
* `c++` on an immutable local (`vm.h:1821`).

Scopes:

* Values of declarations and targets of for-in inside `with` are stored by name,
  although the variable may live in a register.
* A direct eval inside `with` or `catch` is recorded on that environment alone
  (`environment.h:41`), so a function with no names of its own gets no heap scope
  although `arguments` is there (assertion `operation.h:102`), and a variable that
  eval declares leaks outwards.  Strict eval code that calls eval and has no
  variables fails the assertion `compiler.h:719`.
* A variable that eval declares with the name of the function expression assigns
  the immutable name; a function statement of that name is lost.

Regular expressions:

* The quick check ignores an empty alternative (`quick_check.h:28`); `?` has no
  test for an empty iteration; `ExecGlobal` breaks before it pushes when
  `previous_index` is beyond the end (`jsregexp.h:242`); `$00` inserts the whole
  match; lastIndex after an empty global match is the end plus one.

Parser (not modelled): the constructor of `Target` sets `labels_` to null and
never restores it, so `L: if (a) {} else break L;` is rejected and duplicate
labels are missed; `ExpectSemicolon` accepts a newline before it looks for `;`;
`NextIsColon` does not skip comments.

## 7. Plan

1. Models: copies of a literal array; the interpreter's own caches over
   `HiddenClass`; the eval cache; which names for-in collects; the iterators of
   Map and Set.
2. Proofs: names and the register allocation, once their recursive operators are
   recursive functions over the trees of a bounded depth.
