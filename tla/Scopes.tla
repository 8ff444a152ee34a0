------------------------------- MODULE Scopes -------------------------------
(***************************************************************************)
(* Where the compiled code of a program finds its variables: the analysis  *)
(* of the names while parsing (environment.h, Scope in ast.h), the places  *)
(* the compiler gives them (lv5/railgun/scope.h) and the environments that *)
(* exist when the code runs (JSDeclEnv and the others of lv5/jsenv.h).     *)
(*                                                                         *)
(* A program is a sequence of items.  Declarations that have a value, and  *)
(* the targets of for-in declarations, are the item "var"; what does not   *)
(* name anything is left out.                                              *)
(***************************************************************************)
EXTENDS Integers, SequencesExt

CONSTANT Names  \* of variables

Use(x) == [k |-> "use", x |-> x]
Var(x) == [k |-> "var", x |-> x]
DirectEval == [k |-> "eval"]
With(body) == [k |-> "with", body |-> body]
Catch(x, body) == [k |-> "catch", x |-> x, body |-> body]
\* form: "declaration" or "expression", "" for a name that is not there.
\* evalDecl: strict eval code, which is compiled like a function.
Function(form, name, params, strict, body) ==
  [k |-> "function", form |-> form, x |-> name, params |-> params, strict |-> strict,
   evalDecl |-> FALSE, body |-> body]
StrictEvalCode(body) ==
  [k |-> "function", form |-> "evaluated", x |-> "", params |-> <<>>, strict |-> TRUE,
   evalDecl |-> TRUE, body |-> body]

Arguments == "arguments"
RangeOf(s) == {s[i] : i \in DOMAIN s}
Blocks == {"with", "catch"}

-----------------------------------------------------------------------------
(* Scope: what the parser records of a function.                           *)

\* The items of a body that belong to the function, in with and catch too.
RECURSIVE OwnItems(_)
OwnItems(body) ==
  UNION {IF i.k \in Blocks THEN {i} \cup OwnItems(i.body) ELSE {i} : i \in RangeOf(body)}

RECURSIVE EvalWithin(_)
\* Environment::RecordDirectCallToEval, for those above.
EvalWithin(body) ==
  \E i \in RangeOf(body) : i.k = "eval" \/ (i.k \in Blocks \cup {"function"} /\ EvalWithin(i.body))

RECURSIVE VariablesOf(_)
VariablesOf(body) ==  \* AddUnresolved, in the order of the text
  FoldLeft(LAMBDA vars, i : vars \o (CASE i.k = "var" -> <<i.x>>
                                       [] i.k \in Blocks -> VariablesOf(i.body)
                                       [] OTHER -> <<>>), <<>>, body)
Declares(i) == i.k = "function" /\ i.form = "declaration"
DeclarationsOf(body) ==
  LET decls == SelectSeq(body, Declares) IN [i \in DOMAIN decls |-> decls[i].x]

HasDirectEval(f) == DirectEval \in OwnItems(f.body)
HasArguments(f) == Use(Arguments) \in OwnItems(f.body)
HidingArguments(f) == Arguments \in RangeOf(f.params) \cup RangeOf(DeclarationsOf(f.body))
IsArgumentsRealized(f) == ~HidingArguments(f) /\ (HasArguments(f) \/ HasDirectEval(f))
IsParametersInHeap(f) == IsArgumentsRealized(f) /\ ~f.strict

\* RollUp: each name once, with the name of a function expression if it is
\* not another's.
ExposedName(f) == IF f.form = "expression" /\ f.x # "" /\ f.x # Arguments THEN <<f.x>> ELSE <<>>
AssignedsOf(f) ==
  LET once(names, x) == IF Contains(names, x) THEN names ELSE Append(names, x)
  IN FoldLeft(once, <<>>, Reverse(f.params) \o DeclarationsOf(f.body) \o VariablesOf(f.body)
                          \o ExposedName(f))
IsFunctionName(f, x) ==
  /\ x \in RangeOf(ExposedName(f))
  /\ x \notin RangeOf(f.params \o DeclarationsOf(f.body) \o VariablesOf(f.body))
Immutable(f, x) ==
  IF x = Arguments THEN ~HidingArguments(f) /\ f.strict ELSE IsFunctionName(f, x)

-----------------------------------------------------------------------------
(* Environment: the names a body refers to, and whether they must be kept   *)
(* on the heap, as they reach the environment of its function.             *)
Raised(refs) == {<<r[1], TRUE>> : r \in refs}

\* Mutant: a name used in a with statement is like any other.
ThroughWithAsIs(refs) == refs
ThroughWith(refs) == Raised(refs)

RECURSIVE Referenced(_)

\* Resolve and Propagate: what a function leaves to those above.
Unresolved(f) ==
  LET own == RangeOf(AssignedsOf(f)) \cup {Arguments}
  IN Raised({r \in Referenced(f.body) : r[1] \notin own})

Referenced(body) ==
  UNION {CASE i.k = "use" -> {<<i.x, FALSE>>}
           [] i.k = "with" -> ThroughWith(Referenced(i.body))
           [] i.k = "catch" -> {r \in Referenced(i.body) : r[1] # i.x}
           [] i.k = "function" -> Unresolved(i)
           [] OTHER -> {} : i \in RangeOf(body)}

IsReferenced(f, x) == x \in RangeOf(f.params) \/ \E r \in Referenced(f.body) : r[1] = x
IsHeap(f, x) ==
  \/ <<x, TRUE>> \in Referenced(f.body)
  \/ x \in RangeOf(f.params) /\ IsParametersInHeap(f)
ArgumentsIsHeap(f) ==
  Arguments \notin RangeOf(AssignedsOf(f)) /\ <<Arguments, TRUE>> \in Referenced(f.body)

\* The call is recorded for the environment around it, a with or a catch too.
NeedsHeapScope(f) ==
  CASE ArgumentsIsHeap(f) -> TRUE
    [] DirectEval \in RangeOf(f.body) -> TRUE
    [] EvalWithin(f.body) -> AssignedsOf(f) # <<>>
    [] OTHER -> \E x \in RangeOf(AssignedsOf(f)) : IsHeap(f, x)
-----------------------------------------------------------------------------
(* VariableScope: the scopes around a place in the code, innermost first.   *)
Info(type, at, nest, immutable) == [type |-> type, at |-> at, nest |-> nest, immutable |-> immutable]
NewLookup == Info("LOOKUP", 0, 0, FALSE)
NewGlobal == Info("GLOBAL", 0, 0, FALSE)
NewUnused == Info("UNUSED", 0, 0, FALSE)

IndexIn(s, x) == CHOOSE i \in DOMAIN s : s[i] = x
LastIndexIn(s, x) == CHOOSE i \in DOMAIN s : s[i] = x /\ \A j \in DOMAIN s : s[j] = x => j <= i

\* CodeScope<FUNCTION>: the heap variables, those that do not change first,
\* and the registers.
HeapVariables(f) ==
  LET kept(x) == IsHeap(f, x) \/ EvalWithin(f.body)
      own == SelectSeq(AssignedsOf(f), kept)
      all == IF /\ ~f.evalDecl /\ Arguments \notin RangeOf(AssignedsOf(f))
                /\ ArgumentsIsHeap(f) \/ HasDirectEval(f)
             THEN Append(own, Arguments) ELSE own
  IN SelectSeq(all, LAMBDA x : Immutable(f, x)) \o SelectSeq(all, LAMBDA x : ~Immutable(f, x))
LocalVariables(f) ==
  LET stays(x) == IsReferenced(f, x) /\ x \notin RangeOf(HeapVariables(f) \o f.params)
      own == SelectSeq(AssignedsOf(f), stays)
  IN IF /\ ~f.evalDecl /\ Arguments \notin RangeOf(AssignedsOf(f) \o HeapVariables(f))
        /\ HasArguments(f)
     THEN Append(own, Arguments) ELSE own
PlaceOf(f, nest, x) ==
  CASE x \in RangeOf(HeapVariables(f)) -> Info("HEAP", IndexIn(HeapVariables(f), x), nest, Immutable(f, x))
    [] x \in RangeOf(f.params) \ RangeOf(HeapVariables(f)) ->
         Info("STACK", -LastIndexIn(f.params, x), 0, Immutable(f, x))
    [] x \in RangeOf(LocalVariables(f)) -> Info("STACK", IndexIn(LocalVariables(f), x), 0, Immutable(f, x))
    [] OTHER -> NewUnused

GlobalScope == [k |-> "global", nest |-> 0]
EvalScope == [k |-> "evaluated", nest |-> 0]
WithScope(up, id) == <<[k |-> "with", id |-> id, nest |-> up[1].nest + 1]>> \o up
CatchScope(up, id, x) == <<[k |-> "catch", id |-> id, x |-> x, nest |-> up[1].nest + 1]>> \o up
FunctionScope(up, id, f) ==
  LET nest == up[1].nest + (IF NeedsHeapScope(f) THEN 1 ELSE 0)
      names == RangeOf(AssignedsOf(f) \o HeapVariables(f) \o LocalVariables(f))
  IN <<[k |-> "function", id |-> id, nest |-> nest, f |-> f, env |-> NeedsHeapScope(f),
        heap |-> HeapVariables(f), map |-> [x \in names |-> PlaceOf(f, nest, x)],
        eval |-> HasDirectEval(f)]>> \o up

RECURSIVE Lookup(_, _)
Lookup(scopes, x) ==
  LET s == scopes[1]
  IN CASE s.k \in {"with", "evaluated"} -> NewLookup
       [] s.k = "global" -> NewGlobal
       [] s.k = "catch" /\ s.x = x -> NewLookup
       [] s.k = "function" /\ x \in DOMAIN s.map -> s.map[x]
       [] s.k = "function" /\ x \notin DOMAIN s.map /\ s.eval -> NewLookup
       [] OTHER -> Lookup(Tail(scopes), x)

-----------------------------------------------------------------------------
(* Every place where compiled code reaches a variable, with its scopes.     *)
Place(op, x, scopes) == [op |-> op, x |-> x, info |-> Lookup(scopes, x), scopes |-> scopes]

RECURSIVE PlacesIn(_, _, _)
PlacesOf(i, scopes, id) ==
  CASE i.k = "use" -> {Place("load", i.x, scopes)}
    [] i.k = "var" -> {Place("store", i.x, scopes)}
    [] i.k = "eval" ->
         {[op |-> "load", x |-> x, info |-> NewLookup, scopes |-> scopes] : x \in Names \cup {Arguments}}
    [] i.k = "with" -> PlacesIn(i.body, WithScope(scopes, id), id)
    [] i.k = "catch" -> PlacesIn(i.body, CatchScope(scopes, id, i.x), id)
    [] i.k = "function" -> PlacesIn(i.body, FunctionScope(scopes, id, i), id)
                           \cup {Place("store", x, scopes) : x \in IF Declares(i) THEN {i.x} ELSE {}}
PlacesIn(body, scopes, id) ==
  UNION {PlacesOf(body[i], scopes, Append(id, i)) : i \in DOMAIN body}

\* Code of one of the kinds: global code, eval code of a function, and strict
\* eval code, which is compiled as a function of its own.
CompiledCode(kind, body) ==
  CASE kind = "global" -> PlacesIn(body, <<GlobalScope>>, <<>>)
    [] kind = "eval" -> PlacesIn(body, <<EvalScope>>, <<>>)
    [] kind = "strict eval" -> PlacesIn(body, FunctionScope(<<EvalScope>>, <<>>, StrictEvalCode(body)), <<>>)

-----------------------------------------------------------------------------
VARIABLES
  code,        \* [kind, body]
  places,      \* what the compiler made of it
  held,        \* the names that the object of each with statement has
  introduced   \* the variables that eval code added to each function

svars == <<code, places, held, introduced>>

(* Environments at run time, innermost first.  A binding is an environment  *)
(* and a name.                                                             *)
Global == <<0>>
Caller == <<-1>>  \* the function whose eval code it is
CallerNames == Names \cup {Arguments}
ScopesOf(kind) == {s \in UNION {RangeOf(p.scopes) : p \in places} : s.k = kind}
FlatMap(f(_), q) == FoldLeft(LAMBDA acc, y : acc \o f(y), <<>>, q)

OwnBinding(s, x) == <<IF IsFunctionName(s.f, x) THEN Append(s.id, 0) ELSE s.id, x>>
EnvOf(s) ==
  CASE s.k = "function" -> IF s.env THEN <<s>> ELSE <<>>
    [] s.k = "evaluated" -> <<[s EXCEPT !.k = "caller"], GlobalScope>>
    [] OTHER -> <<s>>
HasBinding(e, x) ==
  CASE e.k = "with" -> x \in held[e.id]
    [] e.k = "catch" -> x = e.x
    [] e.k = "function" -> x \in RangeOf(e.heap) \cup introduced[e.id]
    [] e.k = "caller" -> x \in CallerNames
    [] OTHER -> TRUE
BindingIn(e, x) ==
  CASE e.k \in {"with", "catch"} -> <<e.id, x>>
    [] e.k = "function" -> IF x \in RangeOf(e.heap) THEN OwnBinding(e, x) ELSE <<e.id, x>>
    [] e.k = "caller" -> <<Caller, x>>
    [] OTHER -> <<Global, x>>
\* GetEnv
ByName(envs, x) ==
  BindingIn(envs[CHOOSE i \in DOMAIN envs : /\ HasBinding(envs[i], x)
                                            /\ \A j \in 1..(i - 1) : ~HasBinding(envs[j], x)], x)

\* The binding that the code reaches; none if it reaches nothing it should.
NoBinding == <<<<>>, "">>
InRegister(p) ==
  LET s == SelectSeq(p.scopes, LAMBDA t : t.k = "function")[1]
  IN IF {x \in DOMAIN s.map : s.map[x].type = "STACK" /\ s.map[x].at = p.info.at} = {p.x}
     THEN OwnBinding(s, p.x) ELSE NoBinding
\* GetHeapEnv, GetByOffset
InEnvironment(p, envs) ==
  LET k == 1 + p.scopes[1].nest - p.info.nest
  IN IF k \in DOMAIN envs /\ envs[k].k = "function" /\ p.info.at \in DOMAIN envs[k].heap
     THEN OwnBinding(envs[k], envs[k].heap[p.info.at]) ELSE NoBinding
Reached(p) ==
  LET envs == FlatMap(EnvOf, p.scopes)
  IN CASE p.info.type = "STACK" -> InRegister(p)
       [] p.info.type = "HEAP" -> InEnvironment(p, envs)
       [] p.info.type = "GLOBAL" -> <<Global, p.x>>
       [] p.info.type = "LOOKUP" -> ByName(envs, p.x)
       [] p.info.type = "UNUSED" -> NoBinding

-----------------------------------------------------------------------------
(* What ECMAScript 5 says (10.2 to 10.5, 13): every function has an         *)
(* environment with all its names, inside one with its own name.           *)
DeclaredNames(f) ==
  RangeOf(f.params \o DeclarationsOf(f.body) \o VariablesOf(f.body))
  \cup IF f.evalDecl THEN {} ELSE {Arguments}
Binds(s, x) ==
  CASE s.k = "with" -> IF x \in held[s.id] THEN <<s.id>> ELSE <<>>
    [] s.k = "catch" -> IF x = s.x THEN <<s.id>> ELSE <<>>
    [] s.k = "function" ->
         IF x \in DeclaredNames(s.f) \cup introduced[s.id] THEN <<s.id>>
         ELSE IF s.f.form = "expression" /\ x = s.f.x THEN <<Append(s.id, 0)>> ELSE <<>>
    [] s.k = "evaluated" -> <<IF x \in CallerNames THEN Caller ELSE Global>>
    [] OTHER -> <<Global>>
Binding(p) == <<FlatMap(LAMBDA s : Binds(s, p.x), p.scopes)[1], p.x>>

-----------------------------------------------------------------------------
CONSTANT Programs  \* [kind, body] records

SInit ==
  /\ code \in Programs
  /\ places = {} /\ held = <<>> /\ introduced = <<>>

Compile ==
  /\ places = {}
  /\ places' = CompiledCode(code.kind, code.body)
  /\ places' # {}
  /\ LET all == UNION {RangeOf(p.scopes) : p \in places'}
     IN /\ held' = [id \in {s.id : s \in {t \in all : t.k = "with"}} |-> {}]
        /\ introduced' = [id \in {s.id : s \in {t \in all : t.k = "function"}} |-> {}]
  /\ UNCHANGED code

\* The object of a with statement gains or loses a property.
ObjectChanges(id, x) ==
  /\ held' = [held EXCEPT ![id] = IF x \in @ THEN @ \ {x} ELSE @ \cup {x}]
  /\ UNCHANGED <<code, places, introduced>>

\* INSTANTIATE_VARIABLE_BINDING of eval code called from the function itself,
\* and delete of such a variable.  Left out: a variable with the name of a
\* function expression, which shares the environment (README, section 6).
EvalDeclares(s, x) ==
  /\ s.eval /\ ~s.f.strict
  /\ x \notin DeclaredNames(s.f) \cup introduced[s.id] \cup RangeOf(ExposedName(s.f))
  /\ introduced' = [introduced EXCEPT ![s.id] = @ \cup {x}]
  /\ UNCHANGED <<code, places, held>>
EvalDeletes(id, x) ==
  /\ x \in introduced[id]
  /\ introduced' = [introduced EXCEPT ![id] = @ \ {x}]
  /\ UNCHANGED <<code, places, held>>

SNext ==
  \/ Compile
  \/ \E id \in DOMAIN held, x \in Names : ObjectChanges(id, x)
  \/ \E s \in ScopesOf("function"), x \in Names : EvalDeclares(s, x)
  \/ \E id \in DOMAIN introduced, x \in Names : EvalDeletes(id, x)

SSpec == SInit /\ [][SNext]_svars

\* Whatever objects in with statements hold and eval code adds or deletes,
\* the register, offset of an environment or name that was chosen when the
\* code was compiled is the binding that ECMAScript 5 would find at that
\* moment, as mutable as that one; and a value is thrown away only if nothing
\* can read it.
NamesResolve ==
  \A p \in places :
    \/ /\ Reached(p) = Binding(p)
       /\ p.info.type \in {"STACK", "HEAP"} =>
            (p.info.immutable <=> \E s \in ScopesOf("function") :
                \/ Binding(p) = <<Append(s.id, 0), p.x>>
                \/ Binding(p) = <<s.id, Arguments>> /\ s.f.strict)
    \/ /\ p.op = "store" /\ p.info.type = "UNUSED"
       /\ \A q \in places : q.op = "load" => Binding(q) # Binding(p)
=============================================================================
