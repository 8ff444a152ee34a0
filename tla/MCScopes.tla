------------------------------ MODULE MCScopes ------------------------------
(***************************************************************************)
(* Functions of two items inside global, eval and strict eval code; items  *)
(* are uses of and assignments to two names and arguments, direct calls of *)
(* eval, functions with a body of one item, and with and catch around      *)
(* them.                                                                   *)
(***************************************************************************)
EXTENDS Scopes

MCNames == {"x", "y"}

Leaves == {Use("x"), Use("y"), Use(Arguments), Var("x"), DirectEval}
Inner ==
  {Function(form, name, params, FALSE, <<i>>) :
     form \in {"declaration", "expression"}, name \in {"x", "y"},
     params \in {<<>>, <<"x">>}, i \in Leaves}
Small == Leaves \cup Inner
Enclosed == {i \in Small : ~Declares(i)}
Items == Small \cup {With(<<i>>) : i \in Enclosed} \cup {Catch("x", <<i>>) : i \in Enclosed}
Outer ==
  {Function("expression", name, params, FALSE, <<i, j>>) :
     name \in {"", "x"}, params \in {<<>>, <<"x">>, <<"y", "x", "y">>}, i \in Leaves, j \in Items}

RECURSIVE FunctionsIn(_)
FunctionsIn(body) ==
  UNION {CASE i.k \in Blocks -> FunctionsIn(i.body)
           [] i.k = "function" -> {i} \cup FunctionsIn(i.body)
           [] OTHER -> {} : i \in RangeOf(body)}

\* Two things that the parser does not record (README, section 6): a value
\* declared under with for a variable that is not on the heap, and, for the
\* function around it, a direct call of eval in with or catch.
DeclaredUnderWith(f) ==
  {x \in Names : \E i \in OwnItems(f.body) : i.k = "with" /\ Var(x) \in OwnItems(i.body)}
Recorded(f) ==
  /\ EvalWithin(f.body) \/ \A x \in DeclaredUnderWith(f) : IsHeap(f, x)
  /\ HasDirectEval(f) => NeedsHeapScope(f)

MCPrograms ==
  {p \in {[kind |-> kind, body |-> <<f>>] : kind \in {"global", "eval"}, f \in Outer}
         \cup {[kind |-> "strict eval", body |-> <<i, j>>] : i \in Leaves, j \in Small} :
     \A f \in FunctionsIn(p.body) : Recorded(f)}
=============================================================================
