----------------------------- MODULE Statements -----------------------------
(***************************************************************************)
(* Statements (ast.h) and how ECMAScript 5, 12, says they complete: what   *)
(* the bytecode of railgun's compiler has to do.  A program observes       *)
(* statements through what it logs, so a completion carries the log, the   *)
(* number of conditions that were decided and the depth of environments.   *)
(***************************************************************************)
EXTENDS Integers, Sequences, SequencesExt

\* Leaves.  The target of a jump is the id of a statement around it; the parser
\* leaves "label: break label;" without a target.
NoTarget == 0
Log(n) == [k |-> "log", n |-> n]
Return(n) == [k |-> "return", n |-> n]
Throw(n) == [k |-> "throw", n |-> n]
Break(id) == [k |-> "break", id |-> id]
Continue(id) == [k |-> "continue", id |-> id]
Empty == [k |-> "empty"]

\* A condition is "true" or "false" when it is a literal, otherwise "?".
Block(id, list) == [k |-> "block", id |-> id, list |-> list]
If(cond, then, else) == [k |-> "if", cond |-> cond, then |-> then, else |-> else]
While(id, cond, body) == [k |-> "while", id |-> id, cond |-> cond, body |-> body]
DoWhile(id, body) == [k |-> "dowhile", id |-> id, body |-> body]
For(id, cond, next, body) == [k |-> "for", id |-> id, cond |-> cond, next |-> next, body |-> body]
ForIn(id, names, body) == [k |-> "forin", id |-> id, names |-> names, body |-> body]
With(ok, body) == [k |-> "with", ok |-> ok, body |-> body]
Case(test, body) == [test |-> test, body |-> body]   \* test is FALSE for default
Switch(id, clauses) == [k |-> "switch", id |-> id, clauses |-> clauses]
Try(body, catch, finally) == [k |-> "try", body |-> body, catch |-> catch, finally |-> finally]

NotIterable == -1    \* the names of null and undefined
TypeError == 99      \* what "with" throws of null and undefined
Nothing == <<>>      \* no else, catch or finally; otherwise a sequence of one

RECURSIVE IsEffective(_)
IsEffective(s) == CASE s.k = "empty" -> FALSE
                    [] s.k = "block" -> \E i \in DOMAIN s.list : IsEffective(s.list[i])
                    [] OTHER -> TRUE

-----------------------------------------------------------------------------
(* The reference.  x is [taken, used, trace, fuel]: the answers of the      *)
(* conditions, how many were used, the log, and the steps a run may take.   *)
Normal(x) == [x |-> x, t |-> "normal", v |-> 0]
Abrupt(x, t, v) == [x |-> x, t |-> t, v |-> v]
Answer(x) == x.used < Len(x.taken) /\ x.taken[x.used + 1]
Asked(x) == [x EXCEPT !.used = @ + 1, !.fuel = @ - 1]
Logged(x, n, env) == [x EXCEPT !.trace = Append(@, <<n, env>>), !.fuel = @ - 1]
Leaves(c, id) == c.t = "break" /\ c.v = id
GoesOn(c, id) == c.t = "normal" \/ (c.t = "continue" /\ c.v = id)

RECURSIVE Complete(_, _, _)

InTurn(body, x, env) ==
  FoldLeft(LAMBDA c, s : IF c.t = "normal" THEN Complete(s, c.x, env) ELSE c, Normal(x), body)

\* A loop that asks "again" and then runs its body.
Decide(cond, x) == IF cond = "?" THEN [b |-> Answer(x), x |-> Asked(x)]
                   ELSE [b |-> cond = "true", x |-> [x EXCEPT !.fuel = @ - 1]]
Then(c, f(_)) == f(c)

RECURSIVE Loop(_, _, _, _)
Loop(s, x, env, first) ==
  LET cond == IF s.k = "dowhile" THEN "?" ELSE s.cond
      d == IF first THEN [b |-> TRUE, x |-> x] ELSE Decide(cond, x)
      advance(y) == IF s.k = "for" /\ s.next # 0 THEN Logged(y, s.next, env) ELSE y
      after(c) == IF Leaves(c, s.id) THEN Normal(c.x)
                  ELSE IF GoesOn(c, s.id) THEN Loop(s, advance(c.x), env, FALSE)
                  ELSE c
  IN IF x.fuel < 0 THEN Abrupt(x, "endless", 0)
     ELSE IF ~d.b THEN Normal(d.x)
     ELSE Then(Complete(s.body, d.x, env), after)

\* The names of a for-in are 1, 2, ...; each is logged when it is assigned.
RECURSIVE Each(_, _, _, _)
Each(s, i, x, env) ==
  LET after(c) == IF Leaves(c, s.id) THEN Normal(c.x)
                  ELSE IF GoesOn(c, s.id) THEN Each(s, i + 1, c.x, env)
                  ELSE c
  IN IF i > s.names THEN Normal(x)
     ELSE Then(Complete(s.body, Logged(x, 10 * s.id + i, env), env), after)

\* The clause a switch starts at: tests in order, then default.
RECURSIVE Tested(_, _, _)
Tested(clauses, i, x) ==
  LET default == {j \in DOMAIN clauses : ~clauses[j].test}
  IN IF i > Len(clauses)
     THEN [at |-> IF default = {} THEN Len(clauses) + 1 ELSE CHOOSE j \in default : TRUE, x |-> x]
     ELSE IF ~clauses[i].test THEN Tested(clauses, i + 1, x)
     ELSE IF Answer(x) THEN [at |-> i, x |-> Asked(x)]
     ELSE Tested(clauses, i + 1, Asked(x))

Complete(s, x, env) ==
  CASE s.k = "log" -> Normal(Logged(x, s.n, env))
    [] s.k = "empty" -> Normal(x)
    [] s.k = "return" -> Abrupt(x, "return", s.n)
    [] s.k = "throw" -> Abrupt(x, "throw", s.n)
    [] s.k = "break" -> IF s.id = NoTarget THEN Normal(x) ELSE Abrupt(x, "break", s.id)
    [] s.k = "continue" -> Abrupt(x, "continue", s.id)
    [] s.k = "block" ->
         Then(InTurn(s.list, x, env), LAMBDA c : IF Leaves(c, s.id) THEN Normal(c.x) ELSE c)
    [] s.k = "if" ->
         Then(Decide(s.cond, x), LAMBDA d : IF d.b THEN Complete(s.then, d.x, env)
                                            ELSE InTurn(s.else, d.x, env))
    [] s.k \in {"while", "for"} -> Loop(s, x, env, FALSE)
    [] s.k = "dowhile" -> Loop(s, x, env, TRUE)
    [] s.k = "forin" -> Each(s, 1, x, env)
    [] s.k = "with" -> IF s.ok THEN Complete(s.body, x, env + 1) ELSE Abrupt(x, "throw", TypeError)
    [] s.k = "switch" ->
         Then(Tested(s.clauses, 1, x), LAMBDA d :
           Then(InTurn(FoldLeft(LAMBDA acc, i : acc \o s.clauses[i].body, <<>>,
                               [j \in 1..(Len(s.clauses) - d.at + 1) |-> d.at + j - 1]),
                       d.x, env),
                LAMBDA c : IF Leaves(c, s.id) THEN Normal(c.x) ELSE c))
    [] s.k = "try" ->
         Then(Complete(s.body, x, env), LAMBDA b :
         Then(IF b.t = "throw" /\ s.catch # Nothing
              THEN Complete(s.catch[1], Logged(b.x, b.v, env + 1), env + 1) ELSE b, LAMBDA c :
           IF s.finally = Nothing \/ c.t = "endless" THEN c
           ELSE Then(Complete(s.finally[1], c.x, env),
                     LAMBDA f : IF f.t = "normal" THEN [c EXCEPT !.x = f.x] ELSE f)))
=============================================================================
