---------------------------- MODULE Expressions ----------------------------
(***************************************************************************)
(* Expressions as the parser hands them to railgun's compiler (ast.h), what *)
(* the compiler asks about them beforehand (SideEffect, Analyzer::IsString), *)
(* and what ES5, 11, says they evaluate to.  Values are terms that say where *)
(* they come from, so that two orders of evaluation give different terms.   *)
(***************************************************************************)
EXTENDS Integers, SequencesExt

Stack == {"x", "y", "c"}       \* locals in registers; c cannot be assigned
Names == Stack \cup {"h", "g"} \* h is captured by a closure, g is global

Literal(v) == [k |-> "literal", v |-> v]
One == Literal(<<"num", 1>>)
Text == Literal(<<"str", "s">>)
Id(n) == [k |-> "id", n |-> n]
Assign(op, l, r) == [k |-> "assign", op |-> op, left |-> l, right |-> r]
Bin(op, l, r) == [k |-> "binary", op |-> op, left |-> l, right |-> r]
Cond(c, l, r) == [k |-> "cond", cond |-> c, left |-> l, right |-> r]
Unary(op, e) == [k |-> "unary", op |-> op, expr |-> e]
Postfix(e) == [k |-> "postfix", expr |-> e]
Index(t, key) == [k |-> "index", target |-> t, key |-> key]
Call(t, args) == [k |-> "call", target |-> t, args |-> args]
Array(items) == [k |-> "array", items |-> items]
Object(values) == [k |-> "object", items |-> values]   \* of the keys in KeyOf
Function == [k |-> "function"]

\* What is evaluated within e, in order.
Parts(e) ==
  CASE e.k \in {"assign", "binary"} -> <<e.left, e.right>>
    [] e.k = "cond" -> <<e.cond, e.left, e.right>>
    [] e.k \in {"unary", "postfix"} -> <<e.expr>>
    [] e.k = "index" -> <<e.target, e.key>>
    [] e.k = "call" -> <<e.target>> \o e.args
    [] e.k \in {"array", "object"} -> e.items
    [] OTHER -> <<>>

\* SideEffect: a prefix increment has none of its own.
RECURSIVE SideEffect(_)
SideEffect(e) ==
  \/ e.k = "assign" /\ e.left.k = "id"
  \/ e.k = "postfix" /\ e.expr.k = "id"
  \/ \E i \in DOMAIN Parts(e) : SideEffect(Parts(e)[i])

\* Analyzer::IsString: of a sum it looks at the left operand only, twice.
RECURSIVE IsString(_)
IsString(e) ==
  CASE e.k = "literal" -> e.v[1] = "str"
    [] e.k = "assign" -> IsString(IF e.op = "=" THEN e.right ELSE e.left)
    [] e.k = "binary" /\ e.op = "+" -> IsString(e.left)
    [] e.k = "binary" /\ e.op = "," -> IsString(e.right)
    [] e.k = "binary" /\ e.op \in {"&&", "||"} -> IsString(e.left) /\ IsString(e.right)
    [] e.k = "cond" -> IsString(e.left) /\ IsString(e.right)
    [] e.k = "unary" -> e.op = "typeof"
    [] OTHER -> FALSE

\* The key of the i-th property of an object literal; the first name comes back.
KeyOf(i) == IF i = 3 THEN 1 ELSE i

-----------------------------------------------------------------------------
(* The world an expression is evaluated in.  Whatever may run other code is *)
(* an event; it may change h and g, and the one at "limit" throws.          *)

World(limit) == [h |-> <<"h", 0>>, g |-> <<"g", 0>>, events |-> <<>>, objects |-> <<>>,
                 limit |-> limit, thrown |-> FALSE]
Happens(w, ev) ==
  LET n == Len(w.events) + 1
  IN IF w.thrown THEN w
     ELSE [w EXCEPT !.events = Append(@, ev), !.h = <<"h", n>>, !.g = <<"g", n>>,
                    !.thrown = n = w.limit]
Gives(w, v) == [w |-> w, v |-> v]
Asks(w, ev) == LET now == Happens(w, ev) IN Gives(now, <<"got", Len(now.events)>>)

\* ToPrimitive and ToNumber
Primitive(v) == v[1] \notin {"any", "got", "h", "g", "object"}
ToPrimitive(w, v) ==
  IF Primitive(v) THEN Gives(w, v)
  ELSE LET now == Happens(w, <<"primitive", v>>) IN Gives(now, <<"primitive", v, Len(now.events)>>)
ToNumber(w, v) ==
  LET p == ToPrimitive(w, v)
  IN IF p.v[1] \in {"num", "number"} THEN p ELSE Gives(p.w, <<"number", p.v>>)
Plus1(v) == <<"number", <<"plus", v>>>>

\* The pieces of a string; a concatenation knows its pieces.
Pieces(v) == IF v[1] = "cat" THEN v[2] ELSE <<v>>
BinaryOp(w, op, a, b) ==
  LET l == ToPrimitive(w, a)
      r == ToPrimitive(l.w, b)
  IN Gives(r.w, IF op = "+" /\ \E v \in {l.v, r.v} : v[1] \in {"str", "cat", "typeof"}
                THEN <<"cat", Pieces(l.v) \o Pieces(r.v)>>
                ELSE <<op, l.v, r.v>>)

New(w, contents) ==
  IF w.thrown THEN Gives(w, <<"none">>)
  ELSE Gives([w EXCEPT !.objects = Append(@, contents)], <<"object", Len(w.objects) + 1>>)

\* ToBoolean, as decided in "truth"; of !v it is decided by v.
RECURSIVE Decides(_)
Decides(v) == IF v[1] = "not" THEN ~Decides(v[2]) ELSE TRUE
RECURSIVE Subject(_)
Subject(v) == IF v[1] = "not" THEN Subject(v[2]) ELSE v
ToBoolean(truth, v) == (Subject(v) \in DOMAIN truth /\ truth[Subject(v)]) = Decides(v)

-----------------------------------------------------------------------------
(* ES5, 11.  m holds the world, the locals and the decisions.              *)

Read(m, n) == IF n \in Stack THEN m.locals[n] ELSE IF n = "h" THEN m.w.h ELSE m.w.g
Write(m, n, v) ==
  IF m.w.thrown \/ n = "c" THEN m
  ELSE IF n \in Stack THEN [m EXCEPT !.locals[n] = v]
  ELSE IF n = "h" THEN [m EXCEPT !.w.h = v] ELSE [m EXCEPT !.w.g = v]
In(m, o) == [m |-> [m EXCEPT !.w = o.w], v |-> o.v]
Value(m, v) == [m |-> m, v |-> v]

\* GetValue and PutValue; a reference is a name, or a base and a key.
GetValue(m, ref) ==
  IF ref.n # "" THEN Value(m, Read(m, ref.n))
  ELSE In(m, Asks(m.w, <<"get", ref.base, ref.key>>))
PutValue(m, ref, v) ==
  IF ref.n # "" THEN Write(m, ref.n, v)
  ELSE [m EXCEPT !.w = Happens(@, <<"put", ref.base, ref.key, v>>)]

RECURSIVE Evaluate(_, _), EvaluateAll(_, _)
EvaluateAll(m, es) ==
  IF es = <<>> THEN Value(m, <<>>)
  ELSE LET first == Evaluate(m, Head(es))
           others == EvaluateAll(first.m, Tail(es))
       IN Value(others.m, <<first.v>> \o others.v)

\* Evaluating the base and the key of a reference.
Refer(m, e) ==
  IF e.k = "id" THEN [m |-> m, n |-> e.n]
  ELSE LET at == EvaluateAll(m, <<e.target, e.key>>)
       IN [m |-> at.m, n |-> "", base |-> at.v[1], key |-> at.v[2]]

Evaluate(m, e) ==
  CASE e.k = "literal" -> Value(m, e.v)
    [] e.k = "function" -> In(m, New(m.w, <<>>))
    [] e.k \in {"id", "index"} -> LET ref == Refer(m, e) IN GetValue(ref.m, ref)
    [] e.k = "assign" ->
         LET ref == Refer(m, e.left)
             old == IF e.op = "=" THEN Value(ref.m, <<>>) ELSE GetValue(ref.m, ref)
             new == Evaluate(old.m, e.right)
             res == IF e.op = "=" THEN new ELSE In(new.m, BinaryOp(new.m.w, e.op, old.v, new.v))
         IN Value(PutValue(res.m, ref, res.v), res.v)
    [] e.k = "binary" /\ e.op \in {"&&", "||"} ->
         LET l == Evaluate(m, e.left)
         IN IF ToBoolean(m.truth, l.v) = (e.op = "||") THEN l ELSE Evaluate(l.m, e.right)
    [] e.k = "binary" /\ e.op = "," -> Evaluate(Evaluate(m, e.left).m, e.right)
    [] e.k = "binary" /\ e.op \notin {"&&", "||", ","} ->
         LET o == EvaluateAll(m, <<e.left, e.right>>)
         IN In(o.m, BinaryOp(o.m.w, e.op, o.v[1], o.v[2]))
    [] e.k = "cond" ->
         LET c == Evaluate(m, e.cond)
         IN Evaluate(c.m, IF ToBoolean(m.truth, c.v) THEN e.left ELSE e.right)
    [] e.k = "unary" /\ e.op # "++" ->
         LET o == Evaluate(m, e.expr)
         IN (CASE e.op = "void" -> Value(o.m, <<"undefined">>)
               [] e.op = "!" -> Value(o.m, <<"not", o.v>>)
               [] e.op = "typeof" -> Value(o.m, <<"typeof", o.v>>)
               [] e.op = "-" -> LET n == ToNumber(o.m.w, o.v)
                                IN In(o.m, Gives(n.w, <<"number", <<"minus", n.v>>>>)))
    [] e.k = "postfix" \/ (e.k = "unary" /\ e.op = "++") ->
         LET ref == Refer(m, e.expr)
             old == GetValue(ref.m, ref)
             n == In(old.m, ToNumber(old.m.w, old.v))
         IN Value(PutValue(n.m, ref, Plus1(n.v)), IF e.k = "postfix" THEN n.v ELSE Plus1(n.v))
    [] e.k = "call" ->
         LET this == IF e.target.k = "index" THEN Refer(m, e.target) ELSE [m |-> m, base |-> <<"undefined">>]
             f == IF e.target.k = "index" THEN GetValue(this.m, this) ELSE Evaluate(m, e.target)
             args == EvaluateAll(f.m, e.args)
         IN In(args.m, Asks(args.m.w, <<"call", f.v, this.base, args.v>>))
    [] e.k \in {"array", "object"} ->
         LET new == New(m.w, <<>>)
             vals == EvaluateAll(In(m, new).m, e.items)
             slot(i) == IF e.k = "array" THEN i ELSE KeyOf(i)
             last(at) == Max({i \in DOMAIN vals.v : slot(i) = at})
             slots == [at \in {slot(i) : i \in DOMAIN vals.v} |-> vals.v[last(at)]]
         IN IF vals.m.w.thrown THEN Value(vals.m, <<"none">>)
            ELSE Value([vals.m EXCEPT !.w.objects[new.v[2]] = slots], new.v)
=============================================================================
