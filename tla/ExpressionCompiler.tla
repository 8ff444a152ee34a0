------------------------ MODULE ExpressionCompiler -------------------------
(***************************************************************************)
(* railgun's compiler of expressions (railgun/compiler_expression.h): which *)
(* registers hold what while an expression is evaluated.  A local that is  *)
(* used where it is, is a thunk: it is spilled to a temporary when it is    *)
(* about to be written.                                                    *)
(***************************************************************************)
EXTENDS Expressions

CONSTANT Once   \* kOnce: how many elements of an array literal are stored at once

None == <<"none">>
Local(n) == <<"local", n>>
Temp(i) == <<"temp", i>>
Constant(v) == <<"constant", v>>
IsLocal(r) == r[1] = "local"
IsTemp(r) == r[1] = "temp"

\* The compiler's state: what it emitted, how many temporaries there are
\* (lives_), who holds which registers, the thunks, and whether its assertions held.
Start(folded) == [code |-> <<>>, size |-> 0, held |-> <<>>, thunks |-> <<>>,
                  folded |-> folded, asserted |-> TRUE]
Out(s, r) == [s |-> s, r |-> r]
Gen(s, instr) == [s EXCEPT !.code = Append(@, instr)]
Here(s) == Len(s.code) + 1
Patch(s, at) == [s EXCEPT !.code[at].to = Len(s.code) + 1]
Expect(s, b) == [s EXCEPT !.asserted = @ /\ b]

-----------------------------------------------------------------------------
(* Registers (register_id.h)                                               *)

Live(s) == {i \in 0..(s.size - 1) :
              \/ \E j \in DOMAIN s.held : s.held[j] = Temp(i)
              \/ \E j \in DOMAIN s.thunks : s.thunks[j].reg = Temp(i)}
Hold(s, r) == [s EXCEPT !.held = Append(@, r)]
Held(o) == Out(Hold(o.s, o.r), o.r)

\* Acquire(): the lowest that is free, or a new one.
Acquire(s) ==
  LET free == 0..(s.size - 1) \ Live(s)
  IN IF free # {} THEN Out(s, Temp(Min(free)))
     ELSE Out([s EXCEPT !.size = @ + 1], Temp(s.size))

\* Acquire(reg), which has to be in the pool.
Take(s, i) == Hold(Expect(s, i < s.size /\ i \notin Live(s)), Temp(i))

\* AcquireSequence: the free ones at the end and as many more as it takes.
Top(s) == IF Live(s) = {} THEN -1 ELSE Max(Live(s))
\* Mutant: a window is laid over the register that was on top.
SequenceOverlaps(s, n) == Max({Top(s), s.size - n})
SequenceStart(s, n) == Max({Top(s) + 1, s.size - n})
AcquireSequence(s, n) == [s EXCEPT !.size = SequenceStart(s, n) + n]

NotOrdered(r) == r = None \/ IsTemp(r)
TemporaryFor(s, candidates) ==
  LET t == SelectSeq(candidates, IsTemp) IN IF t # <<>> THEN Out(s, t[1]) ELSE Acquire(s)
Dest(s, d, candidates) ==
  LET t == {r \in candidates : IsTemp(r)}
  IN IF d # None THEN Out(s, d)
     ELSE IF t # {} THEN Out(s, Temp(Min({r[2] : r \in t})))
     ELSE Acquire(s)

-----------------------------------------------------------------------------
(* Thunks (thunk.h)                                                        *)

\* Mutant: the operand that is a local is not kept as a thunk.
ThunkForgotten(o) == [o.s EXCEPT !.thunks = Append(@, [reg |-> o.r, active |-> FALSE])]
Thunk(o) == [o.s EXCEPT !.thunks = Append(@, [reg |-> o.r, active |-> IsLocal(o.r)])]
Release(s, i) == [s EXCEPT !.thunks[i].active = FALSE]
SpillThunk(s, i) ==
  LET t == Acquire(s)
  IN Gen([t.s EXCEPT !.thunks[i] = [reg |-> t.r, active |-> FALSE]],
         [op |-> "MV", dst |-> t.r, src |-> s.thunks[i].reg])
Spill(s, r) ==
  FoldLeft(LAMBDA q, i : IF q.thunks[i].active /\ q.thunks[i].reg = r THEN SpillThunk(q, i) ELSE q,
           s, [i \in DOMAIN s.thunks |-> i])
ForceSpill(s) == FoldLeft(Spill, s, <<Local("x"), Local("y"), Local("c")>>)

\* EmitMV
Move(s, to, from) ==
  IF to = None THEN Out(s, from)
  ELSE IF to = from THEN Out(s, to)
  ELSE Out(Gen(Spill(s, to), [op |-> "MV", dst |-> to, src |-> from]), to)

\* dst = Dest(dst, ...); Spill(dst); and an instruction that writes it.
Produce(s, d, candidates, instr) ==
  LET o == Dest(s, d, candidates)
  IN Out(Gen(Spill(o.s, o.r), [dst |-> o.r] @@ instr), o.r)

EmitConstantLoad(s, v, d) ==
  IF s.folded THEN Move(s, d, Constant(v))
  ELSE Produce(s, d, {}, [op |-> "LOAD_CONST", v |-> v])
EmitStore(s, n, src) == Gen(s, [op |-> "STORE_NAME", n |-> n, src |-> src])

-----------------------------------------------------------------------------
(* The visitors.  use is "value", "ignore", or the jump a condition is to be *)
(* fused with; d is the destination asked for, if any.                      *)

Fusible == {"<"}

RECURSIVE VisitExpression(_, _, _, _)
EmitAs(s, e, d, use) ==
  LET o == VisitExpression(Hold(s, d), e, d, use)
  IN Out(Expect([o.s EXCEPT !.held = s.held, !.thunks = SubSeq(@, 1, Len(s.thunks))],
                d = None \/ o.r = d), o.r)
EmitExpression(s, e) == EmitAs(s, e, None, "value")
EmitTo(s, e, d) == EmitAs(s, e, d, "value")
EmitIgnored(s, e) == EmitAs(s, e, None, "ignore").s

\* PropertyName: a literal key is part of the instruction.
IsName(key) == key.k = "literal"
\* The base as a thunk and, when it is not a name, the key.
EmitReference(s, e, asThunk) ==
  LET base == Thunk(EmitExpression(s, e.target))
      key == EmitExpression(base, e.key)
      kept == IF asThunk THEN Out(Thunk(key), key.r) ELSE Held(key)
      i == Len(base.thunks)
  IN IF IsName(e.key) THEN [s |-> base, base |-> i, key |-> Constant(e.key.v), named |-> TRUE, keyAt |-> 0]
     ELSE [s |-> kept.s, base |-> i, key |-> key.r, named |-> FALSE,
           keyAt |-> IF asThunk THEN i + 1 ELSE 0]
BaseIn(s, ref) == s.thunks[ref.base].reg
KeyIn(s, ref) == IF ref.keyAt # 0 THEN s.thunks[ref.keyAt].reg ELSE ref.key
ReleaseBoth(s, ref) ==
  LET base == Release(s, ref.base) IN IF ref.keyAt # 0 THEN Release(base, ref.keyAt) ELSE base

\* EmitElement: an instruction on a property, whose base may become its result.
EmitElement(s, e, d, op) ==
  LET ref == EmitReference(s, e, FALSE)
      base == BaseIn(ref.s, ref)
  IN Produce(Release(ref.s, ref.base), d, {base, ref.key},
             [op |-> op, base |-> base, key |-> ref.key])
\* Of o.p (IdentifierAccess) the result is never where the base is.
EmitProperty(s, e, d, op) ==
  IF ~IsName(e.key) THEN EmitElement(s, e, d, op)
  ELSE LET base == Held(EmitExpression(s, e.target))
       IN Produce(base.s, d, {}, [op |-> op, base |-> base.r, key |-> Constant(e.key.v)])

\* The value of an assignment is stored from d itself unless d is a local,
\* which is written last.
AssignName(s, e, d) ==
  LET n == e.left.n
      local == EmitTo(s, e.right, Local(n))
      unchanged == Held(Dest(s, d, {}))
      stored == EmitTo(s, e.right, IF NotOrdered(d) THEN d ELSE None)
  IN CASE n = "c" -> EmitTo(unchanged.s, e.right, unchanged.r)
       [] n \in Stack \ {"c"} -> Move(local.s, d, Local(n))
       [] OTHER -> LET to == EmitStore(stored.s, n, stored.r)
                   IN IF NotOrdered(d) THEN Out(to, stored.r) ELSE Move(Hold(to, stored.r), d, stored.r)

AssignProperty(s, e, d) ==
  LET ref == EmitReference(s, e.left, TRUE)
      val == Held(EmitTo(ref.s, e.right, IF NotOrdered(d) THEN d ELSE None))
      put == Gen(val.s, [op |-> "PUT", base |-> BaseIn(val.s, ref), key |-> KeyIn(val.s, ref), src |-> val.r])
  IN IF NotOrdered(d) THEN Out(put, val.r) ELSE Move(ReleaseBoth(put, ref), d, val.r)

EmitConcat(s, e, lhs, d) ==
  LET RECURSIVE chain(_)
      chain(b) == IF b.k = "binary" /\ b.op = "+" /\ IsString(b)
                  THEN Append(chain(b.left), b.right) ELSE <<b>>
      items == lhs \o Append(chain(e.left), e.right)
      ready == IF SideEffect(e) THEN ForceSpill(s) ELSE s
      base == SequenceStart(ready, Len(items))
      toString(q, i) == Gen(q, [op |-> "TO_STRING", dst |-> Temp(base + i - 1)])
      piece(q, i) ==
        LET o == EmitTo(Take(q, base + i - 1), items[i], Temp(base + i - 1)).s
        IN IF IsString(items[i]) \/ i <= Len(lhs) THEN o ELSE toString(o, i)
      all == FoldLeft(LAMBDA q, i : Hold(piece(q, i), Temp(base + i - 1)),
                      AcquireSequence(ready, Len(items)), [i \in DOMAIN items |-> i])
  IN Produce(IF lhs # <<>> THEN toString(all, 1) ELSE all, d, {Temp(base)},
             [op |-> "CONCAT", src |-> base, count |-> Len(items)])

\* x op= ..., which reads x before the right side and writes it after.
AssignOpName(s, e, d) ==
  LET n == e.left.n
      concat == e.op = "+" /\ e.right.k = "binary" /\ e.right.op = "+" /\ IsString(e.right)
      lv == Thunk(EmitExpression(s, e.left))
      rv == Held(EmitExpression(lv, e.right))
      l == rv.s.thunks[Len(lv.thunks)].reg
      both == Release(rv.s, Len(lv.thunks))
      op(to) == [op |-> "BINARY", bin |-> e.op, a |-> l, b |-> rv.r, dst |-> to]
      ret == TemporaryFor(both, <<l, rv.r>>)
      fresh == Held(Acquire(s))
      joined == EmitConcat(IF NotOrdered(d) THEN s ELSE fresh.s, e.right, <<e.left>>,
                           IF NotOrdered(d) THEN d ELSE fresh.r)
      added == Produce(both, d, {l, rv.r}, op(d))
      unordered(o) == Out(EmitStore(o.s, n, o.r), o.r)
      ordered(o) == Move(Hold(EmitStore(o.s, n, o.r), o.r), d, o.r)
  IN CASE n = "c" -> Produce(both, d, {}, op(d))
       [] n \in Stack \ {"c"} ->
            LET to == Local(n)
            IN Move(IF concat THEN EmitConcat(s, e.right, <<e.left>>, to).s
                    ELSE Gen(Spill(both, to), op(to)), d, to)
       [] OTHER -> IF concat THEN IF NotOrdered(d) THEN unordered(joined) ELSE ordered(joined)
                   ELSE IF NotOrdered(d) THEN unordered(added)
                   ELSE ordered(Out(Gen(ret.s, op(ret.r)), ret.r))

AssignOpProperty(s, e, d) ==
  LET ref == EmitReference(s, e.left, TRUE)
      t == Held(Acquire(ref.s))
      get == Gen(t.s, [op |-> "GET", dst |-> t.r, base |-> BaseIn(t.s, ref), key |-> KeyIn(t.s, ref)])
      val == Held(EmitExpression(get, e.right))
      to == IF NotOrdered(d) THEN Dest(val.s, d, {val.r, t.r}) ELSE TemporaryFor(val.s, <<val.r, t.r>>)
      op == Gen(Spill(to.s, to.r), [op |-> "BINARY", bin |-> e.op, a |-> t.r, b |-> val.r, dst |-> to.r])
      put == Gen(op, [op |-> "PUT", base |-> BaseIn(op, ref), key |-> KeyIn(op, ref), src |-> to.r])
  IN IF NotOrdered(d) THEN Out(put, to.r) ELSE Move(ReleaseBoth(put, ref), d, to.r)

EmitLogicalPath(s, e, d, use) ==
  LET jump(r) == [op |-> IF e.op = "&&" THEN "IF_FALSE" ELSE "IF_TRUE", cond |-> r, to |-> 0]
      to == IF use = "ignore" THEN Out(s, None) ELSE Held(Dest(s, d, {}))
      l == EmitTo(to.s, e.left, to.r)
      r == EmitAs(Gen(l.s, jump(l.r)), e.right, to.r, IF use = "ignore" THEN "ignore" ELSE "value")
  IN Out(Patch(r.s, Here(l.s)), IF use = "ignore" THEN None ELSE r.r)

EmitBinary(s, e, d, use) ==
  LET lv == Thunk(EmitExpression(s, e.left))
      rv == Held(EmitExpression(lv, e.right))
      l == rv.s.thunks[Len(lv.thunks)].reg
      operands == [bin |-> e.op, a |-> l, b |-> rv.r]
  IN CASE e.op = "," -> EmitAs(EmitIgnored(s, e.left), e.right, d, "value")
       [] e.op = "+" /\ IsString(e) -> EmitConcat(s, e, <<>>, d)
       [] e.op \in Fusible /\ use \in {"IF_TRUE", "IF_FALSE"} ->
            Out(Gen(rv.s, operands @@ [op |-> "IF_BINARY", sense |-> use = "IF_TRUE", to |-> 0]), None)
       [] OTHER -> Produce(Release(rv.s, Len(lv.thunks)), d, {l, rv.r}, operands @@ [op |-> "BINARY"])

EmitCond(s, e, d, use) ==
  LET c == EmitExpression(s, e.cond)
      test == Gen(c.s, [op |-> "IF_FALSE", cond |-> c.r, to |-> 0])
      to == IF use = "ignore" THEN Out(test, None) ELSE Held(Dest(test, d, {}))
      how == IF use = "ignore" THEN "ignore" ELSE "value"
      l == EmitAs(Spill(to.s, to.r), e.left, to.r, how)
      over == Gen(l.s, [op |-> "JUMP_BY", to |-> 0])
      r == EmitAs(Patch(over, Here(c.s)), e.right, to.r, how)
  IN Out(Patch(r.s, Here(l.s)), to.r)

\* ++ on a local, a global and, in one instruction, a name in the heap.
EmitIncrement(s, e, d, use) ==
  LET n == e.expr.n
      prefix == e.k = "unary"
      local == Local(n)
      inc(q) == Gen(Spill(q, local), [op |-> "INCREMENT", dst |-> local])
      tmp == Held(TemporaryFor(s, <<d>>))
      copy == Move(tmp.s, tmp.r, local).s
      kept == Gen(copy, [op |-> IF prefix THEN "INCREMENT" ELSE "TO_NUMBER", dst |-> tmp.r])
      to == Dest(s, d, {})
      old == Held(LET t == Held(Acquire(s)) IN Produce(t.s, t.r, {}, [op |-> "LOAD_NAME", n |-> n]))
      post == Produce(old.s, d, {}, [op |-> "POSTFIX_INCREMENT", src |-> old.r])
      pre == Produce(s, d, {}, [op |-> "LOAD_NAME", n |-> n])
  IN CASE n = "c" /\ use = "ignore" -> Out(Gen(s, [op |-> "TO_NUMBER", dst |-> local]), None)
       [] n = "c" /\ use # "ignore" -> Move(kept, d, tmp.r)
       [] n \in {"x", "y"} /\ use = "ignore" -> Out(inc(s), None)
       [] n \in {"x", "y"} /\ use # "ignore" /\ prefix -> Move(inc(s), d, local)
       [] n \in {"x", "y"} /\ use # "ignore" /\ ~prefix ->
            Out(Gen(Spill(Spill(Hold(to.s, to.r), to.r), local),
                    [op |-> "POSTFIX_INCREMENT", dst |-> to.r, src |-> local]), to.r)
       [] n = "g" /\ prefix ->
            Out(EmitStore(Gen(Spill(pre.s, pre.r), [op |-> "INCREMENT", dst |-> pre.r]), n, pre.r), pre.r)
       [] n = "g" /\ ~prefix -> Out(EmitStore(post.s, n, old.r), post.r)
       [] OTHER -> Produce(s, d, {}, [op |-> IF prefix THEN "INCREMENT_NAME" ELSE "POSTFIX_INCREMENT_NAME",
                                      n |-> n])

\* The arguments lie in a window, the last one lowest and this on top: it is
\* the frame of the callee.
EmitCall(s, e, d, use) ==
  LET argc == Len(e.args)
      callee == Held(TemporaryFor(s, <<d>>))
      ready == IF SideEffect(e) THEN ForceSpill(callee.s) ELSE callee.s
      start == SequenceStart(ready, argc + 1)
      window == AcquireSequence(ready, argc + 1)
      this == Temp(start + argc)
      undefined(q) == EmitConstantLoad(Take(q, start + argc), <<"undefined">>, this).s
      load(key, q) == Gen(q, [op |-> "GET", dst |-> callee.r, base |-> this, key |-> key])
      on == EmitTo(Take(window, start + argc), e.target.target, this).s
      target ==
        CASE e.target.k = "id" ->
               LET n == e.target.n
               IN undefined(IF n \in Stack THEN Move(window, callee.r, Local(n)).s
                            ELSE Produce(window, callee.r, {}, [op |-> "LOAD_NAME", n |-> n]).s)
          [] e.target.k = "index" ->
               IF IsName(e.target.key) THEN load(Constant(e.target.key.v), on)
               ELSE load(callee.r, EmitTo(on, e.target.key, callee.r).s)
          [] OTHER -> undefined(EmitTo(window, e.target, callee.r).s)
      argument(q, i) == EmitTo(Take(q, start + argc - i), e.args[i], Temp(start + argc - i)).s
      \* The registers of the window stay held.
      window1 == Hold(target, this)
      ready1 == FoldLeft(LAMBDA q, i : Hold(argument(q, i), Temp(start + argc - i)),
                         window1, [i \in DOMAIN e.args |-> i])
      to == Dest(ready1, d, {callee.r})
      called == Gen(Spill(to.s, to.r), [op |-> "CALL", callee |-> callee.r, start |-> start, argc |-> argc])
      result == IF use = "ignore" THEN called ELSE Gen(called, [op |-> "RESULT", dst |-> to.r])
  IN Out(Expect(result, Top(result) = start + argc), to.r)

EmitArray(s, e, d) ==
  LET ary == Held(TemporaryFor(s, <<d>>))
      ready == IF SideEffect(e) THEN ForceSpill(ary.s) ELSE ary.s
      n == Len(e.items)
      chunk(q, from) ==
        LET dis == Min({Once, n - from})
            start == SequenceStart(q, dis)
            item(p, i) == Hold(EmitTo(Take(p, start + i - 1), e.items[from + i], Temp(start + i - 1)).s,
                               Temp(start + i - 1))
            all == FoldLeft(item, AcquireSequence(q, dis), [i \in 1..dis |-> i])
        IN [Gen(all, [op |-> "INIT_ARRAY", obj |-> ary.r, src |-> start, from |-> from, count |-> dis])
              EXCEPT !.held = q.held]
      new == Gen(ready, [op |-> "LOAD_OBJECT", dst |-> ary.r])
      chunks == [i \in 1..((n + Once - 1) \div Once) |-> (i - 1) * Once]
  IN Move(FoldLeft(chunk, new, chunks), d, ary.r)

\* MapBuilder gives each new name the next offset: KeyOf, as names come in order.
EmitObject(s, e, d) ==
  LET obj == Held(TemporaryFor(s, <<d>>))
      new == Gen(obj.s, [op |-> "LOAD_OBJECT", dst |-> obj.r])
      property(q, i) ==
        LET item == EmitExpression(q, e.items[i])
        IN Gen(item.s, [op |-> "STORE_OBJECT", obj |-> obj.r, src |-> item.r,
                        offset |-> KeyOf(i)])
  IN Move(FoldLeft(property, new, [i \in DOMAIN e.items |-> i]), d, obj.r)

VisitExpression(s, e, d, use) ==
  CASE e.k = "literal" -> IF use = "ignore" THEN Out(s, None) ELSE EmitConstantLoad(s, e.v, d)
    [] e.k = "function" -> Produce(s, d, {}, [op |-> "LOAD_OBJECT"])
    [] e.k = "id" -> IF e.n \in Stack THEN Move(s, d, Local(e.n))
                     ELSE Produce(s, d, {}, [op |-> "LOAD_NAME", n |-> e.n])
    [] e.k = "assign" /\ e.op = "=" ->
         IF e.left.k = "id" THEN AssignName(s, e, d) ELSE AssignProperty(s, e, d)
    [] e.k = "assign" /\ e.op # "=" ->
         IF e.left.k = "id" THEN AssignOpName(s, e, d) ELSE AssignOpProperty(s, e, d)
    [] e.k = "binary" /\ e.op \in {"&&", "||"} -> EmitLogicalPath(s, e, d, use)
    [] e.k = "binary" /\ e.op \notin {"&&", "||"} -> EmitBinary(s, e, d, use)
    [] e.k = "cond" -> EmitCond(s, e, d, use)
    [] e.k = "unary" /\ e.op = "void" -> EmitConstantLoad(EmitIgnored(s, e.expr), <<"undefined">>, d)
    [] e.k = "unary" /\ e.op \in {"!", "typeof", "-"} ->
         IF e.op = "typeof" /\ e.expr.k = "id"
         THEN IF e.expr.n \in Stack THEN Produce(s, d, {}, [op |-> "UNARY", un |-> e.op, src |-> Local(e.expr.n)])
              ELSE Produce(s, d, {}, [op |-> "TYPEOF_NAME", n |-> e.expr.n])
         ELSE LET src == Held(EmitExpression(s, e.expr))
              IN Produce(src.s, d, {src.r}, [op |-> "UNARY", un |-> e.op, src |-> src.r])
    [] e.k = "index" -> EmitProperty(s, e, d, "GET")
    [] e.k = "call" -> EmitCall(s, e, d, use)
    [] e.k = "array" ->   \* primitive_constant_array is copied from the constants
         IF \A i \in DOMAIN e.items : e.items[i].k = "literal"
         THEN Produce(s, d, {}, [op |-> "DUP_ARRAY", items |-> [i \in DOMAIN e.items |-> e.items[i].v]])
         ELSE EmitArray(s, e, d)
    [] e.k = "object" -> EmitObject(s, e, d)
    [] OTHER -> IF e.expr.k = "id" THEN EmitIncrement(s, e, d, use)
                ELSE EmitProperty(s, e.expr, d, IF e.k = "postfix" THEN "POSTFIX_INCREMENT_PROP"
                                                ELSE "INCREMENT_PROP")

\* EmitConditional: a jump to where the condition is as op says, fused with it
\* when it can be.
RECURSIVE EmitConditional(_, _, _)
EmitConditional(s, e, op) ==
  IF e.k = "unary" /\ e.op = "!"
  THEN EmitConditional(s, e.expr, IF op = "IF_TRUE" THEN "IF_FALSE" ELSE "IF_TRUE")
  ELSE LET o == EmitAs(s, e, None, op)
       IN IF o.r = None THEN o.s ELSE Gen(o.s, [op |-> op, cond |-> o.r, to |-> 0])

\* An expression as a statement, as a value, and as the condition of an if.
CompileExpression(e, as, folded) ==
  LET s == Start(folded)
      v == EmitExpression(s, e)
      c == EmitConditional(s, e, "IF_FALSE")
      done(q, r) == Gen(q, [op |-> "DONE", src |-> r])
  IN CASE as = "statement" -> done(EmitIgnored(s, e), Constant(<<"undefined">>))
       [] as = "value" -> done(v.s, v.r)
       [] as = "condition" -> done(Patch(done(c, Constant(<<"true">>)), Len(c.code)), Constant(<<"false">>))
=============================================================================
