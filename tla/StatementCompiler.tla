------------------------- MODULE StatementCompiler -------------------------
(***************************************************************************)
(* railgun/compiler_statement.h: from statements to bytecode with its      *)
(* exception table.  One instruction is one element of the code.           *)
(***************************************************************************)
EXTENDS Statements, FiniteSets

-----------------------------------------------------------------------------
(* The compiler's state: code, the table of handlers, level_stack_,        *)
(* jump_table_ (the level of every target), continuation_status_ (live),   *)
(* the registers free below size, and the holes still to be patched.       *)
KNext == [k |-> "next"]   \* kNextStatement
Initial == [code |-> <<>>, handlers |-> <<>>, levels |-> <<>>, jumps |-> <<>>,
            live |-> {KNext}, free |-> {}, size |-> 0, holes |-> {}]

CurrentSize(st) == Len(st.code) + 1
Emit(st, instr) == [st EXCEPT !.code = Append(@, instr)]
Jump(op) == [op |-> op, to |-> 0]
EmitJump(st, to, at) == [st EXCEPT !.code[at].to = to]

\* A jump whose target is not known yet, and the targets of one kind.
EmitHole(st, instr, hole) ==
  [Emit(st, instr) EXCEPT !.holes = @ \cup {<<CurrentSize(st), hole>>}]
EmitJumps(st, to, hole) ==
  LET at == {h[1] : h \in {h \in st.holes : h[2] = hole}}
  IN [st EXCEPT !.code = [i \in DOMAIN @ |-> IF i \in at THEN [@[i] EXCEPT !.to = to] ELSE @[i]],
                !.holes = {h \in @ : h[2] # hole}]
Breaks(id) == <<"break", id>>
Continues(id) == <<"continue", id>>
Finally(st) == <<"finally", Len(st.levels)>>   \* the levels around the statement

RegisterHandler(st, type, begin, jmp, ret, flag) ==
  [st EXCEPT !.handlers = Append(@, [type |-> type, begin |-> begin, end |-> CurrentSize(st),
                                     jmp |-> jmp, ret |-> ret, flag |-> flag])]

\* A temporary register for as long as body runs.
Temporary(st, body(_, _)) ==
  LET r == IF st.free = {} THEN st.size ELSE CHOOSE f \in st.free : \A g \in st.free : f <= g
      taken == [st EXCEPT !.free = @ \ {r}, !.size = IF st.free = {} THEN @ + 1 ELSE @]
  IN [body(taken, r) EXCEPT !.free = @ \cup {r}]

\* ContinuationStatus
Dead(st) == KNext \notin st.live
Revive(st) == [st EXCEPT !.live = @ \cup {KNext}]
Recover(st) == IF Dead(st) THEN Revive(st) ELSE st
Kill(st) == [st EXCEPT !.live = @ \ {KNext}]
Target(id) == [k |-> "target", id |-> id]
JumpTo(st, id) ==
  [st EXCEPT !.live = (@ \ {KNext}) \cup {IF id = NoTarget THEN KNext ELSE Target(id)}]
Resolve(st, id) ==
  IF Target(id) \in st.live THEN [st EXCEPT !.live = (@ \ {Target(id)}) \cup {KNext}] ELSE st

\* The status of a branch is remembered while the other one is compiled.
\* Mutant: it is forgotten, so that only the last branch counts.
MeetLast(st, s) == [st EXCEPT !.live = @ \ {s}]
Fork(st, s) == IF Dead(st) THEN Revive(st) ELSE [st EXCEPT !.live = @ \cup {s}]
Meet(st, s) == IF s \in st.live THEN Recover([st EXCEPT !.live = @ \ {s}]) ELSE st

-----------------------------------------------------------------------------
(* Levels: what a jump out of a statement has to undo                       *)
PushLevel(st, level) == [st EXCEPT !.levels = Append(@, level)]
PopLevel(st) == [st EXCEPT !.levels = Front(@)]
EnvLevel == [type |-> "env"]
IteratorLevel(r) == [type |-> "iterator", ret |-> r]
FinallyLevel(hole, jmp, ret, flag) ==
  [type |-> "finally", hole |-> hole, jmp |-> jmp, ret |-> ret, flag |-> flag]
RegisterJumpTarget(st, id) == [st EXCEPT !.jumps = Append(@, [id |-> id, level |-> Len(st.levels)])]
LevelOf(st, id) == LET i == CHOOSE i \in DOMAIN st.jumps : st.jumps[i].id = id
                   IN st.jumps[i].level
NoRegister == -1

JumpSubroutine(st, level) ==
  EmitHole(st, [op |-> "JUMP_SUBROUTINE", to |-> 0, jmp |-> level.jmp, flag |-> level.flag],
           level.hole)

\* EmitUnrollingLevel.  It returns the register of the result as well.
\* Mutants: the iterator of a loop that is left by continue stays, and the one
\* of a loop that goes on is left.
StaysForAny(cont, from, to) == cont
StaysForNone(cont, from, to) == FALSE
StaysForNext(cont, from, to) == cont /\ from = to + 1

EmitUnrollingLevel(st, to, cont, dst) ==
  LET undo(acc, from) ==
        LET level == st.levels[from]
            moved == IF acc.dst = NoRegister THEN acc.st
                     ELSE Emit(acc.st, [op |-> "MV", dst |-> level.ret, src |-> acc.dst])
        IN CASE level.type = "finally" ->
                  [st |-> JumpSubroutine(moved, level),
                   dst |-> IF acc.dst = NoRegister THEN acc.dst ELSE level.ret]
             [] level.type = "env" -> [acc EXCEPT !.st = Emit(@, [op |-> "POP_ENV"])]
             [] level.type = "iterator" ->
                  IF StaysForNext(cont, from, to) THEN acc
                  ELSE [acc EXCEPT !.st = Emit(@, [op |-> "FORIN_LEAVE", it |-> level.ret])]
      depth == Len(st.levels)
  IN FoldLeft(undo, [st |-> st, dst |-> dst], [i \in 1..(depth - to) |-> depth + 1 - i])

VisitJump(st, id, cont) ==
  LET undone == EmitUnrollingLevel(st, LevelOf(st, id), cont, NoRegister).st
  IN JumpTo(EmitHole(undone, Jump("JUMP_BY"), IF cont THEN Continues(id) ELSE Breaks(id)), id)

VisitBreak(s, st) == IF s.id = NoTarget THEN JumpTo(st, NoTarget) ELSE VisitJump(st, s.id, FALSE)

VisitReturn(s, st) ==
  Kill(Temporary(st, LAMBDA st1, r :
    LET u == EmitUnrollingLevel(Emit(st1, [op |-> "LOAD_CONST", dst |-> r, n |-> s.n]), 0, FALSE, r)
    IN Emit(u.st, [op |-> "RETURN", src |-> u.dst])))

-----------------------------------------------------------------------------
RECURSIVE Visit(_, _)

\* Statements in order, until what follows is dead.
VisitAll(body, st) ==
  FoldLeft(LAMBDA acc, s : IF acc.stop THEN acc
                           ELSE LET next == Visit(s, acc.st) IN [st |-> next, stop |-> Dead(next)],
           [st |-> st, stop |-> FALSE], body).st

Targets(st, s, body(_)) ==
  LET done == body(RegisterJumpTarget(st, s.id))
  IN [done EXCEPT !.jumps = Front(@)]

VisitBlock(s, st) ==
  Targets(st, s, LAMBDA st1 :
    LET body == VisitAll(s.list, st1)
    IN Resolve(EmitJumps(body, CurrentSize(body), Breaks(s.id)), s.id))

VisitIf(s, st) ==
  LET jump == CurrentSize(st)
      then == Visit(s.then, Emit(st, Jump("IF_FALSE")))
      second == CurrentSize(then)
      between == Emit(Fork(then, s), Jump("JUMP_BY"))
      else == Meet(Visit(s.else[1], EmitJump(between, CurrentSize(between), jump)), s)
  IN CASE s.cond = "?" ->
            IF s.else = Nothing THEN EmitJump(Recover(then), CurrentSize(then), jump)
            ELSE EmitJump(else, CurrentSize(else), second)
       [] s.cond = "false" -> IF s.else = Nothing THEN st ELSE Recover(Visit(s.else[1], st))
       [] s.cond = "true" -> Recover(Visit(s.then, st))

\* What every loop ends with.
EndLoop(st, s, continue) ==
  Recover(Resolve(EmitJumps(EmitJumps(st, CurrentSize(st), Breaks(s.id)),
                            continue, Continues(s.id)), s.id))
JumpBack(st, op, to) == Emit(st, [op |-> op, to |-> to])

VisitDoWhile(s, st) ==
  Targets(st, s, LAMBDA st1 :
    LET body == Visit(s.body, st1)
    IN EndLoop(JumpBack(body, "IF_TRUE", CurrentSize(st1)), s, CurrentSize(body)))

VisitWhile(s, st) ==
  Targets(st, s, LAMBDA st1 :
    LET start == CurrentSize(st1)
        inverted == JumpBack(Visit(s.body, Emit(st1, Jump("IF_FALSE"))), "IF_TRUE", start + 1)
    IN CASE s.cond = "false" -> st1
         [] s.cond = "?" /\ IsEffective(s.body) ->
              EndLoop(EmitJump(inverted, CurrentSize(inverted), start), s, start)
         [] s.cond = "?" /\ ~IsEffective(s.body) -> JumpBack(st1, "IF_TRUE", start)
         [] s.cond = "true" /\ IsEffective(s.body) ->
              EndLoop(JumpBack(Visit(s.body, st1), "JUMP_BY", start), s, start)
         [] OTHER -> JumpBack(st1, "JUMP_BY", start))

\* A condition that is left out is "true".
VisitFor(s, st) ==
  Targets(st, s, LAMBDA st1 :
    LET start == CurrentSize(st1)
        asked == IF s.cond = "?" THEN Emit(st1, Jump("IF_FALSE")) ELSE st1
        body == Visit(s.body, asked)
        next == IF s.next = 0 THEN body ELSE Emit(body, [op |-> "LOG", n |-> s.next])
        back == IF s.cond = "?" THEN JumpBack(next, "IF_TRUE", CurrentSize(asked))
                ELSE JumpBack(next, "JUMP_BY", start)
        left == IF s.cond = "?" THEN EmitJump(back, CurrentSize(back), start) ELSE back
    IN EndLoop(left, s, CurrentSize(body)))

VisitForIn(s, st) ==
  Targets(st, s, LAMBDA st1 : Temporary(st1, LAMBDA st2, r :
    LET setup == CurrentSize(st2)
        start == setup + 1
        enumerate == Emit(Emit(st2, [op |-> "FORIN_SETUP", to |-> 0, it |-> r,
                                     id |-> s.id, names |-> s.names]),
                          [op |-> "FORIN_ENUMERATE", to |-> 0, it |-> r])
        body == Visit(s.body, PushLevel(enumerate, IteratorLevel(r)))
        back == PopLevel(IF Dead(body) THEN body ELSE JumpBack(body, "JUMP_BY", start))
        left == Emit(EmitJump(back, CurrentSize(back), start), [op |-> "FORIN_LEAVE", it |-> r])
        all == RegisterHandler(left, "iterator", start, 0, r, 0)
    IN EndLoop(EmitJump(all, CurrentSize(all), setup), s, start)))

VisitWith(s, st) ==
  LET setup == PushLevel(Emit(st, [op |-> "WITH_SETUP", ok |-> s.ok]), EnvLevel)
      body == RegisterHandler(Visit(s.body, setup), "env", CurrentSize(setup), 0, 0, 0)
  IN Emit(PopLevel(body), [op |-> "POP_ENV"])

VisitSwitch(s, st) ==
  Targets(st, s, LAMBDA st1 :
    LET cases == SelectSeq([i \in DOMAIN s.clauses |-> i], LAMBDA i : s.clauses[i].test)
        at(i) == CurrentSize(st1) - 1 + Cardinality({j \in 1..i : s.clauses[j].test})
        tests == FoldLeft(LAMBDA acc, i : Emit(acc, Jump("IF_TRUE")), st1, cases)
        label == CurrentSize(tests)
        default == {i \in DOMAIN s.clauses : ~s.clauses[i].test}
        clause(acc, i) ==
          LET body == VisitAll(s.clauses[i].body,
                               EmitJump(acc, CurrentSize(acc), IF i \in default THEN label ELSE at(i)))
          IN IF i < Len(s.clauses) THEN Recover(body) ELSE body
        all == FoldLeft(clause, Emit(tests, Jump("JUMP_BY")), [i \in DOMAIN s.clauses |-> i])
        left == EmitJumps(all, CurrentSize(all), Breaks(s.id))
        done == Resolve(IF default = {} THEN EmitJump(left, CurrentSize(left), label) ELSE left, s.id)
    IN IF default = {} THEN Recover(done) ELSE done)

-----------------------------------------------------------------------------
(* Visit(TryStatement), in its three parts                                  *)
Over(begin) == <<"try", begin>>

CatchPart(s, st, begin, level) ==
  LET setup == Temporary(Fork(st, s), LAMBDA st1, error :
                 Emit(RegisterHandler(st1, "catch", begin, 0, error, 0),
                      [op |-> "TRY_CATCH_SETUP", src |-> error]))
      body == PopLevel(Visit(s.catch[1], PushLevel(setup, EnvLevel)))
      pop == Emit(RegisterHandler(body, "env", CurrentSize(setup), 0, 0, 0), [op |-> "POP_ENV"])
      sub == IF s.finally = Nothing THEN pop ELSE JumpSubroutine(pop, level)
  IN Meet(EmitHole(sub, Jump("JUMP_BY"), Over(begin)), s)

FinallyPart(s, st, begin, level) ==
  LET start == CurrentSize(st)
      entered == IF Dead(st) THEN Revive(st) ELSE [st EXCEPT !.live = @ \cup {s}]
      table == RegisterHandler(entered, "finally", begin, level.jmp, level.ret, level.flag)
      body == Visit(s.finally[1], PopLevel(EmitJumps(table, start, level.hole)))
      left == Emit(body, [op |-> "RETURN_SUBROUTINE", jmp |-> level.jmp, flag |-> level.flag])
  IN IF s \in left.live THEN [left EXCEPT !.live = @ \ {s}] ELSE Kill(left)

\* The end of the body jumps over catch, the end of catch over nothing.
TryParts(s, st, level) ==
  LET begin == CurrentSize(st)
      guarded == s.finally # Nothing
      inner == IF guarded THEN PushLevel(st, level) ELSE st
      body == Visit(s.body, inner)
      sub == IF guarded /\ ~Dead(body) THEN JumpSubroutine(body, level) ELSE body
      over == EmitHole(sub, Jump("JUMP_BY"), Over(begin))
      caught == IF s.catch = Nothing THEN over ELSE CatchPart(s, over, begin, level)
      all == IF guarded THEN FinallyPart(s, caught, begin, level) ELSE caught
  IN EmitJumps(all, CurrentSize(all), Over(begin))

VisitTry(s, st) ==
  IF s.finally = Nothing THEN TryParts(s, st, EnvLevel)
  ELSE Temporary(st, LAMBDA s1, jmp : Temporary(s1, LAMBDA s2, ret : Temporary(s2, LAMBDA s3, flag :
         TryParts(s, s3, FinallyLevel(Finally(st), jmp, ret, flag)))))

Visit(s, st) ==
  CASE s.k = "log" -> Emit(st, [op |-> "LOG", n |-> s.n])
    [] s.k = "empty" -> st
    [] s.k = "return" -> VisitReturn(s, st)
    [] s.k = "throw" -> Kill(Emit(st, [op |-> "THROW", n |-> s.n]))
    [] s.k = "break" -> VisitBreak(s, st)
    [] s.k = "continue" -> VisitJump(st, s.id, TRUE)
    [] s.k = "block" -> VisitBlock(s, st)
    [] s.k = "if" -> VisitIf(s, st)
    [] s.k = "while" -> VisitWhile(s, st)
    [] s.k = "dowhile" -> VisitDoWhile(s, st)
    [] s.k = "for" -> VisitFor(s, st)
    [] s.k = "forin" -> VisitForIn(s, st)
    [] s.k = "with" -> VisitWith(s, st)
    [] s.k = "switch" -> VisitSwitch(s, st)
    [] s.k = "try" -> VisitTry(s, st)

\* The main part of EmitFunctionCode
ReturnUndefined(st) ==
  Temporary(st, LAMBDA st1, r : Emit(Emit(st1, [op |-> "LOAD_CONST", dst |-> r, n |-> 0]),
                                     [op |-> "RETURN", src |-> r]))
Compile(body) ==
  LET main == VisitAll(body, Initial)
      st == IF Dead(main) THEN main ELSE ReturnUndefined(main)
  IN [code |-> st.code, handlers |-> st.handlers, registers |-> st.size]
=============================================================================
