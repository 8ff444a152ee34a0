------------------------- MODULE ExpressionMachine -------------------------
(***************************************************************************)
(* The bytecode of an expression on railgun's VM (railgun/vm.h), beside what *)
(* ES5 says of the expression.                                             *)
(***************************************************************************)
EXTENDS ExpressionCompiler

CONSTANTS
  Sources,       \* the expressions tried, as a "statement", "value" or "condition"
  Codes,         \* what each is compiled to before it runs, constants in registers or not
  MaxLimit       \* bound: which of the first events may throw

ASSUME CodesAssumption ==
  Codes = [u \in Sources |-> [f \in BOOLEAN |-> CompileExpression(u.e, u.as, f)]]

VARIABLES
  source,      \* the expression and its use
  object,      \* what it was compiled to
  at,          \* the instruction
  regs, world, \* of the frame; what other code sees
  rax,         \* the result of the last call
  truth,       \* what the values tested so far were taken for
  outcome

evars == <<source, object, at, regs, world, rax, truth, outcome>>
Executing == <<"executing">>
Garbage == <<"garbage">>

I == object.code[at]
Is(op) == outcome = Executing /\ at \in DOMAIN object.code /\ I.op = op
Reg(r) == IF r[1] = "constant" THEN r[2] ELSE regs[r]

\* An instruction that ends with world w and, unless it threw, registers q.
After(w, q) ==
  /\ world' = w
  /\ regs' = IF w.thrown THEN regs ELSE q
  /\ at' = at + 1
  /\ outcome' = IF w.thrown THEN <<"throw">> ELSE outcome
  /\ UNCHANGED <<source, object, truth>>
Sets(o) == After(o.w, [regs EXCEPT ![I.dst] = o.v]) /\ UNCHANGED rax
SetsTo(v) == Sets(Gives(world, v))
Does(w) == After(w, regs) /\ UNCHANGED rax

DoMV == Is("MV") /\ SetsTo(Reg(I.src))
DoLoadConstant == Is("LOAD_CONST") /\ SetsTo(I.v)
DoLoadName == Is("LOAD_NAME") /\ SetsTo(IF I.n = "h" THEN world.h ELSE world.g)
DoTypeofName == Is("TYPEOF_NAME") /\ SetsTo(<<"typeof", IF I.n = "h" THEN world.h ELSE world.g>>)
DoStoreName == Is("STORE_NAME") /\ Does(IF I.n = "h" THEN [world EXCEPT !.h = Reg(I.src)]
                                        ELSE [world EXCEPT !.g = Reg(I.src)])
DoBinary == Is("BINARY") /\ Sets(BinaryOp(world, I.bin, Reg(I.a), Reg(I.b)))
DoUnary ==
  /\ Is("UNARY")
  /\ LET v == Reg(I.src)
         n == ToNumber(world, v)
     IN Sets(CASE I.un = "!" -> Gives(world, <<"not", v>>)
               [] I.un = "typeof" -> Gives(world, <<"typeof", v>>)
               [] I.un = "-" -> Gives(n.w, <<"number", <<"minus", n.v>>>>))

DoToNumber == Is("TO_NUMBER") /\ LET n == ToNumber(world, Reg(I.dst)) IN
  Does(n.w)
DoIncrement == Is("INCREMENT") /\ LET n == ToNumber(world, Reg(I.dst)) IN Sets(Gives(n.w, Plus1(n.v)))
\* The old value is written before the new one.
DoPostfixIncrement ==
  /\ Is("POSTFIX_INCREMENT")
  /\ LET n == ToNumber(world, Reg(I.src))
     IN After(n.w, [[regs EXCEPT ![I.dst] = n.v] EXCEPT ![I.src] = Plus1(n.v)])
  /\ UNCHANGED rax
DoIncrementName ==
  /\ outcome = Executing /\ at \in DOMAIN object.code
  /\ I.op \in {"INCREMENT_NAME", "POSTFIX_INCREMENT_NAME"}
  /\ LET n == ToNumber(world, world.h)
     IN After(IF n.w.thrown THEN n.w ELSE [n.w EXCEPT !.h = Plus1(n.v)],
              [regs EXCEPT ![I.dst] = IF I.op = "INCREMENT_NAME" THEN Plus1(n.v) ELSE n.v])
  /\ UNCHANGED rax
DoIncrementProperty ==
  /\ outcome = Executing /\ at \in DOMAIN object.code
  /\ I.op \in {"INCREMENT_PROP", "POSTFIX_INCREMENT_PROP"}
  /\ LET old == Asks(world, <<"get", Reg(I.base), Reg(I.key)>>)
         n == ToNumber(old.w, old.v)
         put == Happens(n.w, <<"put", Reg(I.base), Reg(I.key), Plus1(n.v)>>)
     IN Sets(Gives(put, IF I.op = "INCREMENT_PROP" THEN Plus1(n.v) ELSE n.v))

DoGet == Is("GET") /\ Sets(Asks(world, <<"get", Reg(I.base), Reg(I.key)>>))
DoPut == Is("PUT") /\ Does(Happens(world, <<"put", Reg(I.base), Reg(I.key), Reg(I.src)>>))

\* A value that is not a primitive becomes one; the rest of ToString shows nowhere.
DoToString == Is("TO_STRING") /\ Sets(ToPrimitive(world, Reg(I.dst)))
DoConcat ==
  /\ Is("CONCAT")
  /\ SetsTo(<<"cat", FlattenSeq([i \in 1..I.count |-> Pieces(regs[Temp(I.src + i - 1)])])>>)

\* The callee has its frame over the window: nothing from there on stays.
DoCall ==
  /\ Is("CALL")
  /\ LET value(i) == regs[Temp(I.start + I.argc - i)]
         o == Asks(world, <<"call", Reg(I.callee), value(0), [i \in 1..I.argc |-> value(i)]>>)
     IN /\ After(o.w, [r \in DOMAIN regs |-> IF IsTemp(r) /\ r[2] >= I.start THEN Garbage ELSE regs[r]])
        /\ rax' = o.v
DoResult == Is("RESULT") /\ SetsTo(rax)

DoLoadObject == Is("LOAD_OBJECT") /\ Sets(New(world, <<>>))
DoDupArray == Is("DUP_ARRAY") /\ Sets(New(world, I.items))
Filled(r, index, v) ==
  [world EXCEPT !.objects[regs[r][2]] = [i \in DOMAIN @ \cup {index} |-> IF i = index THEN v ELSE @[i]]]
DoStoreObject == Is("STORE_OBJECT") /\ Does(Filled(I.obj, I.offset, Reg(I.src)))
DoInitArray ==
  /\ Is("INIT_ARRAY")
  /\ Does([world EXCEPT !.objects[regs[I.obj][2]] =
             @ \o [i \in 1..I.count |-> regs[Temp(I.src + i - 1)]]])

\* A value is taken for true or false once, whenever it is tested.
Jumps(v, sense) ==
  \E b \in IF Subject(v) \in DOMAIN truth THEN {truth[Subject(v)]} ELSE BOOLEAN :
    /\ truth' = (Subject(v) :> b) @@ truth
    /\ at' = IF (b = Decides(v)) = sense THEN I.to ELSE at + 1
    /\ UNCHANGED <<source, object, rax>>
DoIf ==
  /\ outcome = Executing /\ at \in DOMAIN object.code /\ I.op \in {"IF_TRUE", "IF_FALSE"}
  /\ Jumps(Reg(I.cond), I.op = "IF_TRUE")
  /\ UNCHANGED <<regs, world, outcome>>
DoIfBinary ==
  /\ Is("IF_BINARY")
  /\ LET o == BinaryOp(world, I.bin, Reg(I.a), Reg(I.b))
     IN /\ world' = o.w /\ UNCHANGED regs
        /\ IF o.w.thrown THEN outcome' = <<"throw">> /\ UNCHANGED <<source, object, at, rax, truth>>
           ELSE Jumps(o.v, I.sense) /\ UNCHANGED outcome
DoJump == Is("JUMP_BY") /\ at' = I.to /\ UNCHANGED <<source, object, regs, world, rax, truth, outcome>>

DoDone ==
  /\ Is("DONE")
  /\ outcome' = <<"done", Reg(I.src)>>
  /\ UNCHANGED <<source, object, at, regs, world, rax, truth>>

-----------------------------------------------------------------------------
Arguments == [n \in Stack |-> <<"any", n>>]
EInit ==
  /\ \E u \in Sources, folded \in BOOLEAN, limit \in 0..MaxLimit :
       /\ source = u
       /\ object = Codes[u][folded]
       /\ world = World(limit)
  /\ regs = [r \in {Local(n) : n \in Stack} \cup {Temp(i) : i \in 0..(object.size - 1)} |->
               IF IsLocal(r) THEN Arguments[r[2]] ELSE Garbage]
  /\ at = 1 /\ rax = Garbage /\ truth = <<>> /\ outcome = Executing

ENext ==
  \/ DoMV \/ DoLoadConstant \/ DoLoadName \/ DoTypeofName \/ DoStoreName \/ DoBinary \/ DoUnary
  \/ DoToNumber \/ DoIncrement \/ DoPostfixIncrement \/ DoIncrementName \/ DoIncrementProperty
  \/ DoGet \/ DoPut \/ DoToString \/ DoConcat \/ DoCall \/ DoResult
  \/ DoLoadObject \/ DoDupArray \/ DoStoreObject \/ DoInitArray
  \/ DoIf \/ DoIfBinary \/ DoJump \/ DoDone

ESpec == EInit /\ [][ENext]_evars

-----------------------------------------------------------------------------
(* Where the code of an expression departs from ES5.  README, section 6.   *)

RECURSIVE Within(_)
Within(e) == {e} \cup UNION {Within(Parts(e)[i]) : i \in DOMAIN Parts(e)}
Arms(e) == CASE e.k = "cond" -> {e.left, e.right}
             [] e.k = "binary" /\ e.op \in {"&&", "||"} -> {e.right}
             [] OTHER -> {}
Assigns(e, x) == \/ e.k = "assign" /\ e.left = Id(x)
                 \/ (e.k = "postfix" \/ (e.k = "unary" /\ e.op = "++")) /\ e.expr = Id(x)
Windowed(e) == \/ e.k \in {"call", "array"}
               \/ e.k = "binary" /\ e.op = "+" /\ IsString(e)

\* The expressions that leave their value in d when they are asked to.
RECURSIVE Destined(_)
Destined(e) ==
  CASE e.k = "binary" /\ e.op = "," -> Destined(e.right)
    [] e.k = "binary" /\ e.op \in {"&&", "||"} -> {e} \cup Destined(e.left) \cup Destined(e.right)
    [] e.k = "cond" -> Destined(e.left) \cup Destined(e.right)
    [] OTHER -> {e}
\* A local that is written before the right side of its assignment is evaluated.
WritesEarly(e) ==
  /\ e.k = "assign" /\ e.op = "=" /\ e.left.k = "id"
  /\ \E d \in Destined(e.right) : (d.k = "binary" /\ d.op \in {"&&", "||"}) \/ d = Unary("++", Id("g"))
ReadsEarly(e) ==
  /\ e.k = "assign" /\ e.op = "=" /\ e.left.k = "id"
  /\ \E d \in Destined(e.right) :
       \/ d = Postfix(e.left)
       \/ d.k = "binary" /\ d.op \in {"&&", "||"} /\ e.left \in Within(d.right)

\* The locals that are used where they are while other operands are evaluated.
RECURSIVE InPlace(_)
InPlace(e) ==
  CASE e.k = "id" /\ e.n \in Stack -> {e.n}
    [] e.k = "assign" /\ e.left.k = "id" /\ e.left.n \in {"x", "y"} -> {e.left.n}
    [] e.k = "unary" /\ e.op = "++" /\ e.expr.k = "id" /\ e.expr.n \in {"x", "y"} -> {e.expr.n}
    [] e.k = "binary" /\ e.op = "," -> InPlace(e.right)
    [] OTHER -> {}
HeldOver(e) ==
  LET over(l, later) == {<<x, later>> : x \in InPlace(l)}
      ref == IF e.k = "assign" THEN e.left ELSE e
  IN (IF e.k = "binary" \/ e.k = "assign" THEN over(e.left, e.right) ELSE {})
     \cup (IF ref.k = "index" THEN over(ref.target, ref.key) ELSE {})
     \cup (IF e.k = "assign" /\ ref.k = "index"
           THEN over(ref.target, e.right) \cup over(ref.key, e.right) ELSE {})
\* It is spilled in one arm of a branch, and read where the arms meet.
SpilledInArm(e) ==
  \E held \in HeldOver(e) : \E b \in Within(held[2]) : \E arm \in Arms(b) : \E w \in Within(arm) :
    Assigns(w, held[1]) \/ (Windowed(w) /\ SideEffect(w))
\* It is spilled above a window, by a prefix increment SideEffect does not see.
SpilledOverWindow(e) ==
  \E held \in HeldOver(e) : \E w \in Within(held[2]) :
    Windowed(w) /\ ~SideEffect(w) /\ Unary("++", Id(held[1])) \in Within(w)

Departs(e) == \/ e = Postfix(Id("c"))   \* its value is not made a number
              \/ ReadsEarly(e) \/ SpilledInArm(e) \/ SpilledOverWindow(e)
Any1(P(_), e) == \E w \in Within(e) : P(w)

-----------------------------------------------------------------------------
(* Properties                                                              *)
Evaluated == outcome # Executing

\* What ES5 says of the expression in the same world.
Expected ==
  Evaluate([w |-> World(world.limit), locals |-> Arguments, truth |-> truth], source.e)
Agrees(o) ==
  /\ \/ [n \in Stack |-> regs[Local(n)]] = o.m.locals
     \/ o.m.w.thrown /\ Any1(WritesEarly, source.e)
  /\ [world EXCEPT !.objects = <<>>] = [o.m.w EXCEPT !.objects = <<>>]
  /\ ~o.m.w.thrown => world.objects = o.m.w.objects
  /\ outcome = IF o.m.w.thrown THEN <<"throw">>
               ELSE CASE source.as = "statement" -> <<"done", <<"undefined">>>>
                      [] source.as = "value" -> <<"done", o.v>>
                      [] source.as = "condition" ->
                           <<"done", IF ToBoolean(truth, o.v) THEN <<"true">> ELSE <<"false">>>>

\* Every operand is evaluated once, in order, and kept until it is used,
\* whatever is assigned, called or thrown meanwhile.
EvaluatesAsES5 == (Evaluated /\ ~Any1(Departs, source.e)) => Agrees(Expected)

\* The window of a call is on top of the registers that are in use, and every
\* register asked for is free (the assertions of the compiler).
AssertionsHold == object.asserted
WindowsStayOnTop == AssertionsHold \/ Any1(SpilledOverWindow, source.e)
=============================================================================
