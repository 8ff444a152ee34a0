--------------------------- MODULE PatternMachine ---------------------------
(***************************************************************************)
(* aero/vm.h: the backtracking machine that runs a compiled pattern, one   *)
(* instruction a step.  A frame of the stack is a copy of the captures and *)
(* counters with the position and the address to go on at.                 *)
(***************************************************************************)
EXTENDS PatternCompiler

CONSTANTS
  Patterns,   \* the patterns tried, a set of [tokens, flags]
  Programs,   \* what they are parsed and compiled to before they are run
  Subjects,   \* the subjects
  Expected,   \* what the reference matcher finds for each of them
  MaxFrames   \* bound of the backtrack stack, which NewState doubles at need

VARIABLES
  program, subject, \* the input
  offset,           \* ExecuteImpl's
  phase,            \* "scan" between attempts, "run" in Main, then "done"
  pc, pos, caps, counters, stack,
  result

vmvars == <<program, subject, offset, phase, pc, pos, caps, counters, stack, result>>
inputs == <<program, subject>>

Load(source) ==
  LET parsed == ParsePattern(source.tokens)
  IN [source |-> source, parsed |-> parsed, code |-> Compile(parsed, source.flags)]

ASSUME ProgramsAssumption == Programs = {Load(source) : source \in Patterns}

ASSUME ExpectedAssumption ==
  Expected = [p \in Programs |-> [t \in Subjects |->
                LeftmostMatch(p.parsed.pattern, p.code.captures - 1, t, 0, p.source.flags)]]

Code == program.code
Flags == program.source.flags
Instr == Code.bytes[pc]
Running(ops) == phase = "run" /\ Instr.op \in ops

-----------------------------------------------------------------------------
(* ExecuteImpl                                                             *)

\* The loop looks for an offset the filter lets through.
Passes(i) ==
  IF Code.filter = 0 THEN i <= Len(subject)
  ELSE /\ i < Len(subject)
       /\ IF Code.one_char THEN subject[i + 1] = Code.filter
          ELSE Code.filter & subject[i + 1] = subject[i + 1]

Skip ==
  /\ phase = "scan"
  /\ offset <= Len(subject)
  /\ ~Passes(offset)
  /\ offset' = offset + 1
  /\ UNCHANGED <<inputs, phase, pc, pos, caps, counters, stack, result>>

Attempt ==
  /\ phase = "scan"
  /\ Passes(offset)
  /\ phase' = "run"
  /\ pc' = 1 /\ pos' = offset /\ stack' = <<>>
  /\ caps' = [n \in 1..(Code.captures - 1) |-> <<Undefined, Undefined>>]
  /\ counters' = [n \in 0..(Code.counters - 1) |-> Undefined]
  /\ UNCHANGED <<inputs, offset, result>>

GiveUpScan ==
  /\ phase = "scan"
  /\ offset > Len(subject)
  /\ phase' = "done" /\ result' = Failure
  /\ UNCHANGED <<inputs, offset, pc, pos, caps, counters, stack>>

-----------------------------------------------------------------------------
(* Main                                                                    *)

Next1 == pc' = pc + 1 /\ UNCHANGED <<inputs, offset, phase, result>>
Goto(at) == pc' = at /\ UNCHANGED <<inputs, offset, phase, result>>

\* BACKTRACK of a stack: its top frame, or the next offset when it is empty.
BacktrackFrom(st) ==
  /\ UNCHANGED <<inputs, result>>
  /\ IF st = <<>>
     THEN /\ phase' = "scan" /\ offset' = offset + 1
          /\ stack' = <<>> /\ UNCHANGED <<pc, pos, caps, counters>>
     ELSE LET f == Last(st)
          IN /\ pc' = f.target /\ pos' = f.pos /\ caps' = f.caps /\ counters' = f.counters
             /\ stack' = Front(st) /\ UNCHANGED <<phase, offset>>

Backtrack == BacktrackFrom(stack)

PushBacktrack ==
  /\ Running({"PUSH_BACKTRACK"})
  /\ Len(stack) < MaxFrames
  /\ stack' = Append(stack, [caps |-> caps, counters |-> counters,
                             pos |-> pos, target |-> Instr.target])
  /\ UNCHANGED <<pos, caps, counters>> /\ Next1

StartCapture ==
  /\ Running({"START_CAPTURE"})
  /\ caps' = [caps EXCEPT ![Instr.num] = <<pos, Undefined>>]
  /\ UNCHANGED <<pos, counters, stack>> /\ Next1

EndCapture ==
  /\ Running({"END_CAPTURE"})
  /\ caps' = [caps EXCEPT ![Instr.num][2] = pos]
  /\ UNCHANGED <<pos, counters, stack>> /\ Next1

ClearCaptures ==
  /\ Running({"CLEAR_CAPTURES"})
  /\ caps' = [n \in DOMAIN caps |-> IF n \in Instr.from..Instr.to
                                    THEN <<Undefined, Undefined>> ELSE caps[n]]
  /\ UNCHANGED <<pos, counters, stack>> /\ Next1

Advance(n) == pos' = pos + n /\ UNCHANGED <<caps, counters, stack>> /\ Next1

\* BACK_REFERENCE and BACK_REFERENCE_IGNORE_CASE
RefersTo(from, at) ==
  subject[at] \in IF Flags.ignoreCase
                  THEN {subject[from], Upper[subject[from]], Lower[subject[from]]}
                  ELSE {subject[from]}

BackReference ==
  /\ Running({"BACK_REFERENCE"})
  /\ LET c == caps[Instr.num]
         length == c[2] - c[1]
     IN IF c[2] = Undefined THEN Advance(0)
        ELSE IF /\ pos + length <= Len(subject)
                /\ \A i \in 1..length : RefersTo(c[1] + i, pos + i)
        THEN Advance(length) ELSE Backtrack

StoreCounter(c, v) ==
  /\ counters' = [counters EXCEPT ![c] = v]
  /\ UNCHANGED <<pos, caps, stack>>

StorePosition == Running({"STORE_POSITION"}) /\ StoreCounter(Instr.counter, pos) /\ Next1
StoreSP == Running({"STORE_SP"}) /\ StoreCounter(Instr.counter, Len(stack)) /\ Next1
CounterZero == Running({"COUNTER_ZERO"}) /\ StoreCounter(Instr.counter, 0) /\ Next1

PositionTest ==
  /\ Running({"POSITION_TEST"})
  /\ IF pos # counters[Instr.counter] THEN Advance(0) ELSE Backtrack

CounterNext ==
  /\ Running({"COUNTER_NEXT"})
  /\ LET n == counters[Instr.counter] + 1
     IN /\ StoreCounter(Instr.counter, n)
        /\ IF n < Instr.max THEN Goto(Instr.target) ELSE Next1

\* The loop over sorted ranges stops at the first that begins above ch.
InRanges(ranges, ch) ==
  \E i \in DOMAIN ranges : /\ ch <= ranges[i][2]
                           /\ \A j \in 1..i : ranges[j][1] <= ch

Check ==
  /\ Running({"CHECK_CHAR", "CHECK_N_CHARS", "CHECK_RANGE"})
  /\ LET n == IF Instr.op = "CHECK_N_CHARS" THEN Len(Instr.chars) ELSE 1
         good == CASE Instr.op = "CHECK_CHAR" -> subject[pos + 1] \in Instr.chars
                   [] Instr.op = "CHECK_N_CHARS" ->
                        \A i \in 1..n : subject[pos + i] \in Instr.chars[i]
                   [] OTHER -> InRanges(Instr.ranges, subject[pos + 1]) # Instr.inverted
     IN IF pos + n <= Len(subject) /\ good THEN Advance(n) ELSE Backtrack

\* A look-ahead that matched drops every frame of its body and moves back to
\* where it began, which its own frame still says.
\* Mutant: the position stays where the body ended.
AssertionSuccessMovesOn ==
  /\ Running({"ASSERTION_SUCCESS"})
  /\ stack' = SubSeq(stack, 1, counters[Instr.counter])
  /\ UNCHANGED <<pos, caps, counters>> /\ Goto(Instr.target)

AssertionSuccess ==
  /\ Running({"ASSERTION_SUCCESS"})
  /\ LET sp == counters[Instr.counter]
     IN pos' = stack[sp + 1].pos /\ stack' = SubSeq(stack, 1, sp)
  /\ UNCHANGED <<caps, counters>> /\ Goto(Instr.target)

AssertionFailure ==
  /\ Running({"ASSERTION_FAILURE"})
  /\ BacktrackFrom(SubSeq(stack, 1, counters[Instr.counter]))

Holds(op) ==
  CASE op = "ASSERTION_BOB" -> pos = 0
    [] op = "ASSERTION_EOB" -> pos = Len(subject)
    [] op = "ASSERTION_BOL" -> pos = 0 \/ subject[pos] = Newline
    [] op = "ASSERTION_EOL" -> pos = Len(subject) \/ subject[pos + 1] = Newline
    [] op = "ASSERTION_WORD_BOUNDARY" -> AtBoundary(subject, pos)
    [] op = "ASSERTION_WORD_BOUNDARY_INVERTED" -> ~AtBoundary(subject, pos)

TestAssertion ==
  /\ Running({"ASSERTION_BOB", "ASSERTION_EOB", "ASSERTION_BOL", "ASSERTION_EOL",
              "ASSERTION_WORD_BOUNDARY", "ASSERTION_WORD_BOUNDARY_INVERTED"})
  /\ IF Holds(Instr.op) THEN Advance(0) ELSE Backtrack

Fail == Running({"FAILURE"}) /\ Backtrack

JumpTo ==
  /\ Running({"JUMP"})
  /\ UNCHANGED <<pos, caps, counters, stack>> /\ Goto(Instr.target)

Succeed ==
  /\ Running({"SUCCESS"})
  /\ phase' = "done"
  /\ result' = Success(offset, [pos |-> pos, caps |-> caps])
  /\ UNCHANGED <<inputs, offset, pc, pos, caps, counters, stack>>

-----------------------------------------------------------------------------
VMInit ==
  /\ program \in Programs
  /\ subject \in Subjects
  /\ offset = 0 /\ phase = "scan" /\ result = Failure
  /\ pc = 1 /\ pos = 0 /\ caps = <<>> /\ counters = <<>> /\ stack = <<>>

VMNext ==
  \/ Skip \/ Attempt \/ GiveUpScan
  \/ PushBacktrack \/ StartCapture \/ EndCapture \/ ClearCaptures \/ BackReference
  \/ StorePosition \/ PositionTest \/ StoreSP \/ CounterZero \/ CounterNext
  \/ Check \/ AssertionSuccess \/ AssertionFailure \/ TestAssertion \/ Fail \/ JumpTo \/ Succeed

-----------------------------------------------------------------------------
(* Properties                                                              *)

\* Two departures from the reference (README, section 6): a ?
\* quantifier accepts an iteration that is empty, and the quick check does not
\* see an alternative that is empty.
RECURSIVE CanBeEmpty(_)
EmptyAlternative(alt) == \A i \in DOMAIN alt : CanBeEmpty(alt[i])
CanBeEmpty(e) ==
  CASE e.k = "group" -> \E i \in DOMAIN e.dis : EmptyAlternative(e.dis[i])
    [] e.k = "quant" -> e.min = 0 \/ CanBeEmpty(e.expr)
    [] OTHER -> e.k \notin {"char", "string", "range"}

RECURSIVE OptionalEmpty(_)
SomeOptionalEmpty(dis) ==
  \E i \in DOMAIN dis : \E j \in DOMAIN dis[i] : OptionalEmpty(dis[i][j])
OptionalEmpty(e) ==
  \/ e.k = "quant" /\ (OptionalEmpty(e.expr) \/
                       (e.min = 0 /\ e.max = 1 /\ CanBeEmpty(e.expr)))
  \/ e.k \in {"group", "look"} /\ SomeOptionalEmpty(e.dis)

RECURSIVE StartsEmpty(_)
StartsEmpty(dis) ==
  \E i \in DOMAIN dis :
    \/ dis[i] = <<>>
    \/ dis[i] # <<>> /\ dis[i][1].k = "group" /\ StartsEmpty(dis[i][1].dis)

Tree == program.parsed.pattern
MatchesReference == result = Expected[program][subject]

\* What the machine answers, captures included, is what the reference
\* matcher of ECMAScript 5, 15.10.2 finds: the right alternative, the right
\* number of iterations, captures cleared and restored (Compiler, VM::Main).
MatchesES5 ==
  (phase = "done" /\ ~SomeOptionalEmpty(Tree) /\ ~StartsEmpty(Tree)) => MatchesReference

\* The parser gives a pattern the tree that has its text, and numbers the
\* groups in the order in which they open, also when it backs out of nested
\* ones (Parser::ParseDisjunction, captures_).
ParserKeepsText ==
  (phase = "scan" /\ offset = 0) =>
    LET r == program.parsed
    IN /\ r.ok
       /\ TextOf(r.pattern) = program.source.tokens
       /\ NumbersOf(r.pattern) = [n \in 1..(r.max_captures - 1) |-> n]

\* A match always ends, also of patterns that repeat what can be empty
\* (STORE_POSITION and POSITION_TEST).
Ends == (phase = "scan" /\ offset = 0) ~> (phase = "done")
=============================================================================
