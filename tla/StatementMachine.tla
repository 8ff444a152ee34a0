-------------------------- MODULE StatementMachine --------------------------
(***************************************************************************)
(* The bytecode of statements on railgun's VM (railgun/vm.h): jumps,       *)
(* subroutines for finally, environments, the iterators of for-in with     *)
(* their cache (railgun/context.h), and the search of the exception table. *)
(***************************************************************************)
EXTENDS StatementCompiler

CONSTANTS
  Programs,     \* the function bodies tried, sequences of statements
  Binaries,     \* what they are compiled to, once and before they run
  MaxAnswers,   \* bound: how many conditions are decided freely; later ones are false
  MaxTrace,     \* bound of the log
  IteratorCacheMax   \* kNativeIteratorCacheMax

ASSUME BinariesAssumption == Binaries = [p \in Programs |-> Compile(p)]

VARIABLES
  program, binary,   \* the body and what it was compiled to
  pc, registers, env,   \* of the frame; env is the number of environments entered
  iterators,         \* the native iterators there are: where each one stands
  cache,             \* iterator_cache_
  taken, trace,      \* the answers of the conditions and the log
  result

svars == <<program, binary, pc, registers, env, iterators, cache, taken, trace, result>>
input == <<program, binary>>
Running == [t |-> "running"]
FromSubroutine == -1   \* kJumpFromSubroutine
FromFinally == -2      \* kJumpFromFinally

Instr == binary.code[pc]
At(ops) == result = Running /\ pc \in DOMAIN binary.code /\ Instr.op \in ops
Goto(to) == pc' = to /\ UNCHANGED <<input, result>>
Next1 == Goto(pc + 1)
Same == UNCHANGED <<registers, env, iterators, cache, taken, trace>>

-----------------------------------------------------------------------------
DoLog ==
  /\ At({"LOG"}) /\ Len(trace) < MaxTrace
  /\ trace' = Append(trace, <<Instr.n, env>>)
  /\ Next1 /\ UNCHANGED <<registers, env, iterators, cache, taken>>

Answers == IF Len(taken) < MaxAnswers THEN BOOLEAN ELSE {FALSE}

DoConditional ==
  /\ At({"IF_TRUE", "IF_FALSE"}) /\ Len(taken) < MaxTrace
  /\ \E b \in Answers :
       /\ taken' = Append(taken, b)
       /\ IF b = (Instr.op = "IF_TRUE") THEN Goto(Instr.to) ELSE Next1
  /\ UNCHANGED <<registers, env, iterators, cache, trace>>

DoJumpBy == At({"JUMP_BY"}) /\ Goto(Instr.to) /\ Same

Set(r, v) ==
  /\ registers' = [registers EXCEPT ![r] = v]
  /\ UNCHANGED <<env, iterators, cache, taken, trace>>
DoLoadConst == At({"LOAD_CONST"}) /\ Set(Instr.dst, Instr.n) /\ Next1
DoMove == At({"MV"}) /\ Set(Instr.dst, registers[Instr.src]) /\ Next1

DoJumpSubroutine ==
  /\ At({"JUMP_SUBROUTINE"})
  /\ registers' = [registers EXCEPT ![Instr.jmp] = pc + 1, ![Instr.flag] = FromSubroutine]
  /\ Goto(Instr.to) /\ UNCHANGED <<env, iterators, cache, taken, trace>>

DoReturn ==
  /\ At({"RETURN"})
  /\ result' = [t |-> "return", v |-> registers[Instr.src]]
  /\ Same /\ UNCHANGED <<input, pc>>

PopEnv == env' = env - 1 /\ UNCHANGED <<registers, iterators, cache, taken, trace>>
DoPopEnv == At({"POP_ENV"}) /\ PopEnv /\ Next1

\* The catch variable is logged when its environment is there.
DoCatchSetup ==
  /\ At({"TRY_CATCH_SETUP"}) /\ Len(trace) < MaxTrace
  /\ env' = env + 1
  /\ trace' = Append(trace, <<registers[Instr.src], env + 1>>)
  /\ Next1 /\ UNCHANGED <<registers, iterators, cache, taken>>

-----------------------------------------------------------------------------
(* The lifetime of native iterators                                        *)

\* ReleaseNativeIterator: one that does not fit in the cache is deleted.
Released(c, it) == IF Len(c) < IteratorCacheMax THEN Append(c, it) ELSE c

\* GainNativeIterator and Fill: the last one of the cache, or a new one.
DoForInSetup ==
  /\ At({"FORIN_SETUP"})
  /\ IF Instr.names = NotIterable THEN Goto(Instr.to) /\ Same
     ELSE LET it == IF cache # <<>> THEN Last(cache) ELSE Len(iterators) + 1
              filled == [base |-> 10 * Instr.id, next |-> 1, names |-> Instr.names]
          IN /\ cache' = IF cache # <<>> THEN Front(cache) ELSE cache
             /\ iterators' = IF cache # <<>> THEN [iterators EXCEPT ![it] = filled]
                             ELSE Append(iterators, filled)
             /\ registers' = [registers EXCEPT ![Instr.it] = it]
             /\ Next1 /\ UNCHANGED <<env, taken, trace>>

DoForInEnumerate ==
  /\ At({"FORIN_ENUMERATE"}) /\ Len(trace) < MaxTrace
  /\ LET it == registers[Instr.it]
         at == iterators[it]
     IN IF at.next <= at.names
        THEN /\ iterators' = [iterators EXCEPT ![it].next = @ + 1]
             /\ trace' = Append(trace, <<at.base + at.next, env>>)
             /\ Next1 /\ UNCHANGED <<registers, env, cache, taken>>
        ELSE Goto(Instr.to) /\ Same

DoForInLeave ==
  /\ At({"FORIN_LEAVE"})
  /\ cache' = Released(cache, registers[Instr.it])
  /\ Next1 /\ UNCHANGED <<registers, env, iterators, taken, trace>>

-----------------------------------------------------------------------------
(* Exceptions                                                              *)

\* The search of the exception table from handler i on.  It stops at a handler
\* that begins further on, once one was in range.
\* Mutant: it stops at any handler further on.
GivesUpEarly(h, seen) == h.begin > pc
InRange(h) == h.begin <= pc /\ pc < h.end
GivesUp(h, seen) == seen /\ h.begin > pc

RECURSIVE Search(_, _, _)
Search(i, seen, undone) ==
  LET h == binary.handlers[i]
  IN IF i > Len(binary.handlers) THEN [found |-> FALSE, undone |-> undone]
     ELSE IF GivesUp(h, seen) THEN [found |-> FALSE, undone |-> undone]
     ELSE IF ~InRange(h) THEN Search(i + 1, seen, undone)
     ELSE IF h.type \in {"iterator", "env"} THEN Search(i + 1, TRUE, Append(undone, h))
     ELSE [found |-> TRUE, undone |-> undone, handler |-> h]

Thrown(v) ==
  LET s == Search(1, FALSE, <<>>)
      h == s.handler
      leave(c, u) == IF u.type = "iterator" THEN Released(c, registers[u.ret]) ELSE c
  IN /\ cache' = FoldLeft(leave, cache, s.undone)
     /\ env' = env - Len(SelectSeq(s.undone, LAMBDA u : u.type = "env"))
     /\ IF ~s.found
        THEN /\ result' = [t |-> "throw", v |-> v]
             /\ UNCHANGED <<pc, registers, input>>
        ELSE /\ registers' = IF h.type = "finally"
                             THEN [registers EXCEPT ![h.flag] = FromFinally, ![h.jmp] = v]
                             ELSE [registers EXCEPT ![h.ret] = v]
             /\ Goto(h.end)
     /\ UNCHANGED <<iterators, taken, trace>>

DoThrow == At({"THROW"}) /\ Thrown(Instr.n)

DoWithSetup ==
  /\ At({"WITH_SETUP"})
  /\ IF ~Instr.ok THEN Thrown(TypeError)
     ELSE env' = env + 1 /\ Next1 /\ UNCHANGED <<registers, iterators, cache, taken, trace>>

\* The end of a finally block: back to where it was called from, or the error
\* that led to it again.
DoReturnSubroutine ==
  /\ At({"RETURN_SUBROUTINE"})
  /\ IF registers[Instr.flag] = FromSubroutine THEN Goto(registers[Instr.jmp]) /\ Same
     ELSE Thrown(registers[Instr.jmp])

-----------------------------------------------------------------------------
SInit ==
  /\ program \in Programs
  /\ binary = Binaries[program]
  /\ pc = 1 /\ env = 0
  /\ registers = [r \in 0..(binary.registers - 1) |-> 0]
  /\ iterators = <<>> /\ cache = <<>> /\ taken = <<>> /\ trace = <<>>
  /\ result = Running

SNext ==
  \/ DoLog \/ DoConditional \/ DoJumpBy \/ DoLoadConst \/ DoMove
  \/ DoJumpSubroutine \/ DoReturnSubroutine \/ DoReturn \/ DoPopEnv \/ DoCatchSetup
  \/ DoForInSetup \/ DoForInEnumerate \/ DoForInLeave \/ DoThrow \/ DoWithSetup

SSpec == SInit /\ [][SNext]_svars

-----------------------------------------------------------------------------
(* Properties                                                              *)
Done == result # Running

\* What the program has to do for the answers it got.
Reference ==
  LET c == InTurn(program, [taken |-> taken, used |-> 0, trace |-> <<>>, fuel |-> 60], 0)
  IN [trace |-> c.x.trace, used |-> c.x.used,
      result |-> IF c.t = "normal" THEN [t |-> "return", v |-> 0] ELSE [t |-> c.t, v |-> c.v]]

\* A handler that is not found because of one between it and the one before.
HidesHandler ==
  \E i \in DOMAIN binary.handlers : \E j \in (i + 1)..Len(binary.handlers) :
    /\ binary.handlers[i].type \in {"iterator", "env"}
    /\ binary.handlers[j].begin >= binary.handlers[i].end

\* Whatever is thrown gets to the innermost catch or finally around it, and a
\* body completes as ES5, 12, says, in the environment it was entered with.
CompletesAsES5 ==
  Done => LET r == Reference
          IN r.result = result /\ r.trace = trace /\ r.used = Len(taken) /\ env = 0

\* A body completes as ES5 says, with the same log in the same environments,
\* through every finally, catch, with and loop it passes.
CompletesWhenHandlersFound == ~HidesHandler => CompletesAsES5

\* Code that the compiler took for dead and left out is never reached.
StaysInCode == pc \in DOMAIN binary.code

\* No iterator is released twice, which two loops would then share.
ReleasedOnce == \A i, j \in DOMAIN cache : i # j => cache[i] # cache[j]

\* A continue that leaves a for-in loop for a loop around it with no level in
\* between.  exposed are the loops of this level, over the loops of a level
\* right below a for-in.
RECURSIVE ContinuesOver(_, _, _)
ContinuesOver(s, exposed, over) ==
  LET any(body, e, o) == \E i \in DOMAIN body : ContinuesOver(body[i], e, o)
  IN CASE s.k = "continue" -> s.id \in over
       [] s.k = "block" -> any(s.list, exposed, over)
       [] s.k = "if" -> any(<<s.then>> \o s.else, exposed, over)
       [] s.k \in {"while", "dowhile", "for"} ->
            ContinuesOver(s.body, exposed \cup {s.id}, over)
       [] s.k = "forin" -> ContinuesOver(s.body, {}, over \cup exposed)
       [] s.k = "with" -> ContinuesOver(s.body, {}, over)
       [] s.k = "switch" -> \E i \in DOMAIN s.clauses : any(s.clauses[i].body, exposed, over)
       [] s.k = "try" -> \/ ContinuesOver(s.body, IF s.finally = Nothing THEN exposed ELSE {}, over)
                         \/ any(s.catch, {}, over) \/ any(s.finally, exposed, over)
       [] OTHER -> FALSE

AllReleased == Done => {cache[i] : i \in DOMAIN cache} = DOMAIN iterators

\* Every iterator is given back when the function is left, however that is, and
\* none twice.
IteratorsReleased ==
  /\ ReleasedOnce
  /\ (~HidesHandler /\ ~\E i \in DOMAIN program : ContinuesOver(program[i], {}, {})) => AllReleased
=============================================================================
