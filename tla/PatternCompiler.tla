-------------------------- MODULE PatternCompiler --------------------------
(***************************************************************************)
(* aero/compiler.h, quick_check.h and range_builder.h: from the tree of a  *)
(* pattern to the bytecode of the backtracking machine.  One instruction   *)
(* is one element of the code, so an address is an index.                  *)
(***************************************************************************)
EXTENDS PatternParser, FiniteSetsExt, Bitwise

CONSTANT FilterLimit   \* static size of QuickCheck::Aggregator::characters_

-----------------------------------------------------------------------------
(* The compiler's state: code_, current_captures_num_, the counters_ given  *)
(* back and counters_size_; env has the flags.                             *)
Start == [code |-> <<>>, cap |-> 0, free |-> {}, size |-> 0]

Current(st) == Len(st.code) + 1
Emit(st, instr) == [st EXCEPT !.code = Append(@, instr)]
EmitAt(st, at) == [st EXCEPT !.code[at].target = Current(st)]
Op(name) == [op |-> name]
Jump(name) == [op |-> name, target |-> 0]
OnCounter(name, c) == [op |-> name, counter |-> c]

\* CounterHolder: body runs with a counter nobody holds, which is given back.
\* Mutant: it is given back at once.
HoldingNothing(st, body(_, _)) ==
  LET c == IF st.free = {} THEN st.size ELSE Min(st.free)
  IN body([st EXCEPT !.free = @ \cup {c},
                     !.size = IF st.free = {} THEN @ + 1 ELSE @], c)

Holding(st, body(_, _)) ==
  LET c == IF st.free = {} THEN st.size ELSE Min(st.free)
      taken == [st EXCEPT !.free = @ \ {c},
                          !.size = IF st.free = {} THEN @ + 1 ELSE @]
  IN [body(taken, c) EXCEPT !.free = @ \cup {c}]

EmitClearCaptures(st, capture) ==
  IF st.cap = capture THEN st
  ELSE Emit(st, [op |-> "CLEAR_CAPTURES", from |-> st.cap + 1, to |-> capture])

\* EmitCharacter; a class of the characters that pass stands for the four
\* CHECK_..CHAR instructions.
CaseVariants(c, env) == IF env.flags.ignoreCase THEN {c, Upper[c], Lower[c]} ELSE {c}
EmitCharacter(st, c, env) == Emit(st, [op |-> "CHECK_CHAR", chars |-> CaseVariants(c, env)])

-----------------------------------------------------------------------------
(* RangeBuilder: what was added, sorted, then joined where it touches.      *)
Added(r, env) ==
  IF env.flags.ignoreCase
  THEN UNION {{<<c, c>>, <<Upper[c], Upper[c]>>, <<Lower[c], Lower[c]>>} : c \in r[1]..r[2]}
  ELSE {r}

Join(acc, r) ==
  IF acc # <<>> /\ Last(acc)[2] + 1 >= r[1]
  THEN [acc EXCEPT ![Len(acc)] = <<@[1], IF @[2] > r[2] THEN @[2] ELSE r[2]>>]
  ELSE Append(acc, r)

Finish(ranges, env) ==
  LET before(r, s) == r[1] < s[1] \/ (r[1] = s[1] /\ r[2] <= s[2])
      first(S) == CHOOSE r \in S : \A s \in S : before(r, s)
      RECURSIVE sorted(_)
      sorted(S) == IF S = {} THEN <<>> ELSE <<first(S)>> \o sorted(S \ {first(S)})
  IN FoldLeft(Join, <<>>, sorted(UNION {Added(r, env) : r \in Range(ranges)}))

-----------------------------------------------------------------------------
RECURSIVE Visit(_, _, _)
VisitTerms(terms, st, env) == FoldLeft(LAMBDA s, t : Visit(t, s, env), st, terms)

\* Visit(Disjunction*): jmps are the jumps to the end of it.
VisitDisjunction(dis, st, env) ==
  LET but(acc, alt) ==
        LET at == Current(acc.st)
            body == VisitTerms(alt, Emit(acc.st, Jump("PUSH_BACKTRACK")), env)
        IN [st |-> EmitAt(Emit(body, Jump("JUMP")), at),
            jmps |-> Append(acc.jmps, Current(body))]
      all == FoldLeft(but, [st |-> st, jmps |-> <<>>], Front(dis))
  IN FoldLeft(EmitAt, VisitTerms(Last(dis), all.st, env), all.jmps)

\* Visit(DisjunctionAssertion*)
VisitLook(e, st, env) ==
  Holding(st, LAMBDA s, c :
    LET at == Current(s) + 1
        body == VisitDisjunction(e.dis, Emit(Emit(s, OnCounter("STORE_SP", c)),
                                             Jump("PUSH_BACKTRACK")), env)
    IN IF e.inverted
       THEN EmitAt(Emit(body, OnCounter("ASSERTION_FAILURE", c)), at)
       ELSE EmitAt(Emit(EmitAt(Emit(body, [op |-> "ASSERTION_SUCCESS", counter |-> c,
                                           target |-> 0]), at),
                        Op("FAILURE")), Current(body)))

EmitFixed(e, fixed, capture, st, env) ==
  IF fixed = 1 THEN Visit(e.expr, st, env)
  ELSE Holding(st, LAMBDA s, c :
    LET zero == Emit(s, OnCounter("COUNTER_ZERO", c))
        body == Visit(e.expr, EmitClearCaptures(zero, capture), env)
    IN Emit(body, [op |-> "COUNTER_NEXT", counter |-> c, max |-> fixed,
                   target |-> Current(zero)]))

\* PUSH_BACKTRACK to what follows, or for a lazy quantifier to the body.
Choice(e, st) ==
  IF e.greedy THEN Emit(st, Jump("PUSH_BACKTRACK"))
  ELSE EmitAt(Emit(Emit(st, Jump("PUSH_BACKTRACK")), Jump("JUMP")), Current(st))
Leaves(e, st) == IF e.greedy THEN Current(st) ELSE Current(st) + 1

\* One more iteration between STORE_POSITION and POSITION_TEST.
\* Mutant: an iteration that matched nothing goes round again.
IterationUntested(e, capture, st, p, env) ==
  Visit(e.expr, Emit(EmitClearCaptures(st, capture), OnCounter("STORE_POSITION", p)), env)

Iteration(e, capture, st, p, env) ==
  LET body == Visit(e.expr, Emit(EmitClearCaptures(st, capture),
                                 OnCounter("STORE_POSITION", p)), env)
  IN Emit(body, OnCounter("POSITION_TEST", p))

EmitInfinity(e, capture, st, env) ==
  Holding(st, LAMBDA s, p :
    EmitAt(Emit(Iteration(e, capture, Choice(e, s), p, env),
                [op |-> "JUMP", target |-> Current(s)]),
           Leaves(e, s)))

EmitFollowingRepeat(e, max, capture, st, env) ==
  Holding(st, LAMBDA s0, c : Holding(s0, LAMBDA s1, p :
    LET s == Emit(s1, OnCounter("COUNTER_ZERO", c))
    IN EmitAt(Emit(Iteration(e, capture, Choice(e, s), p, env),
                   [op |-> "COUNTER_NEXT", counter |-> c, max |-> max,
                    target |-> Current(s)]),
              Leaves(e, s))))

\* The ? pattern
EmitOptional(e, capture, st, env) ==
  EmitAt(Visit(e.expr, EmitClearCaptures(Choice(e, st), capture), env), Leaves(e, st))

\* Visit(Quantifiered*)
VisitQuantifier(e, st, env) ==
  LET capture == GainNextCaptures(e.expr, st.cap)
      more(s, max) == IF e.max = Infinity THEN EmitInfinity(e, capture, s, env)
                      ELSE EmitFollowingRepeat(e, max, capture, s, env)
      done ==
        IF e.max = 0 THEN EmitClearCaptures(st, capture)
        ELSE IF e.min = e.max THEN EmitFixed(e, e.min, capture, st, env)
        ELSE IF e.min = 0 /\ e.max = 1 THEN EmitOptional(e, capture, st, env)
        ELSE IF e.min = 0 THEN more(st, e.max)
        ELSE more([EmitFixed(e, e.min, capture, st, env) EXCEPT !.cap = st.cap],
                  e.max - e.min)
  IN [done EXCEPT !.cap = capture]

VisitGroup(e, st, env) ==
  IF e.num = 0 THEN VisitDisjunction(e.dis, st, env)
  ELSE LET open == Emit([st EXCEPT !.cap = IF @ > e.num THEN @ ELSE e.num],
                        [op |-> "START_CAPTURE", num |-> e.num])
       IN Emit(VisitDisjunction(e.dis, open, env), [op |-> "END_CAPTURE", num |-> e.num])

Visit(e, st, env) ==
  LET either(b, yes, no) == Emit(st, Op(IF b THEN yes ELSE no))
  IN CASE e.k = "char" -> EmitCharacter(st, e.ch, env)
       [] e.k = "string" -> Emit(st, [op |-> "CHECK_N_CHARS", chars |->
                              [i \in DOMAIN e.str |-> CaseVariants(e.str[i], env)]])
       [] e.k = "range" -> Emit(st, [op |-> "CHECK_RANGE", inverted |-> e.inverted,
                                     ranges |-> Finish(e.ranges, env)])
       [] e.k = "hat" -> either(env.flags.multiline, "ASSERTION_BOL", "ASSERTION_BOB")
       [] e.k = "dollar" -> either(env.flags.multiline, "ASSERTION_EOL", "ASSERTION_EOB")
       [] e.k = "boundary" -> either(e.inverted, "ASSERTION_WORD_BOUNDARY_INVERTED",
                                     "ASSERTION_WORD_BOUNDARY")
       [] e.k = "ref" -> Emit(st, [op |-> "BACK_REFERENCE", num |-> e.num])
       [] e.k = "group" -> VisitGroup(e, st, env)
       [] e.k = "look" -> VisitLook(e, st, env)
       [] e.k = "quant" -> VisitQuantifier(e, st, env)

-----------------------------------------------------------------------------
(* QuickCheck: the characters a match can start with, or none when it gives *)
(* up.  Only the first term of an alternative is looked at.                *)
GiveUp == [ok |-> FALSE, chars |-> {}]
Adding(acc, chars) ==
  LET all == acc.chars \cup chars
  IN IF acc.ok /\ Cardinality(all) <= FilterLimit THEN [ok |-> TRUE, chars |-> all] ELSE GiveUp

RECURSIVE FirstChars(_, _, _)
FirstOf(e, acc, env) ==
  CASE e.k = "string" -> Adding(acc, CaseVariants(e.str[1], env))
    [] e.k = "range" -> IF e.inverted THEN GiveUp
                        ELSE Adding(acc, UNION {r[1]..r[2] : r \in Range(Finish(e.ranges, env))})
    [] e.k = "group" -> FirstChars(e.dis, acc, env)
    [] OTHER -> GiveUp

FirstChars(dis, acc, env) ==
  FoldLeft(LAMBDA a, alt : IF ~a.ok THEN GiveUp
                           ELSE IF alt = <<>> THEN a ELSE FirstOf(alt[1], a, env), acc, dis)

\* EmitQuickCheck and BloomFilter: 0 is no filter.
Filter(first) == IF first.ok THEN FoldSet(LAMBDA c, bits : bits | c, 0, first.chars) ELSE 0

\* Compiler::Compile, of what the parser returned
Compile(parsed, flags) ==
  LET env == [flags |-> flags]
      st == Emit(VisitDisjunction(parsed.pattern, Start, env), Op("SUCCESS"))
      first == FirstChars(parsed.pattern, [ok |-> TRUE, chars |-> {}], env)
  IN [bytes |-> st.code, captures |-> parsed.max_captures, counters |-> st.size,
      filter |-> Filter(first), one_char |-> Cardinality(first.chars) = 1]
=============================================================================
