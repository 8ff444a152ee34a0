------------------------------- MODULE Pattern -------------------------------
(***************************************************************************)
(* Regular expression patterns (aero/ast.h) and what ECMAScript 5, 15.10.2 *)
(* says they match: the promise that the bytecode compiler and the         *)
(* backtracking machine of aero keep.  Characters are code units.          *)
(***************************************************************************)
EXTENDS Integers, Sequences, SequencesExt

CONSTANTS
  Lower, Upper,   \* case mapping, [Chars -> Chars]
  Newline,        \* the line terminator
  Word            \* the characters of \w

Infinity == 2147483647   \* kRegExpInfinity
Undefined == -1          \* kUndefined

-----------------------------------------------------------------------------
(* Nodes.  A disjunction is a sequence of alternatives, an alternative a    *)
(* sequence of terms.                                                      *)
Char(c) == [k |-> "char", ch |-> c]
Str(s) == [k |-> "string", str |-> s]
Class(r, inv) == [k |-> "range", ranges |-> r, inverted |-> inv]
Hat == [k |-> "hat"]
Dollar == [k |-> "dollar"]
Boundary(inv) == [k |-> "boundary", inverted |-> inv]
Look(d, inv) == [k |-> "look", dis |-> d, inverted |-> inv]
Ref(n) == [k |-> "ref", num |-> n]
Group(d) == [k |-> "group", dis |-> d, num |-> 0]
Capture(d, n) == [k |-> "group", dis |-> d, num |-> n]
Quant(e, lo, hi, greedy) ==
  [k |-> "quant", expr |-> e, min |-> lo, max |-> hi, greedy |-> greedy]

\* The highest capture of an expression, or now (CaptureCalculator).
RECURSIVE GainNextCaptures(_, _)
GainNextCaptures(e, now) ==
  LET higher(m, n) == IF m > n THEN m ELSE n
      ofTerms(acc, terms) == FoldLeft(LAMBDA m, t : GainNextCaptures(t, m), acc, terms)
      ofDis(acc) == FoldLeft(ofTerms, acc, e.dis)
  IN CASE e.k = "group" -> ofDis(higher(now, e.num))
       [] e.k = "look" -> ofDis(now)
       [] e.k = "quant" -> GainNextCaptures(e.expr, now)
       [] OTHER -> now

-----------------------------------------------------------------------------
(* Characters                                                              *)
Fold(c, flags) == IF flags.ignoreCase THEN Upper[c] ELSE c
SameChar(c, d, flags) == Fold(c, flags) = Fold(d, flags)
IsWordAt(s, i) == i \in DOMAIN s /\ s[i] \in Word
AtBoundary(s, pos) == IsWordAt(s, pos) # IsWordAt(s, pos + 1)
InClass(e, c, flags) ==
  \E r \in Range(e.ranges) : \E d \in r[1]..r[2] : SameChar(c, d, flags)

-----------------------------------------------------------------------------
(* The reference: every way to match, in the order in which backtracking   *)
(* tries them.  A state x has the end index x.pos and the captures x.caps. *)
FlatMap(f(_), q) == FoldLeft(LAMBDA acc, y : acc \o f(y), <<>>, q)

Cleared(x, from, to) ==
  [x EXCEPT !.caps = [n \in DOMAIN @ |-> IF n \in from..to THEN <<Undefined, Undefined>>
                                         ELSE @[n]]]

Slice(s, c) == SubSeq(s, c[1] + 1, c[2])
SameText(s, t, flags) ==
  Len(s) = Len(t) /\ \A i \in DOMAIN s : SameChar(s[i], t[i], flags)

RECURSIVE Outcomes(_, _, _, _)

InOrder(terms, s, x, flags) ==
  FoldLeft(LAMBDA xs, t : FlatMap(LAMBDA y : Outcomes(t, s, y, flags), xs), <<x>>, terms)

EitherOf(dis, s, x, flags) == FlatMap(LAMBDA alt : InOrder(alt, s, x, flags), dis)

\* The captures inside an expression that stands at the state of the match.
Inside(e) ==
  LET top == GainNextCaptures(e, 0)
      RECURSIVE low(_)
      low(d) == CASE d.k = "group" /\ d.num # 0 -> d.num
                  [] d.k \in {"group", "look"} ->
                       FoldLeft(LAMBDA m, alt : FoldLeft(LAMBDA k, t :
                                  IF low(t) < k THEN low(t) ELSE k, m, alt),
                                top + 1, d.dis)
                  [] d.k = "quant" -> low(d.expr)
                  [] OTHER -> top + 1
  IN <<low(e), top>>

\* RepeatMatcher, 15.10.2.5
RECURSIVE Repeated(_, _, _, _, _, _)
Repeated(e, lo, hi, s, x, flags) ==
  LET inner == Inside(e.expr)
      once == Outcomes(e.expr, s, Cleared(x, inner[1], inner[2]), flags)
      next(y) == IF lo = 0 /\ y.pos = x.pos THEN <<>>
                 ELSE Repeated(e, IF lo = 0 THEN 0 ELSE lo - 1,
                               IF hi = Infinity THEN hi ELSE hi - 1, s, y, flags)
      more == FlatMap(next, once)
  IN CASE hi = 0 -> <<x>>
       [] hi # 0 /\ lo > 0 -> more
       [] hi # 0 /\ lo = 0 /\ e.greedy -> more \o <<x>>
       [] OTHER -> <<x>> \o more

Outcomes(e, s, x, flags) ==
  LET if(b) == IF b THEN <<x>> ELSE <<>>
      step(b) == IF x.pos < Len(s) /\ b THEN <<[x EXCEPT !.pos = @ + 1]>> ELSE <<>>
      ch == s[x.pos + 1]
  IN CASE e.k = "char" -> step(SameChar(ch, e.ch, flags))
       [] e.k = "string" -> InOrder([i \in DOMAIN e.str |-> Char(e.str[i])], s, x, flags)
       [] e.k = "range" -> step(InClass(e, ch, flags) # e.inverted)
       [] e.k = "hat" -> if(x.pos = 0 \/ (flags.multiline /\ s[x.pos] = Newline))
       [] e.k = "dollar" -> if(x.pos = Len(s) \/ (flags.multiline /\ ch = Newline))
       [] e.k = "boundary" -> if(AtBoundary(s, x.pos) # e.inverted)
       [] e.k = "ref" ->
            LET c == x.caps[e.num]
                end == x.pos + c[2] - c[1]
            IN IF c[2] = Undefined THEN <<x>>
               ELSE IF end <= Len(s) /\ SameText(Slice(s, c), Slice(s, <<x.pos, end>>), flags)
               THEN <<[x EXCEPT !.pos = end]>> ELSE <<>>
       [] e.k = "group" ->
            IF e.num = 0 THEN EitherOf(e.dis, s, x, flags)
            ELSE FlatMap(LAMBDA y : <<[y EXCEPT !.caps[e.num] = <<x.pos, y.pos>>]>>,
                         EitherOf(e.dis, s, x, flags))
       [] e.k = "look" ->
            LET r == EitherOf(e.dis, s, x, flags)
            IN IF e.inverted THEN if(r = <<>>)
               ELSE IF r = <<>> THEN <<>> ELSE <<[r[1] EXCEPT !.pos = x.pos]>>
       [] e.k = "quant" -> Repeated(e, e.min, e.max, s, x, flags)

Failure == [ok |-> FALSE]
Success(start, x) == [ok |-> TRUE, start |-> start, end |-> x.pos, caps |-> x.caps]

\* The match at one position, and the leftmost match from one on (15.10.6.2).
MatchAt(dis, n, s, start, flags) ==
  LET none == [pos |-> start, caps |-> [i \in 1..n |-> <<Undefined, Undefined>>]]
      all == EitherOf(dis, s, none, flags)
  IN IF all = <<>> THEN Failure ELSE Success(start, all[1])

LeftmostMatch(dis, n, s, start, flags) ==
  LET RECURSIVE from(_)
      from(i) == IF i > Len(s) THEN Failure
                 ELSE LET m == MatchAt(dis, n, s, i, flags)
                      IN IF m.ok THEN m ELSE from(i + 1)
  IN from(start)
=============================================================================
