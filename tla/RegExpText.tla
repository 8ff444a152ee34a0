----------------------------- MODULE RegExpText -----------------------------
(***************************************************************************)
(* The loops of RegExp.prototype.exec and String.prototype.match, replace  *)
(* and split over the matcher (jsregexp.h, runtime/string.cc), one match a *)
(* step, and the replacement text with its $ forms.  The matcher is the    *)
(* reference that PatternMachine is checked against.                       *)
(***************************************************************************)
EXTENDS Pattern

CONSTANTS
  Searches,    \* what is searched: a set of [dis, groups]
  Texts,       \* the subjects
  Matches,     \* what the matcher finds in them from each index on
  Limits,      \* the limits of split
  Templates    \* replacement texts

VARIABLES
  op, search, text, number, template,   \* the call; number is the limit of split, or
                                        \* lastIndex before the first exec
  found,                               \* what Execute answers from each index on
  loop,                                \* previous_index or q, and what goes with it
  out,                                 \* what it has produced
  stage                                \* "loop", then "done"

tvars == <<op, search, text, number, template, found, loop, out, stage>>
args == <<op, search, text, number, template, found>>

NoFlags == [ignoreCase |-> FALSE, multiline |-> FALSE]

\* What the matcher answers for each index on, and what it answers there when
\* it is anchored.
MatchesOf(s, t) ==
  [found |-> <<>> \o [i \in 1..(Len(t) + 1) |-> LeftmostMatch(s.dis, s.groups, t, i - 1, NoFlags)],
   anchored |-> <<>> \o [i \in 1..(Len(t) + 1) |-> MatchAt(s.dis, s.groups, t, i - 1, NoFlags)]]

ASSUME MatchesAssumption ==
  Matches = [s \in Searches |-> [t \in Texts |-> MatchesOf(s, t)]]

Size == Len(text)
Match(i) == found[i + 1]
IsEmptyMatch(m) == m.start = m.end

Span(from, to) == [k |-> "span", from |-> from, to |-> to]
Replaced(m) == [k |-> "replaced", match |-> m]
Hole == [k |-> "undefined"]
Literal(c) == [k |-> "literal", ch |-> c]
CaptureOf(m, n) ==
  LET c == IF n = 0 THEN <<m.start, m.end>>
           ELSE IF n \in DOMAIN m.caps THEN m.caps[n] ELSE <<Undefined, Undefined>>
  IN IF c[1] = Undefined \/ c[2] = Undefined THEN Hole ELSE Span(c[1], c[2])

Doing(name) == stage = "loop" /\ op = name
Done(result) == stage' = "done" /\ out' = result /\ UNCHANGED <<args, loop>>
Go(next, result) == loop' = next /\ out' = result /\ UNCHANGED <<args, stage>>

\* Where the search goes on: after an empty match one further.
\* Mutant: after every match.
AfterAlways(previous, m) == m.end + 1
After(previous, m) ==
  LET this == IF IsEmptyMatch(m) THEN m.end + 1 ELSE m.end
  IN IF previous = this THEN previous + 1 ELSE this

-----------------------------------------------------------------------------
\* JSRegExp::ExecGlobal, for String.prototype.match.
MatchGlobal ==
  /\ Doing("match")
  /\ LET m == Match(loop.previous)
         next == After(loop.previous, m)
     IN IF ~m.ok THEN Done(out)
        ELSE IF next > Size THEN Done(out)
        ELSE Go([previous |-> next], Append(out, Span(m.start, m.end)))

\* JSRegExp::Exec of a global expression, which a program calls until it
\* answers null.  lastIndex is the only thing the calls share.
NextIndex(m) == IF IsEmptyMatch(m) THEN m.end + 1 ELSE m.end

Exec ==
  /\ Doing("exec")
  /\ LET start == loop.lastIndex
     IN IF start < 0 \/ start > Size \/ ~Match(start).ok
        THEN /\ stage' = "done" /\ loop' = [lastIndex |-> 0]
             /\ UNCHANGED <<args, out>>
        ELSE LET m == Match(start)
             IN Go([lastIndex |-> NextIndex(m)], Append(out, Span(m.start, m.end)))

\* Replacer::ReplaceGlobal.  kept is what was neither copied nor replaced.
ReplaceGlobal ==
  /\ Doing("replace")
  /\ LET m == Match(loop.previous)
         next == After(loop.previous, m)
         more == out \o <<Span(loop.kept, m.start), Replaced(m)>>
     IN IF ~m.ok THEN Done(Append(out, Span(loop.kept, Size)))
        ELSE IF next > Size THEN Done(Append(more, Span(m.end, Size)))
        ELSE Go([previous |-> next, kept |-> m.end], more)

\* StringSplit with a regular expression: the search is not anchored at q.
\* Mutant: an empty match ends a piece wherever it is.
NothingNewAtStart(m) == loop.q = m.end /\ m.end = 0
NothingNew(m) == loop.q = m.end /\ m.end = loop.p

Onward(q) == q + 1

SplitByRegExp ==
  /\ Doing("split")
  /\ LET m == Match(loop.q)
         pieces == <<Span(loop.p, m.start)>> \o [n \in 1..search.groups |-> CaptureOf(m, n)]
         more == out \o pieces
     IN IF number = 0 THEN Done(<<>>)
        ELSE IF Size = 0 THEN Done(IF m.ok THEN <<>> ELSE <<Span(0, 0)>>)
        ELSE IF loop.q = Size \/ ~m.ok THEN Done(Append(out, Span(loop.p, Size)))
        ELSE IF m.start = Size THEN Done(Append(out, Span(loop.p, Size)))
        ELSE IF NothingNew(m) THEN Go([loop EXCEPT !.q = Onward(@)], out)
        ELSE IF Len(more) >= number THEN Done(SubSeq(more, 1, number))
        ELSE Go([p |-> m.end, q |-> m.end], more)

-----------------------------------------------------------------------------
(* StringReplacer::DoReplaceImpl: the $ forms, one character a step.        *)
Digits == [d \in {"0", "1", "2"} |-> CASE d = "0" -> 0 [] d = "1" -> 1 [] d = "2" -> 2]
IsDigit(c) == c \in DOMAIN Digits
First == Match(0)
\* Mutant: num_of_captures, which counts the whole match, is taken for the last.
HasOneMore(n) == n <= search.groups + 1
Has(n) == n <= search.groups
Put(n) == IF CaptureOf(First, n) = Hole THEN <<>> ELSE <<CaptureOf(First, n)>>

State(s) == [loop EXCEPT !.state = s, !.i = @ + 1]
Again == [loop EXCEPT !.state = "normal"]

AfterDollar(c) ==
  LET plain(x) == Go(State("normal"), out \o x)
  IN CASE c = "$" -> plain(<<Literal("$")>>)
       [] c = "&" -> plain(<<Span(First.start, First.end)>>)
       [] c = "`" -> plain(<<Span(0, First.start)>>)
       [] c = "'" -> plain(<<Span(First.end, Size)>>)
       [] IsDigit(c) -> Go([State(IF c = "0" THEN "zero" ELSE "digit") EXCEPT !.upper = c], out)
       [] OTHER -> plain(<<Literal("$"), Literal(c)>>)

\* What a single digit stands for.
Single(c) == IF Has(Digits[c]) THEN Put(Digits[c]) ELSE <<Literal("$"), Literal(c)>>

AfterDigit(c) ==
  LET n == 10 * Digits[loop.upper] + Digits[c]
  IN IF ~IsDigit(c) THEN Go(Again, out \o Single(loop.upper))
     ELSE IF Has(n) THEN Go(State("normal"), out \o Put(n))
     ELSE IF loop.state = "digit"
          THEN Go(State("normal"), out \o Single(loop.upper) \o <<Literal(c)>>)
     ELSE Go(State("normal"), out \o <<Literal("$"), Literal("0"), Literal(c)>>)

AfterZero(c) ==
  IF IsDigit(c) THEN AfterDigit(c) ELSE Go(Again, out \o <<Literal("$"), Literal("0")>>)

AtEnd ==
  CASE loop.state = "normal" -> <<>>
    [] loop.state = "dollar" -> <<Literal("$")>>
    [] loop.state = "digit" -> Single(loop.upper)
    [] loop.state = "zero" -> <<Literal("$"), Literal("0")>>

DoReplace ==
  /\ Doing("template")
  /\ IF ~First.ok THEN Done(out)
     ELSE IF loop.i > Len(template) THEN Done(out \o AtEnd)
     ELSE LET c == template[loop.i]
          IN CASE loop.state = "normal" ->
                    IF c = "$" THEN Go(State("dollar"), out)
                    ELSE Go(State("normal"), Append(out, Literal(c)))
               [] loop.state = "dollar" -> AfterDollar(c)
               [] loop.state = "digit" -> AfterDigit(c)
               [] loop.state = "zero" -> AfterZero(c)

-----------------------------------------------------------------------------
Entry ==
  CASE op = "match" -> [previous |-> 0]
    [] op = "exec" -> [lastIndex |-> number]
    [] op = "replace" -> [previous |-> 0, kept |-> 0]
    [] op = "split" -> [p |-> 0, q |-> 0]
    [] op = "template" -> [state |-> "normal", upper |-> "0", i |-> 1]

TInit ==
  /\ op \in {"match", "exec", "replace", "split", "template"}
  /\ search \in Searches /\ text \in Texts
  /\ number \in CASE op = "split" -> Limits [] op = "exec" -> -1..(Size + 1) [] OTHER -> {0}
  /\ found = Matches[search][text].found
  /\ loop = Entry
  /\ template \in IF op = "template" THEN Templates ELSE {<<>>}
  /\ out = <<>> /\ stage = "loop"

TNext == MatchGlobal \/ Exec \/ ReplaceGlobal \/ SplitByRegExp \/ DoReplace

-----------------------------------------------------------------------------
(* References and properties                                               *)

\* Every match, each search going on behind the last match.
AllMatches(start) ==
  LET RECURSIVE from(_)
      from(i) == IF i < 0 \/ i > Size \/ ~Match(i).ok THEN <<>>
                 ELSE <<Match(i)>> \o from(IF IsEmptyMatch(Match(i)) THEN Match(i).end + 1
                                           ELSE Match(i).end)
  IN from(start)

Spans(ms) == [i \in DOMAIN ms |-> Span(ms[i].start, ms[i].end)]

\* String.prototype.split, 15.5.4.14, with its anchored SplitMatch.
SplitReference ==
  LET at(q) == Matches[search][text].anchored[q + 1]
      RECURSIVE from(_, _)
      from(p, q) ==
        IF q = Size THEN <<Span(p, Size)>>
        ELSE IF ~at(q).ok THEN from(p, q + 1)
        ELSE IF at(q).end = p THEN from(p, q + 1)
        ELSE <<Span(p, q)>> \o [n \in 1..search.groups |-> CaptureOf(at(q), n)]
               \o from(at(q).end, at(q).end)
      all == IF Size > 0 THEN from(0, 0) ELSE IF at(0).ok THEN <<>> ELSE <<Span(0, 0)>>
  IN SubSeq(all, 1, IF Len(all) < number THEN Len(all) ELSE number)

\* The $ forms of 15.5.4.11, table 22.
Expansion ==
  LET group(n) == n <= search.groups
      digit(i) == i <= Len(template) /\ IsDigit(template[i])
      two(i) == 10 * Digits[template[i]] + Digits[template[i + 1]]
      RECURSIVE from(_)
      from(i) ==
        LET c == template[i + 1]
            skip(x, n) == x \o from(i + n)
        IN IF i > Len(template) THEN <<>>
           ELSE IF template[i] # "$" \/ i = Len(template) THEN skip(<<Literal(template[i])>>, 1)
           ELSE CASE c = "$" -> skip(<<Literal("$")>>, 2)
                  [] c = "&" -> skip(Put(0), 2)
                  [] c = "`" -> skip(<<Span(0, First.start)>>, 2)
                  [] c = "'" -> skip(<<Span(First.end, Size)>>, 2)
                  [] IsDigit(c) /\ digit(i + 2) /\ two(i + 1) # 0 /\ group(two(i + 1)) ->
                       skip(Put(two(i + 1)), 3)
                  [] IsDigit(c) /\ ~(digit(i + 2) /\ two(i + 1) # 0 /\ group(two(i + 1)))
                       /\ Digits[c] # 0 /\ group(Digits[c]) -> skip(Put(Digits[c]), 2)
                  [] OTHER -> skip(<<Literal("$")>>, 1)
  IN from(1)

Finished(name) == stage = "done" /\ op = name

\* exec in a loop leaves lastIndex at 0 for the next loop.
ExecVisitsAll ==
  Finished("exec") => out = Spans(AllMatches(number)) /\ loop.lastIndex = 0

\* match loses one that is empty and stands at the end of the subject
\* (README, section 6).
GlobalMatchInOrder ==
  Finished("match") =>
    out = Spans(SelectSeq(AllMatches(0), LAMBDA m : m.start < Size))

\* replace keeps what is between the matches.
ReplaceKeepsRest ==
  Finished("replace") =>
    LET ms == AllMatches(0)
        from(i) == IF i = 1 THEN 0 ELSE ms[i - 1].end
    IN out = FlatMap(LAMBDA i : <<Span(from(i), ms[i].start), Replaced(ms[i])>>,
                     [i \in DOMAIN ms |-> i]) \o <<Span(from(Len(ms) + 1), Size)>>

\* exec in a loop, match and replace (15.10.6.2, 15.5.4.10, 15.5.4.11) come to
\* every match once, in order, from where they start, also to empty ones and
\* those that touch, and replace loses nothing in between.
VisitsEveryMatch == ExecVisitsAll /\ GlobalMatchInOrder /\ ReplaceKeepsRest

\* split cuts where the anchored search of 15.5.4.14 would, with the captures
\* between the pieces and never more of them than the limit.
SplitMatchesES5 == Finished("split") => out = SplitReference

\* The $ forms mean what table 22 says, but for $00.
NoDoubleZero ==
  \A i \in 1..(Len(template) - 2) : SubSeq(template, i, i + 2) # <<"$", "0", "0">>
TemplateMatchesES5 ==
  (Finished("template") /\ First.ok /\ NoDoubleZero) => out = Expansion

\* Every loop over matches ends, also over those that are empty.
LoopsEnd == (stage = "loop") ~> (stage = "done")
=============================================================================
