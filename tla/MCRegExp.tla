------------------------------ MODULE MCRegExp ------------------------------
(* Patterns in which groups, quantifiers, look-aheads and references stand  *)
(* inside each other, against every short subject.  The code units are 5    *)
(* and 6 (a and b), 1 and 2 (their upper case) and 8 (a line terminator).   *)
EXTENDS RegExp

MCLower == [c \in 1..8 |-> IF c \in {1, 2} THEN c + 4 ELSE c]
MCUpper == [c \in 1..8 |-> IF c \in {5, 6} THEN c - 4 ELSE c]

PA == Char(5)
PB == Char(6)
Cap(d) == Capture(d, 1)   \* the parser gives the number
One(t) == <<<<t>>>>

Bounds == <<<<0, Infinity, TRUE>>, <<0, Infinity, FALSE>>, <<1, Infinity, TRUE>>,
            <<0, 1, TRUE>>, <<0, 1, FALSE>>, <<0, 2, TRUE>>, <<1, 2, FALSE>>,
            <<2, 2, TRUE>>, <<2, Infinity, TRUE>>, <<0, 0, TRUE>>>>
Times(e, q) == Quant(e, q[1], q[2], q[3])
Star(e) == Times(e, <<0, Infinity, TRUE>>)
Lazy(e) == Times(e, <<0, Infinity, FALSE>>)
Opt(e) == Times(e, <<0, 1, TRUE>>)

Bodies ==
  <<One(PA), One(Star(PA)), One(Lazy(PA)), One(Opt(PA)),
    <<<<PA>>, <<PA, PB>>>>, <<<<Cap(One(PA))>>, <<PB>>>>,
    <<<<Cap(One(PA)), Ref(1)>>, <<Cap(One(PB))>>>>,
    <<<<Look(One(PB), FALSE)>>, <<PA>>>>,
    <<<<PA, Look(One(Cap(One(PB))), TRUE)>>, <<PB, Boundary(TRUE)>>>>,
    <<<<PB, PA>>, <<Opt(PB)>>>>>>

Each(f(_, _), s, t) == FlatMap(LAMBDA x : [i \in DOMAIN t |-> f(x, t[i])], s)

Repeats == Each(LAMBDA d, q : One(Times(Cap(d), q)), Bodies, Bounds)
Followed ==
  Each(LAMBDA d, q : <<<<Times(Group(d), q), Cap(<<<<PA>>, <<PB>>>>), Ref(1)>>>>, Bodies, Bounds)
NestedStars(e, bounds) ==
  Each(LAMBDA q, r : <<<<Times(Cap(<<<<Times(Cap(One(e)), q)>>, <<PB>>>>), r), Ref(2)>>>>,
       bounds, bounds)
Looks(inv) ==
  Each(LAMBDA d, t : <<<<Opt(PA), Look(<<<<Cap(d)>>, <<PB, Cap(One(PA))>>>>, inv)>> \o t>>,
       Bodies, <<<<Star(PA), Ref(1)>>, <<PB>>>>)
Simple == <<<<<<PA>>, <<>>>>, <<<<PA, PB>>>>, <<<<PA>>, <<PB, PB>>>>, <<<<Cap(One(PB)), PA>>>>,
            <<<<PB, Group(<<<<PA>>, <<>>>>)>>>>, One(Class(<<<<5, 5>>>>, FALSE))>>
Lines == <<<<<<Hat, Star(Class(<<<<8, 8>>>>, TRUE)), Dollar>>>>,
           <<<<Boundary(FALSE), PA, Boundary(FALSE)>>>>,
           <<<<Class(<<<<6, 6>>, <<1, 2>>>>, FALSE), Dollar>>>>,
           <<<<Cap(One(Class(<<<<5, 6>>>>, FALSE))), Ref(1)>>>>,
           <<<<PB, PA>>, <<Cap(One(Class(<<<<2, 5>>, <<8, 8>>>>, TRUE)))>>>>>>

Plain == [ignoreCase |-> FALSE, multiline |-> FALSE]
Source(d, f) == [tokens |-> TextOf(d), flags |-> f]

AllFlags == <<Plain, [Plain EXCEPT !.ignoreCase = TRUE], [Plain EXCEPT !.multiline = TRUE]>>
Words(alphabet, n) == UNION {[1..k -> alphabet] : k \in 0..n}

MCPatterns == Range(
  Each(Source, Repeats \o Followed \o NestedStars(PA, Bounds) \o NestedStars(Star(PA), SubSeq(Bounds, 1, 2))
                 \o Looks(TRUE) \o Looks(FALSE) \o Simple, <<Plain>>)
    \o Each(Source, Lines, AllFlags))
MCPrograms == LET loaded == {Load(source) : source \in MCPatterns} IN loaded
MCSubjects == Words({5, 6}, 3) \cup Words({5, 2, 8}, 2)
MCExpected ==
  LET expected == [p \in MCPrograms |-> [t \in MCSubjects |->
        LeftmostMatch(p.parsed.pattern, p.code.captures - 1, t, 0, p.source.flags)]]
  IN expected

-----------------------------------------------------------------------------
\* Searches that match nothing, something, or the empty string in places.
Search(dis, groups) == [dis |-> dis, groups |-> groups]

MCSearches ==
  {Search(<<<<PA>>>>, 0), Search(<<<<Star(PA)>>>>, 0), Search(<<<<Look(<<<<PB>>>>, FALSE)>>>>, 0),
   Search(<<<<Capture(<<<<PA>>>>, 1)>>, <<PB, PB>>>>, 1), Search(<<<<Dollar>>>>, 0),
   Search(<<<<Capture(<<<<Star(PB)>>>>, 1), Capture(<<<<PA>>, <<>>>>, 2)>>>>, 2), Search(<<<<Str(<<5, 6>>)>>>>, 0),
   Search(<<<<Boundary(TRUE)>>>>, 0), Search(<<<<Hat, Star(PA)>>>>, 0)}

MCTexts == Words({5, 6}, 3)
MCMatches ==
  LET matches == [s \in MCSearches |-> [t \in MCTexts |-> MatchesOf(s, t)]] IN matches
MCTemplates == Words({"$", "0", "1", "2", "&"}, 3) \cup Words({"$", "`", "'", "x"}, 2)
                 \cup {<<"$", "1", "0", "$">>, <<"$", "2", "x", "$">>, <<"$", "0", "1", "$">>}
=============================================================================
