---------------------------- MODULE MCBytecode ----------------------------
(* Jumps of every kind out of every nesting of loops, for-in, with, switch  *)
(* and try, up to three deep; and expressions of every kind as an operand   *)
(* of every other, with a local, a name or a call as the other operand.     *)
EXTENDS Bytecode

\* What goes around a statement at depth d; the id of a loop or switch is d.
Wrap(w, d, s) ==
  LET l(n) == Log(d * 100 + n)
      both == Block(50 + d, <<s, l(1)>>)
      maybe == Block(50 + d, <<If("?", s, <<l(1)>>), l(2)>>)
  IN CASE w = "block" -> Block(d, <<s, l(1)>>)
       [] w = "if" -> If("?", s, Nothing)
       [] w = "ifelse" -> Block(50 + d, <<If("?", l(1), <<s>>), l(2)>>)
       [] w = "while" -> While(d, "?", maybe)
       [] w = "forever" -> Block(50 + d, <<While(d, "true", Block(60 + d, <<l(1), s, Break(d)>>)), l(2)>>)
       [] w = "dowhile" -> DoWhile(d, both)
       [] w = "for" -> For(d, "?", d * 100 + 3, both)
       [] w = "forin" -> Block(50 + d, <<ForIn(d, 2, maybe), l(3)>>)
       [] w = "with" -> Block(50 + d, <<With(TRUE, both), l(2)>>)
       [] w = "switch" -> Switch(d, <<Case(TRUE, <<s>>), Case(FALSE, <<l(1)>>), Case(TRUE, <<l(2), s>>)>>)
       [] w = "catch" -> Block(50 + d, <<Try(s, <<l(1)>>, Nothing), l(2)>>)
       [] w = "incatch" -> Try(Throw(7), <<both>>, <<l(2)>>)
       [] w = "tryfinally" -> Try(both, Nothing, <<l(2)>>)
       [] w = "infinally" -> Try(If("?", Return(8), <<Throw(7)>>), Nothing, <<both>>)
       [] w = "all" -> Try(both, <<l(2)>>, <<l(3)>>)
       [] w = "twice" -> Block(50 + d, <<ForIn(d, 1, s), Try(With(FALSE, Empty), <<l(4)>>, Nothing)>>)

Wrappers == {"block", "if", "ifelse", "while", "forever", "dowhile", "for", "forin", "with",
             "switch", "catch", "incatch", "tryfinally", "infinally", "all", "twice"}
Loops == {"while", "forever", "dowhile", "for", "forin", "twice"}
Targeted == Loops \cup {"switch", "block"}

\* A leaf inside wrappers w[1] (outermost), w[2], ...
LeafStatements(w) ==
  {Log(5), Return(4), Throw(3)}
    \cup {Break(d) : d \in {d \in DOMAIN w : w[d] \in Targeted}}
    \cup {Continue(d) : d \in {d \in DOMAIN w : w[d] \in Loops}}
Program(w, leaf) ==
  LET RECURSIVE from(_)
      from(d) == IF d > Len(w) THEN leaf ELSE Wrap(w[d], d, from(d + 1))
  IN <<from(1), Log(6)>>

\* Every pair of wrappers, and three deep those that jumps have to undo.
Undone == {"while", "forin", "with", "switch", "catch", "incatch", "infinally", "all", "twice"}
Nestings == [1..1 -> Wrappers] \cup [1..2 -> Wrappers] \cup [1..3 -> Undone]
MCPrograms == UNION {{Program(w, leaf) : leaf \in LeafStatements(w)} : w \in Nestings}
MCBinaries == LET compiled == [p \in MCPrograms |-> Compile(p)] IN compiled

-----------------------------------------------------------------------------
(* Expressions.                                                             *)
X == Id("x")
Y == Id("y")
C == Id("c")
H == Id("h")
G == Id("g")
Property(t) == Index(t, Text)
Set1(e) == Assign("=", e, One)

\* One of each kind and operand.
Simple ==
  {X, H, G, C, One, Text, Function}
  \cup {Set1(X), Set1(C), Assign("=", X, Y), Assign("+", X, One), Assign("+", C, One),
        Assign("+", X, Bin("+", Text, Y)), Assign("=", H, X), Assign("+", G, One),
        Set1(Property(X)), Assign("-", Property(X), X), Assign("=", Index(X, X), X),
        Assign("+", Index(X, Y), X)}
  \cup {Unary("++", e) : e \in {X, H, G, C, Property(X)}}
  \cup {Postfix(e) : e \in {X, H, G, C, Index(X, Y)}}
  \cup {Unary("!", X), Unary("typeof", H), Unary("typeof", X), Unary("-", X), Unary("void", H)}
  \cup {Bin("<", X, One), Bin("+", X, Y), Bin("+", Text, X), Bin("&&", X, Y), Bin("||", H, X),
        Bin(",", X, Y), Cond(X, Y, One)}
  \cup {Property(X), Index(X, Y), Call(X, <<>>), Call(H, <<X>>), Call(Property(X), <<X, Y>>),
        Call(Index(X, Y), <<>>), Array(<<X, H, Y>>), Array(<<One, One>>), Object(<<X, One, Y>>)}

\* b as an operand, and a and b as two.
Around(b) ==
  {Assign("=", X, b), Assign("+", X, b), Assign("=", H, b), Assign("+", G, b), Bin("+", Text, b)}
  \cup {Unary(o, b) : o \in {"!", "-", "typeof", "void"}}
Pair(a, b) ==
  {Bin(o, a, b) : o \in {"+", "<", "&&", "||", ","}}
  \cup {Assign("=", Property(a), b), Assign("+", Property(a), b), Assign("=", Index(X, a), b),
        Assign("+", Index(X, a), b)}
  \cup {Index(a, b), Unary("++", Index(a, b)), Postfix(Index(a, b)), Cond(a, b, X), Cond(a, X, b)}
  \cup {Call(a, <<b>>), Call(Property(X), <<a, b>>), Call(Index(X, a), <<b>>),
        Array(<<a, X, b>>), Object(<<X, a, b>>), Bin("+", Bin("+", Text, a), b)}
First == {X, H, Set1(X), Unary("++", X)}
Operands == UNION {Around(b) : b \in Simple} \cup UNION {Pair(a, b) : a \in First, b \in Simple}

\* x, in use while two operands that may change it are evaluated one level down.
Changing == {X, Unary("++", X), Set1(X), H, Call(Y, <<X>>)}
Inner ==
  UNION {{Call(Y, <<a, b>>), Array(<<a, b>>), Cond(Y, a, b), Bin("&&", a, b), Bin("+", a, b),
          Bin("+", Bin("+", Text, a), b), Object(<<a, b>>)} : a \in Changing, b \in Changing}
InUse(b) ==
  {Bin("+", X, b), Call(H, <<X, b>>), Assign("+", X, b), Assign("-", Index(X, X), b), Index(X, b),
   Bin("+", Bin("+", Text, X), b), Array(<<X, b>>), Assign("=", Y, Bin("+", X, b)),
   Cond(H, Bin("+", X, b), b)}

Used(es, as) == {[e |-> e, as |-> as] : e \in es}
MCSources ==
  Used(Simple \cup Operands \cup UNION {InUse(b) : b \in Inner}, "value")
  \cup UNION {Used(Simple \cup UNION {Around(b) : b \in Simple} \cup Inner, as) :
              as \in {"statement", "condition"}}
MCCodes ==
  LET compiled == [u \in MCSources |-> [f \in BOOLEAN |-> CompileExpression(u.e, u.as, f)]]
  IN compiled
=============================================================================
