--------------------------- MODULE PatternParser ---------------------------
(***************************************************************************)
(* aero/parser.h: from the tokens of a pattern to its tree.  Escapes, the  *)
(* spelling of classes and the digits of {n,m} are one token each; what is *)
(* left is the grammar, the numbering of captures and the joining of       *)
(* characters into strings.                                                *)
(***************************************************************************)
EXTENDS Pattern

Token(t) == [t |-> t]
CharToken(c) == [t |-> "char", ch |-> c]
QuantToken(lo, hi, greedy) == [t |-> "quant", min |-> lo, max |-> hi, greedy |-> greedy]
ClassToken(r, inv) == [t |-> "class", ranges |-> r, inverted |-> inv]
RefToken(n) == [t |-> "ref", num |-> n]
Openings == {"(", "(?:", "(?=", "(?!"}
Assertions == {"^", "$", "\\b", "\\B"}

Error == [ok |-> FALSE]
At(src, pos) == IF pos \in DOMAIN src THEN src[pos] ELSE Token("end")

\* ParseQuantifier, with the target it follows.
WithQuantifier(src, r) ==
  LET q == At(src, r.pos)
  IN IF q.t # "quant" THEN r
     ELSE IF q.max < q.min THEN Error
     ELSE [r EXCEPT !.pos = @ + 1,
                    !.node = IF q.min = 1 /\ q.max = 1 THEN @
                             ELSE Quant(@, q.min, q.max, q.greedy \/ q.min = q.max)]

\* Mutant: a group takes its number when it closes.
GroupNumberedLate(t, inner, num) ==
  IF t = "(" THEN Capture(inner.node, inner.captures - 1)
  ELSE CASE t = "(?:" -> Group(inner.node)
         [] t = "(?=" -> Look(inner.node, FALSE)
         [] t = "(?!" -> Look(inner.node, TRUE)

GroupOf(t, inner, num) ==
  CASE t = "(" -> Capture(inner.node, num)
    [] t = "(?:" -> Group(inner.node)
    [] t = "(?=" -> Look(inner.node, FALSE)
    [] t = "(?!" -> Look(inner.node, TRUE)

Assertion(t) ==
  CASE t = "^" -> Hat [] t = "$" -> Dollar
    [] t = "\\b" -> Boundary(FALSE) [] t = "\\B" -> Boundary(TRUE)

Atom(tok) ==
  CASE tok.t = "char" -> Char(tok.ch)
    [] tok.t = "class" -> Class(tok.ranges, tok.inverted)
    [] tok.t = "ref" -> Ref(tok.num)

RECURSIVE ParseDisjunction(_, _, _, _)

\* One term with its quantifier; captures is the number of the next group.
ParseTerm(src, pos, captures) ==
  LET tok == src[pos]
      at(node, next, c) == [ok |-> TRUE, node |-> node, pos |-> next, captures |-> c]
      open == IF tok.t = "(" THEN captures + 1 ELSE captures
      inner == ParseDisjunction(src, pos + 1, open, ")")
  IN CASE tok.t \in Openings ->
            IF ~inner.ok \/ At(src, inner.pos).t # ")" THEN Error
            ELSE WithQuantifier(src, at(GroupOf(tok.t, inner, captures),
                                        inner.pos + 1, inner.captures))
       [] tok.t \in Assertions -> at(Assertion(tok.t), pos + 1, captures)
       [] tok.t \in {"char", "class", "ref"} ->
            WithQuantifier(src, at(Atom(tok), pos + 1, captures))
       [] OTHER -> Error

\* ParseAlternative: str holds the characters not yet part of a term.
RECURSIVE ParseTerms(_, _, _, _, _, _)
ParseTerms(src, pos, captures, end, terms, str) ==
  LET flushed == IF str = <<>> THEN terms ELSE Append(terms, Str(str))
      r == ParseTerm(src, pos, captures)
  IN IF At(src, pos).t \in {"end", "|", end}
     THEN [ok |-> TRUE, node |-> flushed, pos |-> pos, captures |-> captures]
     ELSE IF ~r.ok THEN Error
     ELSE IF r.node.k = "char"
     THEN ParseTerms(src, r.pos, r.captures, end, terms, Append(str, r.node.ch))
     ELSE ParseTerms(src, r.pos, r.captures, end, Append(flushed, r.node), <<>>)

ParseDisjunction(src, pos, captures, end) ==
  LET first == ParseTerms(src, pos, captures, end, <<>>, <<>>)
      rest == ParseDisjunction(src, first.pos + 1, first.captures, end)
  IN IF ~first.ok THEN Error
     ELSE IF At(src, first.pos).t # "|" THEN [first EXCEPT !.node = <<@>>]
     ELSE IF ~rest.ok THEN Error
     ELSE [rest EXCEPT !.node = <<first.node>> \o @]

\* ParsePattern.  captures counts the whole match as well.
ParsePattern(src) ==
  LET r == ParseDisjunction(src, 1, 1, "end")
  IN IF ~r.ok THEN Error
     ELSE IF At(src, r.pos).t # "end" THEN Error
     ELSE [ok |-> TRUE, pattern |-> r.node, max_captures |-> r.captures]

-----------------------------------------------------------------------------
(* The text of a tree and the captures in its order, to compare with.       *)
RECURSIVE Text(_)
TextOf(dis) ==
  LET alts == [i \in DOMAIN dis |-> FlatMap(Text, dis[i])]
  IN FoldLeft(LAMBDA acc, alt : acc \o <<Token("|")>> \o alt, alts[1], Tail(alts))

Text(e) ==
  LET closed(open) == <<Token(open)>> \o TextOf(e.dis) \o <<Token(")")>>
  IN CASE e.k = "char" -> <<CharToken(e.ch)>>
       [] e.k = "string" -> [i \in DOMAIN e.str |-> CharToken(e.str[i])]
       [] e.k = "range" -> <<ClassToken(e.ranges, e.inverted)>>
       [] e.k = "ref" -> <<RefToken(e.num)>>
       [] e.k = "hat" -> <<Token("^")>>
       [] e.k = "dollar" -> <<Token("$")>>
       [] e.k = "boundary" -> <<Token(IF e.inverted THEN "\\B" ELSE "\\b")>>
       [] e.k = "group" -> closed(IF e.num = 0 THEN "(?:" ELSE "(")
       [] e.k = "look" -> closed(IF e.inverted THEN "(?!" ELSE "(?=")
       [] e.k = "quant" -> Text(e.expr) \o <<QuantToken(e.min, e.max, e.greedy)>>

RECURSIVE Numbers(_)
NumbersOf(dis) == FlatMap(LAMBDA alt : FlatMap(Numbers, alt), dis)
Numbers(e) ==
  CASE e.k = "group" -> (IF e.num = 0 THEN <<>> ELSE <<e.num>>) \o NumbersOf(e.dis)
    [] e.k = "look" -> NumbersOf(e.dis)
    [] e.k = "quant" -> Numbers(e.expr)
    [] OTHER -> <<>>
=============================================================================
