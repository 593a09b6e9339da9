------------------------------- MODULE Printer -------------------------------
(* From syntax tree back to text: what drang fmt writes.  The layout is the  *)
(* printer's (one statement a line, wrapped lists, maps and pipes, comments  *)
(* woven in by the lines of the source); indentation, spaces and blank lines *)
(* are left out, and the width of a line is counted in lexemes.              *)
EXTENDS Syntax

LOCAL INSTANCE SequencesExt

CONSTANT MaxWidth            \* lexemes on a line before it is wrapped

\* What is written so far, the comments still to come, and whether wrapping is
\* off (one) because the construct around was found to fit.
Printing(comments) == [out |-> <<>>, cs |-> comments, one |-> FALSE]
W(s, p) == [p EXCEPT !.out = @ \o s]

Column(p) ==
  IF Contains(p.out, Newline) THEN Len(p.out) - SelectLastInSeq(p.out, LAMBDA t : t = Newline)
  ELSE Len(p.out)

-----------------------------------------------------------------------------
(* Comments.                                                                 *)

Pending(line, p) == p.cs # <<>> /\ Head(p.cs).line < line
Drop(p) == [p EXCEPT !.cs = Tail(@)]

\* Every comment from before the line, each on a line of its own.
RECURSIVE FlushBefore(_, _)
FlushBefore(line, p) ==
  IF Pending(line, p) THEN FlushBefore(line, Drop(W(<<Head(p.cs).t, Newline>>, p))) ELSE p

Trails(line, p) == line > 0 /\ p.cs # <<>> /\ Head(p.cs).line = line
TrailingOn(line, p) == IF Trails(line, p) THEN Drop(W(<<Head(p.cs).t>>, p)) ELSE p

\* Between delimiters with nothing else inside, dangling comments only.
Empty(open, close, line, p) ==
  IF Pending(line, p) THEN W(<<close>>, FlushBefore(line, W(<<open, Newline>>, p)))
  ELSE W(<<open, close>>, p)

-----------------------------------------------------------------------------
(* Precedence.                                                               *)

Atom == 12
Prec(e) ==
  CASE e.k = "infix" -> Level(e.x[1])
    [] e.k = "pipe" -> Level("|>")
    [] e.k = "unary" -> Prefix
    [] e.k \in {"call", "index", "field", "try"} -> CallLevel
    [] e.k = "lambda" -> Lowest
    [] OTHER -> Atom

\* A map literal as the leftmost leaf would be read as a block.
RECURSIVE StartsWithBrace(_)
StartsWithBrace(e) ==
  \/ e.k = "map"
  \/ e.k \in {"infix", "pipe", "call", "index", "field", "try"} /\ StartsWithBrace(e.es[1])

\* Slip: a right operand of the operator's own level goes without parentheses.
RightNeedsParens_Looser(e, op) == Prec(e) < Level(op)
RightNeedsParens(e, op) == Prec(e) <= Level(op)

\* Stages that mean the same with their () left out.
BareSafe(callee) == callee.k \in {"ident", "field", "var", "index", "lambda"}

SoleExpr(b) == Len(b.es) = 1 /\ b.es[1].k = "expr"

-----------------------------------------------------------------------------
(* Expressions.                                                              *)

\* What a node is printed as.
RECURSIVE Emit(_, _)

Operand(e, parens, p) == IF parens THEN W(<<")">>, Emit(e, W(<<"(">>, p))) ELSE Emit(e, p)

\* A construct fits when its one-line form does, or holds a block that breaks it.
Alone == [Printing(<<>>) EXCEPT !.one = TRUE]
Fits(flat, p) == p.one \/ Contains(flat.out, Newline) \/ Column(p) + Len(flat.out) <= MaxWidth
OneLine(p) == [p EXCEPT !.one = TRUE]
Restored(q, p) == [q EXCEPT !.one = p.one]

Separated(i, p) == IF i > 1 THEN W(<<",">>, p) ELSE p
Flat(open, close, es, p) ==
  W(<<close>>, FoldLeftDomain(LAMBDA q, i : Emit(es[i], Separated(i, q)), W(<<open>>, p), es))

\* One entry a line: its leading comments, the entry, a comma, its trailing one.
Entry(es, i, p) ==
  LET e == Emit(es[i], FlushBefore(es[i].line, p))
      comma == IF i < Len(es) THEN W(<<",">>, e) ELSE e
  IN  W(<<Newline>>, TrailingOn(es[i].line, comma))
Wrapped(open, close, es, closeLine, p) ==
  W(<<close>>, FlushBefore(closeLine,
    FoldLeftDomain(LAMBDA q, i : Entry(es, i, q), W(<<open, Newline>>, p), es)))

List(open, close, es, closeLine, p) ==
  CASE es = <<>> -> Empty(open, close, closeLine, p)
    [] es # <<>> /\ ~ Pending(closeLine, p) /\ Fits(Flat(open, close, es, Alone), p) ->
         Restored(Flat(open, close, es, OneLine(p)), p)
    [] OTHER -> Wrapped(open, close, es, closeLine, p)

\* The entries of a map, each on the line of its key.
Pairs(n) ==
  [i \in 1..(Len(n.es) \div 2) |->
     Node("pair", <<>>, <<n.es[2 * i - 1], n.es[2 * i]>>, n.es[2 * i - 1].line)]

Args(call, p) == List("(", ")", Tail(call.es), call.close, p)

\* A stage of a pipe: its () stay where dropping them would change the parse.
Stage(call, p) ==
  LET callee == call.es[1]
      q == Operand(callee, Prec(callee) < CallLevel, p)
  IN  CASE Len(call.es) > 1 -> Args(call, q)
        [] Len(call.es) = 1 /\ ~ BareSafe(callee) -> W(<<"(", ")">>, q)
        [] OTHER -> q

RECURSIVE PipeHead(_), PipeStages(_)
PipeHead(n) == IF n.k = "pipe" THEN PipeHead(n.es[1]) ELSE n
PipeStages(n) == IF n.k = "pipe" THEN Append(PipeStages(n.es[1]), n.es[2]) ELSE <<>>

PipeFlat(n, p) ==
  Stage(n.es[2], W(<<"|>">>, Operand(n.es[1], Prec(n.es[1]) < Level("|>"), p)))

\* Slip: a comment in front of a stage is left for whoever comes next.
PipeStage_Uncommented(stages, i, p) ==
  LET s == Stage(stages[i], W(<<Newline>>, p))
  IN  TrailingOn(stages[i].line, IF i < Len(stages) THEN W(<<"|>">>, s) ELSE s)
\* Too wide, or with comments inside, a pipe breaks after every |>.
PipeStage(stages, i, p) ==
  LET s == Stage(stages[i], FlushBefore(stages[i].line, W(<<Newline>>, p)))
  IN  TrailingOn(stages[i].line, IF i < Len(stages) THEN W(<<"|>">>, s) ELSE s)
PipeBroken(n, p) ==
  LET stages == PipeStages(n)
      head == W(<<"|>">>, Operand(PipeHead(n), Prec(PipeHead(n)) < Level("|>"), p))
  IN  FoldLeftDomain(LAMBDA q, i : PipeStage(stages, i, q), head, stages)

PipeExpr(n, p) ==
  IF ~ Pending(Last(PipeStages(n)).line, p) /\ Fits(PipeFlat(n, Alone), p)
  THEN Restored(PipeFlat(n, OneLine(p)), p) ELSE PipeBroken(n, p)

Param(xs, ds, i, p) ==
  LET named == W(<<xs[i]>>, Separated(i, p))
  IN  IF ds[i].k = "none" THEN named ELSE Emit(ds[i], W(<<"=">>, named))
Params(xs, ds, p) == FoldLeftDomain(LAMBDA q, i : Param(xs, ds, i, q), p, xs)

\* A block of one expression shrinks to it, unless comments live in the block.
LambdaExpr(n, p) ==
  LET b == Body(n)
      q == W(<<"|">>, Params(n.x, Front(n.es), W(<<"|">>, p)))
  IN  IF SoleExpr(b) /\ ~ (b.close > 0 /\ Pending(b.close, q))
      THEN Operand(b.es[1].es[1], StartsWithBrace(b.es[1].es[1]), q)
      ELSE Emit(b, q)

Unary(n, p) ==
  LET e == n.es[1]
      twoMinuses == e.k = "unary" /\ n.x = <<"-">> /\ e.x = <<"-">>
  IN  Operand(e, Prec(e) < Prefix \/ twoMinuses, W(n.x, p))

Infix(n, p) ==
  LET op == n.x[1]
  IN  Operand(n.es[2], RightNeedsParens(n.es[2], op),
        W(n.x, Operand(n.es[1], Prec(n.es[1]) < Level(op), p)))

PrintExpr(n, p) ==
  LET inner == Operand(n.es[1], Prec(n.es[1]) < CallLevel, p)
  IN  CASE n.k \in {"lit", "var", "ident"} -> W(n.x, p)
        [] n.k = "unary" -> Unary(n, p)
        [] n.k = "infix" -> Infix(n, p)
        [] n.k = "pipe" -> PipeExpr(n, p)
        [] n.k = "call" -> Args(n, inner)
        [] n.k = "index" -> W(<<"]">>, Emit(n.es[2], W(<<"[">>, inner)))
        [] n.k = "field" -> W(<<".">> \o n.x, inner)
        [] n.k = "try" -> W(<<"?">>, inner)
        [] n.k = "array" -> List("[", "]", n.es, n.close, p)
        [] n.k = "map" -> List("{", "}", Pairs(n), n.close, p)
        [] n.k = "pair" -> Emit(n.es[2], W(<<":">>, Emit(n.es[1], p)))
        [] n.k = "lambda" -> LambdaExpr(n, p)

-----------------------------------------------------------------------------
(* Statements.                                                               *)

\* A comment behind the } of a then-block stays there; else takes the next line.
ElseSep(b, p) ==
  IF Trails(b.close, p) THEN W(<<Newline>>, TrailingOn(b.close, p)) ELSE p

IfStmt(n, p) ==
  LET q == Emit(n.es[2], Emit(n.es[1], W(<<"if">>, p)))
  IN  IF Len(n.es) = 2 THEN q ELSE Emit(n.es[3], W(<<"else">>, ElseSep(n.es[2], q)))

StripNot(e) == IF e.k = "unary" /\ e.x = <<"!">> THEN e.es[1] ELSE e

Mark(m) == IF m = "" THEN <<>> ELSE <<m>>

FnDecl(n, p) ==
  LET xs == SubSeq(n.x, 3, Len(n.x))
      q == W(Mark(n.x[1]) \o <<"fn", ".", n.x[2], "(">>, p)
  IN  Emit(Body(n), W(<<")">>, Params(xs, Front(n.es), q)))

Example(n, p) ==
  LET q == Emit(n.es[1], W(<<"example">>, p))
  IN  IF Len(n.es) = 2 THEN Emit(n.es[2], W(<<"==">>, q)) ELSE W(n.x, q)

PrintStmt(n, p) ==
  CASE n.k = "expr" -> Operand(n.es[1], StartsWithBrace(n.es[1]), p)
    [] n.k = "decl" -> Emit(n.es[1], W(Mark(n.x[1]) \o Tail(n.x), p))
    [] n.k = "assign" -> Emit(n.es[2], W(n.x, Emit(n.es[1], p)))
    [] n.k = "if" -> IfStmt(n, p)
    [] n.k = "post" ->
         Emit(IF n.x[1] \in {"unless", "until"} THEN StripNot(n.es[1]) ELSE n.es[1],
              W(n.x, Emit(n.es[2], p)))
    [] n.k = "while" -> Emit(n.es[2], Emit(n.es[1], W(<<"while">>, p)))
    [] n.k = "for" ->
         LET xs == IF Len(n.x) = 2 THEN <<n.x[1], ",", n.x[2]>> ELSE n.x
         IN  Emit(n.es[2], Emit(n.es[1], W(<<"for">> \o xs \o <<"in">>, p)))
    [] n.k = "fn" -> FnDecl(n, p)
    [] n.k = "return" ->
         IF n.es = <<>> THEN W(<<"return">>, p) ELSE Emit(n.es[1], W(<<"return">>, p))
    [] n.k \in {"break", "next"} -> W(<<n.k>>, p)
    [] n.k = "use" -> Emit(n.es[1], W(<<"use">>, p))
    [] n.k = "example" -> Example(n, p)
    [] n.k = "special" -> Emit(n.es[1], W(n.x, p))

\* The last source line of a statement: that of its closing brace, if it has one.
RECURSIVE EndLine(_)
EndLine(s) ==
  LET end(b) == IF b.close > 0 THEN b.close ELSE s.line
  IN  CASE s.k = "if" -> IF Last(s.es).k = "if" THEN EndLine(Last(s.es)) ELSE end(Last(s.es))
        [] s.k \in {"while", "for", "fn", "special"} -> end(Last(s.es))
        [] OTHER -> s.line

TakesTrailing(ss, i) == i = Len(ss) \/ ss[i + 1].line # EndLine(ss[i])

\* A comment on the opening line of a block statement moves in front of it.
Opening(s, p) ==
  IF s.line # EndLine(s) /\ Trails(s.line, p) THEN W(<<Newline>>, TrailingOn(s.line, p)) ELSE p
Closing(ss, i, p) == IF TakesTrailing(ss, i) THEN TrailingOn(EndLine(ss[i]), p) ELSE p
Statement(ss, i, p) ==
  W(<<Newline>>, Closing(ss, i, Emit(ss[i], Opening(ss[i], FlushBefore(ss[i].line, p)))))

Stmts(ss, limit, p) ==
  FlushBefore(limit, FoldLeftDomain(LAMBDA q, i : Statement(ss, i, q), p, ss))

PrintBlock(b, p) ==
  IF b.es = <<>> THEN Empty("{", "}", b.close, p)
  ELSE W(<<"}">>, Stmts(b.es, b.close, W(<<"{", Newline>>, p)))

ExprKinds == {"lit", "var", "ident", "unary", "infix", "pipe", "call", "index", "field", "try",
              "array", "map", "pair", "lambda"}
Emit(n, p) ==
  CASE n.k = "block" -> PrintBlock(n, p)
    [] n.k \in ExprKinds -> PrintExpr(n, p)
    [] OTHER -> PrintStmt(n, p)

-----------------------------------------------------------------------------
(* Formatting, with its guard: what does not parse again, or has other       *)
(* comments than the source, is not written.                                 *)

Texts(cs) == [i \in DOMAIN cs |-> cs[i].t]
Times(t, cs) == Len(SelectSeq(Texts(cs), LAMBDA c : c = t))
SameComments(cs, ds) == \A t \in Comments : Times(t, cs) = Times(t, ds)

PastEnd(text) == Len(text) + 2
Printed(src, text) == Stmts(src.prog.es, PastEnd(text), Printing(src.comments)).out

NotFormatted == [ok |-> FALSE]
Guarded(src, out, check) ==
  IF check.ok /\ SameComments(src.comments, check.comments)
  THEN [ok |-> TRUE, text |-> out] ELSE NotFormatted
Checked(src, out) == Guarded(src, out, Parse(out))
Rewritten(src, text) == IF src.ok THEN Checked(src, Printed(src, text)) ELSE NotFormatted
Format(text) == Rewritten(Parse(text), text)

\* What a reader of a text has of it: its program and how often each comment.
Read(src) ==
  IF src.ok THEN <<Meaning(src.prog), [t \in Comments |-> Times(t, src.comments)]>> ELSE <<>>
Understanding(text) == Read(Parse(text))
=============================================================================
