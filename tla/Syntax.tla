-------------------------------- MODULE Syntax --------------------------------
(* From source text to syntax tree: the newline rule of the lexer and the    *)
(* Pratt parser.  A text is a sequence of lexemes, among them line ends and  *)
(* comments; how a lexeme is spelled and scanned is left out, as are the     *)
(* limits on nesting and size.  A text with a parse error has no tree.       *)
EXTENDS Integers, Sequences

LOCAL INSTANCE SequencesExt

CONSTANTS Variables,         \* the lexemes $x
          Identifiers,       \* bare words, the contextual keywords included
          Strings,           \* string literals without interpolation
          Numerals,          \* numbers
          Comments           \* # and the rest of its line

Literals == Strings \cup Numerals
Newline == "\n"

-----------------------------------------------------------------------------
(* The lexer: tokens with their lines, and comments as trivia beside them.   *)

Terminates(t) ==
  t \in Variables \cup Identifiers \cup Literals
        \cup {"return", "break", "next", ")", "}", "]", "?"}

Token(t, line) == [t |-> t, line |-> line]
LexInit == [toks |-> <<>>, comments |-> <<>>, line |-> 1, broke |-> FALSE, open |-> <<>>,
            inComment |-> FALSE]

\* A comment runs to the end of its line: more text there alters it.
Altered(cs) == [cs EXCEPT ![Len(cs)].t = "#..."]

\* A newline matters at the top level and inside braces.
EndsStatement(l) ==
  /\ l.broke /\ (l.open = <<>> \/ Last(l.open) = "{")
  /\ l.toks # <<>> /\ Terminates(Last(l.toks).t)

Opened(open, t) ==
  CASE t \in {"(", "[", "{"} -> Append(open, t)
    [] t \in {")", "]", "}"} /\ open # <<>> -> Front(open)
    [] OTHER -> open

Scan(l, t) ==
  LET before == IF EndsStatement(l) THEN <<Token("NL", l.line)>> ELSE <<>>
  IN  CASE t = Newline -> [l EXCEPT !.line = @ + 1, !.broke = TRUE, !.inComment = FALSE]
        [] t # Newline /\ l.inComment -> [l EXCEPT !.comments = Altered(@)]
        [] t \in Comments /\ ~ l.inComment ->
             [l EXCEPT !.comments = Append(@, Token(t, l.line)), !.inComment = TRUE]
        [] OTHER -> [l EXCEPT !.toks = @ \o before \o <<Token(t, l.line)>>,
                              !.broke = FALSE, !.open = Opened(@, t)]

Lex(text) == FoldLeft(Scan, LexInit, text \o <<Newline, "EOF">>)

-----------------------------------------------------------------------------
(* Nodes: kind, words, children, the line stamped on it, the line it closes. *)

Node(k, x, es, line) == [k |-> k, x |-> x, es |-> es, line |-> line, close |-> 0]
ClosedAt(n, line) == [n EXCEPT !.close = line]
NoExpr == Node("none", <<>>, <<>>, 0)

\* The tree without its lines.
RECURSIVE Meaning(_)
Meaning(n) == [k |-> n.k, x |-> n.x, es |-> [i \in DOMAIN n.es |-> Meaning(n.es[i])]]

Body(n) == Last(n.es)
Negated(e) == Node("unary", <<"!">>, <<e>>, 0)

\* What a parser function returns: a node (or a list of them) and where it stopped.
Got(n, i) == [ok |-> TRUE, n |-> n, i |-> i]
Fail == [ok |-> FALSE]
Then(r, K(_, _)) == IF r.ok THEN K(r.n, r.i) ELSE Fail

Tok(T, i) == IF i <= Len(T) THEN T[i].t ELSE "EOF"
Line(T, i) == T[i].line
Expect(T, i, t, r) == IF Tok(T, i) = t THEN r ELSE Fail

IsTerm(t) == t \in {"NL", ";"}
SkipNewlines(T, i) == IF Tok(T, i) = "NL" THEN i + 1 ELSE i
RECURSIVE SkipTerms(_, _)
SkipTerms(T, i) == IF IsTerm(Tok(T, i)) THEN SkipTerms(T, i + 1) ELSE i

\* Where a statement stands: inside a loop of its function, inside a block, and
\* behind a statement that ended in its block's brace.
TopLevel == [loop |-> FALSE, deep |-> FALSE, closed |-> FALSE]
InLoop(ctx) == [ctx EXCEPT !.loop = TRUE]
InFunction(ctx) == [ctx EXCEPT !.loop = FALSE]

-----------------------------------------------------------------------------
(* Expressions.                                                              *)

Lowest == 0
Prefix == 10
CallLevel == 11
Level(t) ==
  CASE t = "or" -> 1 [] t = "and" -> 2 [] t = "//" -> 3 [] t = "|>" -> 4
    [] t \in {"==", "!=", "<=>"} -> 5
    [] t \in {"<", "<=", ">", ">="} -> 6
    [] t = ".." -> 7
    [] t \in {"+", "-", "~"} -> 8
    [] t \in {"*", "/", "%"} -> 9
    [] t \in {"(", "[", ".", "?"} -> CallLevel
    [] OTHER -> Lowest

RECURSIVE PExpr(_, _, _, _), PInfix(_, _, _, _, _), PList(_, _, _, _, _),
          PPairs(_, _, _), PParams(_, _, _, _, _), PBlock(_, _, _), PStmts(_, _, _, _)

\* The right side of |>: a call, or something callable that becomes one; a ?
\* behind it applies to the whole pipe.
RECURSIVE MakePipe(_, _)
MakePipe(left, right) ==
  CASE right.k = "call" -> Node("pipe", <<>>, <<left, right>>, right.line)
    [] right.k = "try" ->
         LET inner == MakePipe(left, right.es[1])
         IN  IF inner = NoExpr THEN NoExpr ELSE Node("try", <<>>, <<inner>>, right.line)
    [] right.k \in {"ident", "field", "var", "index", "lambda"} ->
         Node("pipe", <<>>, <<left, Node("call", <<>>, <<right>>, right.line)>>, right.line)
    [] OTHER -> NoExpr

PCall(T, i, left, ctx) ==
  Then(PList(T, i + 1, ")", FALSE, ctx), LAMBDA as, j :
    Expect(T, j, ")",
      Got(ClosedAt(Node("call", <<>>, <<left>> \o as, left.line), Line(T, j)), j + 1)))

PField(T, i, left) ==
  IF Tok(T, i + 1) \in Identifiers
  THEN Got(Node("field", <<Tok(T, i + 1)>>, <<left>>, Line(T, i)), i + 2) ELSE Fail

PPipe(T, i, left, ctx) ==
  Then(PExpr(T, i + 1, Level("|>"), ctx), LAMBDA r, j :
    IF MakePipe(left, r) = NoExpr THEN Fail ELSE Got(MakePipe(left, r), j))

PBinary(T, i, left, ctx) ==
  Then(PExpr(T, i + 1, Level(Tok(T, i)), ctx), LAMBDA r, j :
    Got(Node("infix", <<Tok(T, i)>>, <<left, r>>, Line(T, i)), j))

POperator(T, i, left, ctx) ==
  CASE Tok(T, i) = "(" -> PCall(T, i, left, ctx)
    [] Tok(T, i) = "." -> PField(T, i, left)
    [] Tok(T, i) = "?" -> Got(Node("try", <<>>, <<left>>, Line(T, i)), i + 1)
    [] Tok(T, i) = "|>" -> PPipe(T, i, left, ctx)
    [] Tok(T, i) = "[" ->
         Then(PExpr(T, i + 1, Lowest, ctx), LAMBDA e, j :
           Expect(T, j, "]", Got(Node("index", <<>>, <<left, e>>, Line(T, i)), j + 1)))
    [] OTHER -> PBinary(T, i, left, ctx)

PInfix(T, i, left, level, ctx) ==
  IF ~ IsTerm(Tok(T, i)) /\ level < Level(Tok(T, i))
  THEN Then(POperator(T, i, left, ctx), LAMBDA n, j : PInfix(T, j, n, level, ctx))
  ELSE Got(left, i)

\* Expressions up to (not including) close; only an array takes a last comma.
PList(T, i, close, lastComma, ctx) ==
  IF Tok(T, i) = close THEN Got(<<>>, i)
  ELSE Then(PExpr(T, i, Lowest, ctx), LAMBDA e, j :
         IF Tok(T, j) # "," THEN Got(<<e>>, j)
         ELSE IF Tok(T, j + 1) = close /\ ~ lastComma THEN Fail
         ELSE Then(PList(T, j + 1, close, lastComma, ctx), LAMBDA es, k :
                Got(<<e>> \o es, k)))

\* Keys and values of a map, in turn.
PPairs(T, i, ctx) ==
  IF Tok(T, i) = "}" THEN Got(<<>>, i)
  ELSE Then(PExpr(T, i, Lowest, ctx), LAMBDA key, j :
         IF Tok(T, j) # ":" THEN Fail
         ELSE Then(PExpr(T, j + 1, Lowest, ctx), LAMBDA val, l :
                LET c == SkipNewlines(T, l)
                IN  IF Tok(T, c) # "," THEN Got(<<key, val>>, c)
                    ELSE Then(PPairs(T, SkipNewlines(T, c + 1), ctx), LAMBDA es, m :
                           Got(<<key, val>> \o es, m))))

\* Parameters and their defaults; a required one may not follow a defaulted one.
PParams(T, i, close, defaulted, ctx) ==
  LET rest(ds, j) ==
        IF Tok(T, j) = "," /\ Tok(T, j + 1) # close
        THEN Then(PParams(T, j + 1, close, ds # NoExpr, ctx), LAMBDA ps, k :
               Got([xs |-> <<Tok(T, i)>> \o ps.xs, ds |-> <<ds>> \o ps.ds], k))
        ELSE Got([xs |-> <<Tok(T, i)>>, ds |-> <<ds>>], IF Tok(T, j) = "," THEN j + 1 ELSE j)
  IN  CASE Tok(T, i) \notin Variables -> Fail
        [] Tok(T, i) \in Variables /\ Tok(T, i + 1) = "=" ->
             Then(PExpr(T, i + 2, Lowest, ctx), LAMBDA d, j : rest(d, j))
        [] OTHER -> IF defaulted THEN Fail ELSE rest(NoExpr, i + 1)
ParamsUntil(T, i, close, ctx) ==
  IF Tok(T, i) = close THEN Got([xs |-> <<>>, ds |-> <<>>], i)
  ELSE PParams(T, i, close, FALSE, ctx)

\* An expression body is a block of one statement that closes nowhere.
PLambda(T, i, ctx) ==
  LET node(ps, body) == Node("lambda", ps.xs, ps.ds \o <<body>>, Line(T, i))
      sole(e) == Node("block", <<>>, <<Node("expr", <<>>, <<e>>, e.line)>>, Line(T, i))
  IN  Then(ParamsUntil(T, i + 1, "|", ctx), LAMBDA ps, j :
        Expect(T, j, "|",
          IF Tok(T, j + 1) = "{"
          THEN Then(PBlock(T, j + 1, InFunction(ctx)), LAMBDA b, k : Got(node(ps, b), k))
          ELSE Then(PExpr(T, j + 1, Lowest, InFunction(ctx)), LAMBDA e, k :
                 Got(node(ps, sole(e)), k))))

PPrefix(T, i, ctx) ==
  LET t == Tok(T, i)
  IN  CASE t \in Literals -> Got(Node("lit", <<t>>, <<>>, Line(T, i)), i + 1)
        [] t \in Variables -> Got(Node("var", <<t>>, <<>>, Line(T, i)), i + 1)
        [] t \in Identifiers -> Got(Node("ident", <<t>>, <<>>, Line(T, i)), i + 1)
        [] t = "." ->
             IF Tok(T, i + 1) \in Identifiers
             THEN Got(Node("ident", <<".", Tok(T, i + 1)>>, <<>>, Line(T, i)), i + 2) ELSE Fail
        [] t = "(" ->
             Then(PExpr(T, i + 1, Lowest, ctx), LAMBDA e, j : Expect(T, j, ")", Got(e, j + 1)))
        [] t = "[" ->
             Then(PList(T, i + 1, "]", TRUE, ctx), LAMBDA es, j :
               Expect(T, j, "]",
                 Got(ClosedAt(Node("array", <<>>, es, Line(T, i)), Line(T, j)), j + 1)))
        [] t = "{" ->
             Then(PPairs(T, SkipNewlines(T, i + 1), ctx), LAMBDA es, j :
               Expect(T, j, "}",
                 Got(ClosedAt(Node("map", <<>>, es, Line(T, i)), Line(T, j)), j + 1)))
        [] t = "|" -> PLambda(T, i, ctx)
        [] t \in {"-", "!", "not"} ->
             Then(PExpr(T, i + 1, Prefix, ctx), LAMBDA e, j :
               Got(Node("unary", <<IF t = "-" THEN "-" ELSE "!">>, <<e>>, Line(T, i)), j))
        [] OTHER -> Fail

PExpr(T, i, level, ctx) ==
  Then(PPrefix(T, i, ctx), LAMBDA n, j : PInfix(T, j, n, level, ctx))
Whole(T, i, ctx) == PExpr(T, i, Lowest, ctx)

-----------------------------------------------------------------------------
(* Statements.                                                               *)

PBlock(T, i, ctx) ==
  Expect(T, i, "{",
    Then(PStmts(T, SkipTerms(T, i + 1), "}", [ctx EXCEPT !.deep = TRUE]), LAMBDA ss, j :
      Expect(T, j, "}",
        Got(ClosedAt(Node("block", <<>>, ss, Line(T, i)), Line(T, j)), j + 1))))

\* An else may stand on the line after its brace.
RECURSIVE PIf(_, _, _)
PIf(T, i, ctx) ==
  Then(Whole(T, i + 1, ctx), LAMBDA c, j :
    Then(PBlock(T, j, ctx), LAMBDA b, k :
      LET e == IF Tok(T, k) = "NL" /\ Tok(T, k + 1) = "else" THEN k + 1 ELSE k
      IN  IF Tok(T, e) # "else" THEN Got(Node("if", <<>>, <<c, b>>, 0), k)
          ELSE Then(IF Tok(T, e + 1) = "if" THEN PIf(T, e + 1, ctx) ELSE PBlock(T, e + 1, ctx),
                    LAMBDA b2, l : Got(Node("if", <<>>, <<c, b, b2>>, 0), l))))

PWhile(T, i, ctx) ==
  Then(Whole(T, i + 1, ctx), LAMBDA c, j :
    Then(PBlock(T, j, InLoop(ctx)), LAMBDA b, k : Got(Node("while", <<>>, <<c, b>>, 0), k)))

PFor(T, i, ctx) ==
  LET two == Tok(T, i + 2) = ","
      xs == IF two THEN <<Tok(T, i + 1), Tok(T, i + 3)>> ELSE <<Tok(T, i + 1)>>
      j == i + 1 + 2 * Len(xs) - 1
  IN  IF \E n \in DOMAIN xs : xs[n] \notin Variables THEN Fail
      ELSE Expect(T, j, "in",
             Then(Whole(T, j + 1, ctx), LAMBDA e, k :
               Then(PBlock(T, k, InLoop(ctx)), LAMBDA b, l :
                 Got(Node("for", xs, <<e, b>>, 0), l))))

\* User functions are declared with a leading dot; mark is "export" or nothing.
PFn(T, i, mark, ctx) ==
  IF Tok(T, i + 1) # "." \/ Tok(T, i + 2) \notin Identifiers \/ Tok(T, i + 3) # "(" THEN Fail
  ELSE Then(ParamsUntil(T, i + 4, ")", ctx), LAMBDA ps, j :
         Expect(T, j, ")",
           Then(PBlock(T, j + 1, InFunction(ctx)), LAMBDA b, k :
             Got(Node("fn", <<mark, Tok(T, i + 2)>> \o ps.xs, ps.ds \o <<b>>, 0), k))))

PDecl(T, i, mark, ctx) ==
  Then(Whole(T, i + 2, ctx), LAMBDA e, j :
    Got(Node("decl", <<mark, Tok(T, i), Tok(T, i + 1)>>, <<e>>, 0), j))

PExport(T, i, ctx) ==
  CASE ctx.deep -> Fail
    [] ~ ctx.deep /\ Tok(T, i + 1) = "fn" -> PFn(T, i + 1, "export", ctx)
    [] ~ ctx.deep /\ Tok(T, i + 1) \in Variables /\ Tok(T, i + 2) = "::=" ->
         PDecl(T, i + 1, "export", ctx)
    [] OTHER -> Fail

\* A comparison splits into the subject and what it should equal.
PExample(T, i, ctx) ==
  IF ctx.deep THEN Fail
  ELSE Then(Whole(T, i + 1, ctx), LAMBDA e, j :
         CASE Tok(T, j) = "fails" -> Got(Node("example", <<"fails">>, <<e>>, Line(T, i)), j + 1)
           [] Tok(T, j) # "fails" /\ e.k = "infix" /\ e.x = <<"==">> ->
                Got(Node("example", <<"==">>, e.es, Line(T, i)), j)
           [] OTHER -> Got(Node("example", <<>>, <<e>>, Line(T, i)), j))

PReturn(T, i, ctx) ==
  IF IsTerm(Tok(T, i + 1)) \/ Tok(T, i + 1) \in {"}", "EOF"}
  THEN Got(Node("return", <<>>, <<>>, 0), i + 1)
  ELSE Then(Whole(T, i + 1, ctx), LAMBDA e, j : Got(Node("return", <<>>, <<e>>, 0), j))

Assigns == {"=", "+=", "-=", "*=", "/=", "%=", "~=", "//="}
PSimple(T, i, ctx) ==
  CASE Tok(T, i) = "return" -> PReturn(T, i, ctx)
    [] Tok(T, i) \in {"break", "next"} ->
         IF ctx.loop THEN Got(Node(Tok(T, i), <<>>, <<>>, 0), i + 1) ELSE Fail
    [] Tok(T, i) \in Variables /\ Tok(T, i + 1) \in {":=", "::="} -> PDecl(T, i, "", ctx)
    [] OTHER ->
         Then(Whole(T, i, ctx), LAMBDA e, j :
           CASE Tok(T, j) \notin Assigns -> Got(Node("expr", <<>>, <<e>>, 0), j)
             [] Tok(T, j) \in Assigns /\ e.k \in {"var", "index", "field"} ->
                  Then(Whole(T, j + 1, ctx), LAMBDA v, k :
                    Got(Node("assign", <<Tok(T, j)>>, <<e, v>>, 0), k))
             [] OTHER -> Fail)

\* One modifier; unless and until keep their condition negated.
PPostfix(T, s, i, ctx) ==
  IF Tok(T, i) \notin {"if", "unless", "while", "until", "for"} THEN Got(s, i)
  ELSE Then(Whole(T, i + 1, ctx), LAMBDA c, j :
         Got(Node("post", <<Tok(T, i)>>,
                  <<IF Tok(T, i) \in {"unless", "until"} THEN Negated(c) ELSE c, s>>, 0), j))

PStmt(T, i, ctx) ==
  LET t == Tok(T, i)
      after == Tok(T, i + 1)
  IN  CASE t \in {"BEGIN", "END"} /\ after = "{" ->
             Then(PBlock(T, i + 1, ctx), LAMBDA b, j : Got(Node("special", <<t>>, <<b>>, 0), j))
        [] t = "use" /\ after \in Strings ->
             Then(Whole(T, i + 1, ctx), LAMBDA e, j : Got(Node("use", <<>>, <<e>>, Line(T, i)), j))
        [] t = "example" /\ ~ IsTerm(after) /\ after \notin {"EOF", "}"} -> PExample(T, i, ctx)
        [] t = "export" /\ after \in Variables \cup {"fn"} -> PExport(T, i, ctx)
        [] t = "fn" -> PFn(T, i, "", ctx)
        [] t = "if" -> PIf(T, i, ctx)
        [] t = "while" -> PWhile(T, i, ctx)
        [] t = "for" -> PFor(T, i, ctx)
        [] OTHER -> Then(PSimple(T, i, ctx), LAMBDA s, j : PPostfix(T, s, j, ctx))

\* A statement that ends in its block's brace needs nothing behind it; use leaves
\* that as it found it.
BlockForm(s, ctx) ==
  s.k \in {"fn", "if", "while", "for", "special"} \/ (s.k = "use" /\ ctx.closed)
Stamped(s, line) == IF s.line = 0 THEN [s EXCEPT !.line = line] ELSE s

PStmts(T, i, close, ctx) ==
  IF Tok(T, i) \in {close, "EOF"} THEN Got(<<>>, i)
  ELSE Then(PStmt(T, i, ctx), LAMBDA s, j :
         IF ~ IsTerm(Tok(T, j)) /\ Tok(T, j) \notin {close, "EOF"} /\ ~ BlockForm(s, ctx) THEN Fail
         ELSE Then(PStmts(T, SkipTerms(T, j), close, [ctx EXCEPT !.closed = BlockForm(s, ctx)]),
                   LAMBDA ss, k : Got(<<Stamped(s, Line(T, i))>> \o ss, k)))

\* The program a text spells, and the comments beside it.
Parse(text) ==
  LET l == Lex(text)
      r == PStmts(l.toks, SkipTerms(l.toks, 1), "EOF", TopLevel)
  IN  IF r.ok THEN [ok |-> TRUE, prog |-> Node("block", <<>>, r.n, 0), comments |-> l.comments]
      ELSE [ok |-> FALSE]
=============================================================================
