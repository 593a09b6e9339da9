------------------------------- MODULE Walker -------------------------------
(* The tree-walking evaluator: what an expression, a statement, a call and a *)
(* program yield.  It is the oracle the bytecode backend is held to, and the *)
(* VM itself calls it for the default expressions of parameters.             *)
EXTENDS Lang

RECURSIVE Eval(_, _, _), EvalAll(_, _, _, _), EvalInterp(_, _, _, _),
          EvalMap(_, _, _, _), ResolveContainer(_, _, _, _),
          CallFunction(_, _, _, _), FillDefaults(_, _, _, _),
          ExecBlock(_, _, _, _), ExecIf(_, _, _), ExecWhile(_, _, _),
          ExecFor(_, _, _, _)

-----------------------------------------------------------------------------
(* Calls.                                                                    *)

\* Missing trailing arguments come from the defaults, evaluated left to right
\* in a throwaway scope that sees the earlier parameters.
FillDefaults(f, full, scope, m) ==
  LET i == Len(full) + 1
  IN  IF i > Len(f.ps) THEN Ok(full, m)
      ELSE IF f.ds[i] = None THEN Abort(m)
      ELSE Then(Eval(f.ds[i], scope, m), LAMBDA v, m2 :
             FillDefaults(f, Append(full, v), scope, Bind(f.ps[i], v, FALSE, scope, m2)))

BindArgs(f, args, m) ==
  IF Len(args) = Len(f.ps) THEN Ok(args, m)
  ELSE IF Len(args) > Len(f.ps) THEN Abort(m)
  ELSE LET m2 == Child(f.env, m)
       IN  FillDefaults(f, args, Newest(m2), DefineAll(f.ps, args, Newest(m2), m2))

\* What the body's end means to the caller: return and ? stop at the call.
AtBoundary(r) == IF r.sig \in {"return", "err"} THEN Ok(r.v, r.mem) ELSE r

CallFunction(fv, args, depth, m) ==
  LET f == m.objs[fv[2]]
  IN  IF f.builtin THEN RunBuiltin(f.name, args, m)
      ELSE IF depth + 1 > MaxCallDepth THEN Guarded(m)
      ELSE Then(BindArgs(f, args, m), LAMBDA full, m2 :
             LET m3 == Child(f.env, m2)
                 local == Newest(m3)
                 m4 == [DefineAll(f.ps, full, local, m3)
                          EXCEPT !.scopes[local].depth = depth + 1]
             IN  AtBoundary(ExecBlock(f.body, 1, local, m4)))

\* A user binding shadows a builtin of its name.
CallByName(x, args, env, depth, m) ==
  IF Known(x, env, m) THEN
    IF Tag(Get(x, env, m)) = "fn" THEN CallFunction(Get(x, env, m), args, depth, m)
    ELSE Abort(m)
  ELSE IF x \in Builtins THEN RunBuiltin(x, args, m) ELSE Abort(m)

\* The arguments come first, then the callee.
EvalCall(e, env, m) ==
  LET depth == m.scopes[env].depth
  IN  Then(EvalAll(e.es, <<>>, env, m), LAMBDA args, m2 :
        IF e.l.k = "name" THEN CallByName(e.l.x, args, env, depth, m2)
        ELSE Then(Eval(e.l, env, m2), LAMBDA f, m3 :
               IF Tag(f) = "fn" THEN CallFunction(f, args, depth, m3) ELSE Abort(m3)))

-----------------------------------------------------------------------------
(* Expressions.                                                              *)

EvalAll(es, vs, env, m) ==
  IF Len(vs) = Len(es) THEN Ok(vs, m)
  ELSE Then(Eval(es[Len(vs) + 1], env, m), LAMBDA v, m2 : EvalAll(es, Append(vs, v), env, m2))

\* acc is what the parts before es displayed; the limit ends the evaluation.
EvalInterp(es, acc, env, m) ==
  IF es = <<>> THEN Ok(acc, m)
  ELSE Then(Eval(Head(es), env, m), LAMBDA v, m2 :
         LET s == Concat(acc, v, m2)
         IN  IF IsErr(s) THEN Ok(s, m2) ELSE EvalInterp(Tail(es), s, env, m2))

\* A bad key ends the literal before its value is evaluated.
EvalMap(e, elems, env, m) ==
  LET i == Len(elems) + 1
      key == e.es[i]
  IN  IF i > Len(e.es)
      THEN Alloc("map", Entries(elems), m)
      ELSE Then(IF key.k = "name" THEN Ok(TextV(key.x), m) ELSE Eval(key, env, m),
             LAMBDA kv, m2 :
               IF ~ Hashable(kv) THEN Ok(ErrV("unhashable"), m2)
               ELSE Then(Eval(e.vs[i], env, m2), LAMBDA v, m3 :
                      EvalMap(e, Append(elems, <<kv, v>>), env, m3)))

EvalName(x, env, m) ==
  IF Known(x, env, m) THEN Ok(Get(x, env, m), m)
  ELSE IF x \in Builtins THEN BuiltinValue(x, m) ELSE Abort(m)

EvalBoth(e, env, m, K(_, _, _)) ==
  Then(Eval(e.l, env, m), LAMBDA l, m2 :
    Then(Eval(e.r, env, m2), LAMBDA r, m3 : K(l, r, m3)))

Eval(e, env, m) ==
  CASE e.k = "lit" -> Ok(e.v, m)
    [] e.k = "var" -> IF Known(e.x, env, m) THEN Ok(Get(e.x, env, m), m) ELSE Abort(m)
    [] e.k = "name" -> EvalName(e.x, env, m)
    [] e.k = "interp" -> EvalInterp(e.es, EmptyV, env, m)
    [] e.k = "neg" -> Then(Eval(e.l, env, m), Negate)
    [] e.k = "not" -> Then(Eval(e.l, env, m), LAMBDA v, m2 : Ok(BoolV(~ Truthy(v, m2)), m2))
    [] e.k = "bin" -> EvalBoth(e, env, m, LAMBDA l, r, m2 : Infix(e.op, l, r, m2))
    [] e.k = "logic" ->
         Then(Eval(e.l, env, m), LAMBDA v, m2 :
           IF Truthy(v, m2) = (e.op = "||") THEN Ok(v, m2) ELSE Eval(e.r, env, m2))
    [] e.k = "defor" ->
         Then(Eval(e.l, env, m), LAMBDA v, m2 :
           IF Defined(v) THEN Ok(v, m2) ELSE Eval(e.r, env, m2))
    [] e.k = "try" ->
         Then(Eval(e.l, env, m), LAMBDA v, m2 :
           IF IsErr(v) THEN Signal("err", v, m2) ELSE Ok(v, m2))
    [] e.k \in {"call", "pipe"} -> EvalCall(e, env, m)
    [] e.k = "lambda" -> Closure("", e.ps, e.ds, e.body, 0, env, m)
    [] e.k = "array" ->
         Then(EvalAll(e.es, <<>>, env, m), LAMBDA vs, m2 : Alloc("array", vs, m2))
    [] e.k = "map" -> EvalMap(e, <<>>, env, m)
    [] e.k = "range" -> EvalBoth(e, env, m, LAMBDA l, r, m2 : Ok(MakeRange(l, r), m2))
    [] e.k = "at" -> EvalBoth(e, env, m, LAMBDA c, i, m2 : Ok(IndexRead(c, i, m2), m2))
    [] e.k = "field" ->
         Then(Eval(e.l, env, m), LAMBDA c, m2 : Ok(FieldRead(c, e.x, m2), m2))

-----------------------------------------------------------------------------
(* Statements.                                                               *)

\* The container an assignment writes through; inner keys are evaluated first,
\* and a nil link becomes what the next key asks for.
ResolveContainer(e, kind, env, m) ==
  CASE e.k = "var" -> ResolveVar(e.x, kind, env, m)
    [] e.k = "at" ->
         Then(Eval(e.r, env, m), LAMBDA key, m2 :
           Then(ResolveContainer(e.l, KindFor(key), env, m2), LAMBDA c, m3 :
             ResolveSlot(c, key, kind, m3)))
    [] e.k = "field" ->
         Then(ResolveContainer(e.l, "map", env, m), LAMBDA c, m2 :
           ResolveSlot(c, TextV(e.x), kind, m2))

AssignVar(x, op, rhs, env, m) ==
  Then(IF op = "=" THEN Ok(rhs, m) ELSE Compound(op, Get(x, env, m), rhs, m),
       LAMBDA v, m2 : Set(x, v, env, m2))

\* The right-hand side first, then the last key, then the path to it.
ExecAssign(s, env, m) ==
  LET t == s.t
      KeyOf(m2) == IF t.k = "at" THEN Eval(t.r, env, m2) ELSE Ok(TextV(t.x), m2)
  IN  Then(Eval(s.e, env, m), LAMBDA rhs, m2 :
        IF t.k = "var" THEN AssignVar(t.x, s.op, rhs, env, m2)
        ELSE Then(KeyOf(m2), LAMBDA key, m3 :
               Then(ResolveContainer(t.l, KindFor(key), env, m3), LAMBDA c, m4 :
                 AssignSlot(c, key, s.op, rhs, m4))))

InChild(block, env, m) == LET m2 == Child(env, m) IN ExecBlock(block, 1, Newest(m2), m2)

ExecIf(s, env, m) ==
  Then(Eval(s.c, env, m), LAMBDA c, m2 :
    CASE Truthy(c, m2) -> InChild(s.body, env, m2)
      [] ~ Truthy(c, m2) /\ s.els = "block" -> InChild(s.other, env, m2)
      [] ~ Truthy(c, m2) /\ s.els = "if" -> ExecIf(s.other, env, m2)
      [] OTHER -> Ok(NilV, m2))

\* How a loop goes on after one pass of its body.
AfterPass(r, Again(_)) ==
  CASE r.sig \in {"ok", "next"} -> Again(r.mem)
    [] r.sig = "break" -> Ok(NilV, r.mem)
    [] OTHER -> r

ExecWhile(s, env, m) ==
  Then(Eval(s.c, env, m), LAMBDA c, m2 :
    IF Truthy(c, m2)
    THEN AfterPass(InChild(s.body, env, m2), LAMBDA m3 : ExecWhile(s, env, m3))
    ELSE Ok(NilV, m2))

ExecFor(s, items, env, m) ==
  IF items = <<>> THEN Ok(NilV, m)
  ELSE LET item == Head(items)
           m2 == Child(env, m)
           m3 == DefineAll(s.xs, IF Len(s.xs) = 2 THEN item ELSE Tail(item), Newest(m2), m2)
       IN  AfterPass(ExecBlock(s.body, 1, Newest(m2), m3), LAMBDA m4 :
             ExecFor(s, Tail(items), env, m4))

StartFor(s, env, m) ==
  Then(Eval(s.e, env, m), LAMBDA v, m2 :
    CASE IsErr(v) -> Signal("err", v, m2)
      [] Iterable(v) -> ExecFor(s, Items(v, m2), env, m2)
      [] OTHER -> Abort(m2))

Exec(s, env, m) ==
  CASE s.k = "decl" ->
         Then(Eval(s.e, env, m), LAMBDA v, m2 : Define(s.x, v, s.const, env, m2))
    [] s.k = "assign" -> ExecAssign(s, env, m)
    [] s.k = "do" -> Eval(s.e, env, m)
    [] s.k = "if" -> ExecIf(s, env, m)
    [] s.k = "while" -> ExecWhile(s, env, m)
    [] s.k = "for" -> StartFor(s, env, m)
    [] s.k = "return" ->
         IF s.e = None THEN Signal("return", NilV, m)
         ELSE Then(Eval(s.e, env, m), LAMBDA v, m2 : Signal("return", v, m2))
    [] s.k \in {"break", "next"} -> Signal(s.k, NilV, m)
    [] s.k = "fn" ->
         Then(Closure(s.x, s.ps, s.ds, s.body, 0, env, m), LAMBDA f, m2 :
           Then(Define(s.x, f, FALSE, env, m2), LAMBDA v, m3 : Ok(NilV, m3)))

\* A block yields the value of its last statement.
ExecBlock(b, i, env, m) ==
  IF i > Len(b) THEN Ok(NilV, m)
  ELSE Then(Exec(b[i], env, m), LAMBDA v, m2 :
         IF i = Len(b) THEN Ok(v, m2) ELSE ExecBlock(b, i + 1, env, m2))

\* How a whole program ends and what it printed.
Outcome(end, m) == [end |-> end, out |-> m.out]
Walk(program) ==
  LET r == ExecBlock(program, 1, Global, FreshMem)
  IN  Outcome(IF r.sig = "ok" THEN "done" ELSE "abort", r.mem)
=============================================================================
