------------------------------ MODULE Compiler ------------------------------
(* The compiler of the bytecode backend: from the syntax tree of Lang to     *)
(* register code.  A function whose locals no closure can see keeps them in  *)
(* registers; any other, and the program itself, keeps them in scopes.       *)
(*                                                                           *)
(* The compiler's state is a record c; an operator that compiles something   *)
(* returns the record after it.  Registers count from 0, jump targets are    *)
(* 0-based positions.  Constants stand in the instruction that uses them.    *)
(* The trees compiled hold nothing the compiler gives up on (fail()).        *)
EXTENDS Lang

LOCAL INSTANCE SequencesExt
LOCAL INSTANCE FiniteSetsExt

-----------------------------------------------------------------------------
(* What a function may keep in registers.                                    *)

Closures == {"lambda", "fn"}

Blocks(n) ==
  CASE n.k = "if" -> n.body \o (CASE n.els = "none" -> <<>> [] n.els = "block" -> n.other
                                  [] n.els = "if" -> <<n.other>>)
    [] n.k \in {"while", "for"} \cup Closures -> n.body
    [] OTHER -> <<>>

Operands(n) ==
  CASE n.k \in {"neg", "not", "try", "field"} -> <<n.l>>
    [] n.k \in {"bin", "logic", "defor", "range", "at"} -> <<n.l, n.r>>
    [] n.k \in {"interp", "array"} -> n.es
    [] n.k \in {"call", "pipe"} -> <<n.l>> \o n.es
    [] n.k = "map" -> n.es \o n.vs
    [] n.k \in {"decl", "do", "for", "return"} -> <<n.e>>
    [] n.k = "assign" -> <<n.t, n.e>>
    [] n.k \in {"if", "while"} -> <<n.c>>
    [] n.k \in Closures -> n.ds
    [] OTHER -> <<>>

Kids(n) == Operands(n) \o Blocks(n)

\* The nodes of subtrees, in order: all of them; those outside the closures
\* ("outer"); or all but those of assignment targets ("bound").
RECURSIVE Nodes(_, _)
Nodes(ns, view) ==
  LET Below(n) == CASE view = "outer" /\ n.k \in Closures -> <<>>
                    [] view = "bound" /\ n.k = "assign" -> <<n.e>>
                    [] OTHER -> Kids(n)
  IN  FlattenSeq([i \in DOMAIN ns |-> <<ns[i]>> \o Nodes(Below(ns[i]), view)])

Those(nodes, kinds) == {i \in DOMAIN nodes : nodes[i].k \in kinds}

\* The names a node binds in its own scope.
Binds(n) ==
  CASE n.k \in {"decl", "fn"} -> {n.x} [] n.k = "for" -> ToSet(n.xs) [] OTHER -> {}

\* Every $x in the subtrees; bare names (and so callees) are not counted.
VarsIn(ns) ==
  LET all == Nodes(ns, "all") IN {all[i].x : i \in Those(all, {"var"})}

\* What the closures of a body mention, and what the body declares outside them.
UsedInClosures(body) ==
  LET outer == Nodes(body, "outer")
  IN  UNION {VarsIn(Kids(outer[i])) : i \in Those(outer, Closures)}
DeclaredIn(body) ==
  LET outer == Nodes(body, "outer") IN UNION {Binds(outer[i]) : i \in DOMAIN outer}

\* A constant or a named function outside the closures.
HasFixed(body) ==
  LET outer == Nodes(body, "outer")
  IN  Those(outer, {"fn"}) # {} \/ \E i \in Those(outer, {"decl"}) : outer[i].const

\* Slip: locals in registers although a closure sees them.
RegisterEligible_Captured(ps, body) == ~ HasFixed(body)

RegisterEligible(ps, body) ==
  /\ ~ HasFixed(body)
  /\ (ToSet(ps) \cup DeclaredIn(body)) \cap UsedInClosures(body) = {}

\* Every name the program binds anywhere; a builtin outside it is dispatched
\* without looking at the scopes.
BoundIn(program) ==
  LET all == Nodes(program, "bound")
  IN  UNION {Binds(all[i]) : i \in DOMAIN all}
      \cup UNION {ToSet(all[i].ps) : i \in Those(all, Closures)}

-----------------------------------------------------------------------------
(* The compiler's state.                                                     *)

Fresh(inRegs, shadowed, protos) ==
  [code |-> <<>>, protos |-> protos, shadowed |-> shadowed, inRegs |-> inRegs,
   top |-> 0, localTop |-> 0, maxreg |-> 0, numIters |-> 0,
   locals |-> IF inRegs THEN << <<>> >> ELSE <<>>, loops |-> <<>>, scopeDepth |-> 0]

\* "at" is the number of open scopes the compiler believes in; nothing runs on it.
EmitOp(op, f, a, b, k, c) ==
  [c EXCEPT !.code = Append(@, [op |-> op, f |-> f, a |-> a, b |-> b, c |-> k,
                                to |-> -1, at |-> c.scopeDepth])]
Emit(op, a, b, k, c) == EmitOp(op, "", a, b, k, c)

Here(c) == Len(c.code)
PatchTo(i, target, c) == [c EXCEPT !.code[i].to = target]
PatchAll(is, target, c) ==
  [c EXCEPT !.code = [i \in DOMAIN @ |-> IF i \in is THEN [@[i] EXCEPT !.to = target]
                                         ELSE @[i]]]

\* The jump at i lands on the next instruction; so do those of kind op since
\* start that still have no target.
LandAt(i, c) == PatchTo(i, Here(c), c)
LandAll(op, start, c) ==
  PatchAll({i \in (start + 1)..Here(c) : c.code[i].op = op /\ c.code[i].to = -1}, Here(c), c)

MaxOf(a, b) == IF a > b THEN a ELSE b
Reserve(c) == [c EXCEPT !.top = @ + 1, !.maxreg = MaxOf(@, c.top + 1)]
Release(n, c) == [c EXCEPT !.top = @ - n]
EnsureReg(r, c) == [c EXCEPT !.maxreg = MaxOf(@, r + 1)]

ReserveLocalSlot(c) ==
  [c EXCEPT !.localTop = @ + 1, !.top = c.localTop + 1, !.maxreg = MaxOf(@, c.localTop + 1)]
DeclareLocal(x, c) ==
  [ReserveLocalSlot(c) EXCEPT !.locals[Len(c.locals)] =
     [y \in DOMAIN @ \cup {x} |-> IF y = x THEN c.localTop ELSE @[y]]]

Holding(x, c) == {i \in DOMAIN c.locals : x \in DOMAIN c.locals[i]}
IsLocal(x, c) == Holding(x, c) # {}
SlotOf(x, c) == c.locals[Max(Holding(x, c))][x]

EnterBlockScope(c) ==
  IF c.inRegs THEN [c EXCEPT !.locals = Append(@, <<>>)]
  ELSE [Emit("PushScope", 0, 0, 0, c) EXCEPT !.scopeDepth = @ + 1]
LeaveBlockScope(c) ==
  IF c.inRegs THEN [c EXCEPT !.locals = Front(@)]
  ELSE [Emit("PopScope", 0, 0, 0, c) EXCEPT !.scopeDepth = @ - 1]

PushLoop(continueTarget, c) ==
  [c EXCEPT !.loops = Append(@, [continueTarget |-> continueTarget, breaks |-> {},
                                 nexts |-> {}, scopeDepth |-> c.scopeDepth])]
PopLoop(exit, c) ==
  LET lp == Last(c.loops)
  IN  [PatchAll(lp.nexts, lp.continueTarget, PatchAll(lp.breaks, exit, c))
         EXCEPT !.loops = Front(@)]

\* Slip: one pop too few.
RECURSIVE EmitScopePops_OneShort(_, _)
EmitScopePops_OneShort(target, c) ==
  IF c.scopeDepth > target + 1
  THEN EmitScopePops_OneShort(target, [Emit("PopScope", 0, 0, 0, c) EXCEPT !.scopeDepth = @ - 1])
  ELSE c

\* The pops a break or next needs; the statement after it is nested as before.
RECURSIVE EmitScopePops(_, _)
EmitScopePops(target, c) ==
  IF c.scopeDepth > target
  THEN EmitScopePops(target, [Emit("PopScope", 0, 0, 0, c) EXCEPT !.scopeDepth = @ - 1])
  ELSE c

Proto(c) == [code |-> c.code, numRegs |-> c.maxreg, inRegs |-> c.inRegs,
             numIters |-> c.numIters]

-----------------------------------------------------------------------------
(* Expressions.                                                              *)

RECURSIVE Expr(_, _, _), Stmt(_, _, _), IfStmt(_, _, _), Resolve(_, _, _)

\* e in a fresh temporary, and the temporaries n values in a row.
Temp(e, c) == Expr(e, c.top, Reserve(c))
Spread(es, c) == FoldLeft(LAMBDA acc, e : Temp(e, acc), c, es)

\* The register that holds e: a local's own slot, or a temporary.
Operand(e, c) ==
  IF e.k = "var" /\ IsLocal(e.x, c) THEN [r |-> SlotOf(e.x, c), tmp |-> 0, c |-> c]
  ELSE [r |-> c.top, tmp |-> 1, c |-> Temp(e, c)]

Two(l, r) == [l |-> l.r, r |-> r.r, c |-> Release(l.tmp + r.tmp, r.c)]
WithRight(l, e) == Two(l, Operand(e, l.c))
Both(l, r, c) == WithRight(Operand(l, c), r)

UseOne(op, f, dst, o, k) == Release(o.tmp, EmitOp(op, f, dst, o.r, k, o.c))
UseBoth(op, f, dst, o) == EmitOp(op, f, dst, o.l, o.r, o.c)

MoveTo(dst, src, c) == IF dst = src THEN c ELSE Emit("Move", dst, src, 0, c)

ImmediateOps == {"+", "-", "*", "%", "~"}
Commutative == {"+", "*"}

BinExpr(e, dst, c) ==
  CASE e.op \in ImmediateOps /\ e.r.k = "lit" ->
         UseOne("BinK", e.op, dst, Operand(e.l, c), e.r.v)
    [] e.op \in Commutative /\ e.r.k # "lit" /\ e.l.k = "lit" ->
         UseOne("BinK", e.op, dst, Operand(e.r, c), e.l.v)
    [] OTHER -> UseBoth("Bin", e.op, dst, Both(e.l, e.r, c))

\* l into dst, and past r when the jump is taken.
PastRight(e, dst, c) == LandAt(Here(c), Expr(e.r, dst, c))
ShortCircuit(jump, e, dst, c) ==
  PastRight(e, dst, Emit(jump, dst, 0, 0, Expr(e.l, dst, c)))

\* Each part is appended to dst at once; an Err ends the interpolation.
InterpExpr(e, dst, c) ==
  LET Part(acc, p) ==
        Emit("JumpIfErr", dst, 0, 0,
             Release(1, Emit("Concat", dst, dst, acc.top, Temp(p, acc))))
  IN  LandAll("JumpIfErr", Here(c),
              FoldLeft(Part, Emit("LoadConst", dst, EmptyV, 0, c), e.es))

\* The arguments stand in the n registers from base on.
Dispatch(f, base, n, c) ==
  LET direct == f.x \in Builtins /\ f.x \notin c.shadowed
  IN  IF f.k = "name"
      THEN Emit(IF direct THEN "CallBuiltin" ELSE "Call", base, n, f.x,
                EnsureReg(base, Release(n, c)))
      ELSE Emit("CallValue", base, n, c.top, EnsureReg(base, Release(n + 1, Temp(f, c))))
CallExpr(e, dst, c) ==
  MoveTo(dst, c.top, Dispatch(e.l, c.top, Len(e.es), Spread(e.es, c)))

\* A key that cannot be one ends the literal before its value is computed.
MapKey(key, dst, c) ==
  IF key.k = "name" THEN Emit("LoadConst", c.top, TextV(key.x), 0, Reserve(c))
  ELSE Emit("JumpUnhashable", dst, c.top, 0, Temp(key, c))
MapExpr(e, dst, c) ==
  LET n == Len(e.es)
      Entry(acc, i) == Temp(e.vs[i], MapKey(e.es[i], dst, acc))
  IN  LandAll("JumpUnhashable", Here(c),
              Emit("MakeMap", dst, c.top, n,
                   Release(2 * n, FoldLeft(Entry, c, [i \in 1..n |-> i]))))

\* l and r in two temporaries, free again when the instruction reads them.
Pair(op, e, dst, c) ==
  Emit(op, dst, c.top, c.top + 1, Release(2, Temp(e.r, Temp(e.l, c))))

-----------------------------------------------------------------------------
(* Statements.  res is the register the statement's value goes to, or -1.    *)

Discard == -1
LoadNil(res, c) == IF res = Discard THEN c ELSE Emit("LoadNil", res, 0, 0, c)

BlockStmts(b, res, c) ==
  IF b = <<>> THEN LoadNil(res, c)
  ELSE Stmt(Last(b), res, FoldLeft(LAMBDA acc, s : Stmt(s, Discard, acc), c, Front(b)))

Scoped(b, res, c) == LeaveBlockScope(BlockStmts(b, res, EnterBlockScope(c)))

\* A function's parameters are its first locals; the slot after them is for
\* the value of the body.
Params(ps, c) == IF c.inRegs THEN FoldLeft(LAMBDA acc, p : DeclareLocal(p, acc), c, ps) ELSE c
FinishBody(body, c) ==
  Emit("Return", c.top, 0, 0,
       BlockStmts(body, c.top, IF c.inRegs THEN ReserveLocalSlot(c) ELSE Reserve(c)))
FunctionBody(ps, body, shadowed, protos) ==
  FinishBody(body, Params(ps, Fresh(RegisterEligible(ps, body), shadowed, protos)))

\* A nested function is compiled once; its closures share the code.
Adopt(name, n, f, c) ==
  [c EXCEPT !.protos = Append(f.protos, [proto |-> Proto(f), name |-> name,
                                         ps |-> n.ps, ds |-> n.ds])]
AddTemplate(name, n, c) == Adopt(name, n, FunctionBody(n.ps, n.body, c.shadowed, c.protos), c)
MakeNewest(dst, c) == Emit("MakeClosure", dst, Len(c.protos), 0, c)

Expr(e, dst, c) ==
  CASE e.k = "lit" -> Emit("LoadConst", dst, e.v, 0, c)
    [] e.k \in {"var", "name"} ->
         IF IsLocal(e.x, c) THEN MoveTo(dst, SlotOf(e.x, c), c)
         ELSE Emit(IF e.k = "var" THEN "GetVar" ELSE "GetIdent", dst, e.x, 0, c)
    [] e.k = "interp" -> InterpExpr(e, dst, c)
    [] e.k \in {"neg", "not"} ->
         UseOne(IF e.k = "neg" THEN "Neg" ELSE "Not", "", dst, Operand(e.l, c), 0)
    [] e.k = "bin" -> BinExpr(e, dst, c)
    [] e.k \in {"logic", "defor"} ->
         ShortCircuit(CASE e.k = "defor" -> "JumpIfDefined"
                        [] e.k = "logic" /\ e.op = "||" -> "JumpIfTruthy"
                        [] e.k = "logic" /\ e.op = "&&" -> "JumpIfFalsy", e, dst, c)
    [] e.k = "try" -> Emit("Propagate", dst, 0, 0, Expr(e.l, dst, c))
    [] e.k \in {"call", "pipe"} -> CallExpr(e, dst, c)
    [] e.k = "lambda" -> MakeNewest(dst, AddTemplate("", e, c))
    [] e.k = "array" ->
         Emit("MakeArray", dst, c.top, Len(e.es), Release(Len(e.es), Spread(e.es, c)))
    [] e.k = "map" -> MapExpr(e, dst, c)
    [] e.k \in {"range", "at"} ->
         Pair(IF e.k = "range" THEN "MakeRange" ELSE "Index", e, dst, c)
    [] e.k = "field" -> Emit("Field", dst, c.top, e.x, Release(1, Temp(e.l, c)))

\* A jump taken when cond is false (true); a comparison is fused into it.
FusedBranch(op, f, o) == EmitOp(op, f, o.l, o.r, 0, o.c)
BranchOn(when, cond, c) ==
  IF cond.k = "bin" /\ cond.op \in Orders \cup Equals
  THEN FusedBranch(IF when THEN "JmpTrue" ELSE "JmpFalse", cond.op, Both(cond.l, cond.r, c))
  ELSE Emit(IF when THEN "JumpIfTruthy" ELSE "JumpIfFalsy", c.top, 0, 0,
            Release(1, Temp(cond, c)))

\* The last instruction so far is the branch, then the jump past the rest.
ElsePart(s, res, c) ==
  CASE s.els = "none" -> LoadNil(res, c)
    [] s.els = "block" -> Scoped(s.other, res, c)
    [] s.els = "if" -> IfStmt(s.other, res, c)
AfterThen(s, res, branch, c) == LandAt(Here(c), ElsePart(s, res, LandAt(branch, c)))
ThenPart(s, res, c) ==
  AfterThen(s, res, Here(c), Emit("Jump", 0, 0, 0, Scoped(s.body, res, c)))
IfStmt(s, res, c) == ThenPart(s, res, BranchOn(FALSE, s.c, c))

\* The last instruction so far goes back to start; exit leaves the loop.
JumpBack(exit, start, c) ==
  PopLoop(Here(c), LandAt(exit, PatchTo(Here(c), start, c)))

\* Scopes: the test stands at the top, every pass opens a scope of its own.
TestedAbove(s, start, c) ==
  JumpBack(Here(c), start, Emit("Jump", 0, 0, 0, Scoped(s.body, Discard, PushLoop(start, c))))
WhileInScopes(s, c) == TestedAbove(s, Here(c), BranchOn(FALSE, s.c, c))

\* Registers: the test stands at the bottom and is the back edge; an entry
\* jump reaches it first.
BackEdge(body, c) == PopLoop(Here(c), PatchTo(Here(c), body, c))
\* Slip: next goes to the body instead of the test.
TestBelow_PastTest(s, entry, c) ==
  BackEdge(entry, BranchOn(TRUE, s.c,
    LandAt(entry, [c EXCEPT !.loops[Len(c.loops)].continueTarget = entry])))
TestBelow(s, entry, c) ==
  BackEdge(entry, BranchOn(TRUE, s.c,
    LandAt(entry, [c EXCEPT !.loops[Len(c.loops)].continueTarget = Here(c)])))
WhileInRegs(s, c) ==
  TestBelow(s, Here(c) + 1, Scoped(s.body, Discard, PushLoop(-1, Emit("Jump", 0, 0, 0, c))))

WhileStmt(s, res, c) ==
  IF c.inRegs THEN WhileInRegs(s, LoadNil(res, c)) ELSE WhileInScopes(s, LoadNil(res, c))

IterNew(s, c) ==
  Release(1, Emit("IterNew", c.numIters, c.top, 0, Temp(s.e, [c EXCEPT !.numIters = @ + 1])))

\* The item is written to the registers from base on: the loop variables
\* themselves, or what each pass declares in a scope of its own.
OnePass(s, base, c) ==
  LET DeclareItem(acc, i) == Emit("DeclVar", base + i - 1, s.xs[i], FALSE, acc)
  IN  IF c.inRegs THEN BlockStmts(s.body, Discard, c)
      ELSE LeaveBlockScope(BlockStmts(s.body, Discard,
             FoldLeft(DeclareItem, EnterBlockScope(c), [i \in DOMAIN s.xs |-> i])))
Passes(s, iter, base, c) ==
  LET IterNext == IF Len(s.xs) = 2 THEN "IterNext2" ELSE "IterNext1"
  IN  JumpBack(Here(c) + 1, Here(c), Emit("Jump", 0, 0, 0,
        OnePass(s, base, PushLoop(Here(c), Emit(IterNext, iter, base, 0, c)))))

ForInRegs(s, c) ==
  LeaveBlockScope(Passes(s, c.numIters, c.localTop,
    FoldLeft(LAMBDA acc, x : DeclareLocal(x, acc), EnterBlockScope(IterNew(s, c)), s.xs)))
ForInScopes(s, c) ==
  Release(Len(s.xs), Passes(s, c.numIters, c.top,
    FoldLeft(LAMBDA acc, x : Reserve(acc), IterNew(s, c), s.xs)))

ForStmt(s, res, c) ==
  LoadNil(res, IF c.inRegs THEN ForInRegs(s, c) ELSE ForInScopes(s, c))

\* The register a value is left in: res, or a temporary when it is discarded.
Into(res, c) == IF res = Discard THEN [r |-> c.top, tmp |-> 1, c |-> Reserve(c)]
                ELSE [r |-> res, tmp |-> 0, c |-> c]
CopyTo(res, r, c) == IF res = Discard THEN c ELSE MoveTo(res, r, c)

\* The initializer is compiled before the name is in scope.
DeclStmt(s, res, c) ==
  LET t == Into(res, c)
  IN  IF c.inRegs
      THEN CopyTo(res, c.localTop, MoveTo(c.localTop, c.top,
             DeclareLocal(s.x, Release(1, Temp(s.e, c)))))
      ELSE Release(t.tmp, Emit("DeclVar", t.r, s.x, s.const, Expr(s.e, t.r, t.c)))

AssignLocal(slot, s, res, c) ==
  LET Plain == Expr(s.e, slot, c)
      Literal == Emit("CompoundLocalK", slot, s.e.v, s.op, c)
      Computed == Emit("CompoundLocal", slot, c.top, s.op, Release(1, Temp(s.e, c)))
  IN  CopyTo(res, slot, IF s.op = "=" THEN Plain
                        ELSE IF s.e.k = "lit" THEN Literal ELSE Computed)

AssignFree(x, s, res, c) ==
  LET t == Into(res, c)
      Plain == Release(t.tmp, Emit("SetVar", t.r, x, 0, Expr(s.e, t.r, t.c)))
      Updated == Emit("CompoundVar", x, c.top, s.op, Temp(s.e, c))
  IN  IF s.op = "=" THEN Plain ELSE Release(1, CopyTo(res, c.top, Updated))

\* The container e stands for; key is the register of the key into it.
ThroughSlot(r, key, parent) ==
  [r |-> r, c |-> Emit("ResolveSlot", r, key, parent.r, parent.c)]
Resolve(e, key, c) ==
  CASE e.k = "var" /\ IsLocal(e.x, c) ->
         [r |-> SlotOf(e.x, c), c |-> Emit("ResolveLocal", SlotOf(e.x, c), key, 0, c)]
    [] e.k = "var" /\ ~ IsLocal(e.x, c) ->
         [r |-> c.top, c |-> Emit("ResolveVar", c.top, e.x, key, Reserve(c))]
    [] e.k = "at" -> ThroughSlot(c.top, key, Resolve(e.l, c.top, Temp(e.r, c)))
    [] e.k = "field" ->
         ThroughSlot(c.top, key, Resolve(e.l, c.top,
           Emit("LoadConst", c.top, TextV(e.x), 0, Reserve(c))))

\* Right-hand side, last key, path, write: the walker's order.
KeyInto(t, key, c) ==
  IF t.k = "at" THEN Expr(t.r, key, c) ELSE Emit("LoadConst", key, TextV(t.x), 0, c)
WriteSlot(op, key, cont) == Emit("AssignSlot", cont.r, key, op, cont.c)
AssignSlotStmt(s, res, c) ==
  LET key == c.top
      val == key + 1
      keyed == KeyInto(s.t, key, Expr(s.e, val, Reserve(Reserve(c))))
  IN  [CopyTo(res, val, WriteSlot(s.op, key, Resolve(s.t.l, key, keyed))) EXCEPT !.top = c.top]

AssignStmt(s, res, c) ==
  CASE s.t.k # "var" -> AssignSlotStmt(s, res, c)
    [] s.t.k = "var" /\ IsLocal(s.t.x, c) -> AssignLocal(SlotOf(s.t.x, c), s, res, c)
    [] OTHER -> AssignFree(s.t.x, s, res, c)

ReturnStmt(s, c) ==
  Release(1, Emit("Return", c.top, 0, 0,
    IF s.e = None THEN Emit("LoadNil", c.top, 0, 0, Reserve(c)) ELSE Temp(s.e, c)))

\* break and next: unwind to the loop's nesting, then a jump PopLoop patches.
\* What follows in the source is nested as before.
Pending(kind, c) ==
  LET i == Len(c.loops)
  IN  IF kind = "break" THEN [c EXCEPT !.loops[i].breaks = @ \cup {Here(c)}]
      ELSE [c EXCEPT !.loops[i].nexts = @ \cup {Here(c)}]
LeaveStmt(kind, c) ==
  [Pending(kind, Emit("Jump", 0, 0, 0, EmitScopePops(Last(c.loops).scopeDepth, c)))
     EXCEPT !.scopeDepth = c.scopeDepth]

FnStmt(s, res, c) ==
  LoadNil(res, Release(1, Emit("DeclVar", c.top, s.x, FALSE,
    MakeNewest(c.top, Reserve(AddTemplate(s.x, s, c))))))

Stmt(s, res, c) ==
  CASE s.k = "decl" -> DeclStmt(s, res, c)
    [] s.k = "assign" -> AssignStmt(s, res, c)
    [] s.k = "do" -> LET t == Into(res, c) IN Release(t.tmp, Expr(s.e, t.r, t.c))
    [] s.k = "if" -> IfStmt(s, res, c)
    [] s.k = "while" -> WhileStmt(s, res, c)
    [] s.k = "for" -> ForStmt(s, res, c)
    [] s.k = "return" -> ReturnStmt(s, c)
    [] s.k \in {"break", "next"} -> LeaveStmt(s.k, c)
    [] s.k = "fn" -> FnStmt(s, res, c)

\* The program's own code, and its functions by index.
Whole(c) == [main |-> Proto(c), protos |-> c.protos]
Compile(program) ==
  Whole(FoldLeft(LAMBDA acc, s : Stmt(s, Discard, acc),
                 Fresh(FALSE, BoundIn(program), <<>>), program))
=============================================================================
