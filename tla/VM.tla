--------------------------------- MODULE VM ---------------------------------
(* The register machine that runs what Compiler produces, one instruction a  *)
(* step, and the promise that the program behind the code cannot tell it     *)
(* from the tree walker.  A frame stands for one activation of vmRun.        *)
(* Default expressions are the walker's, as in the code; in the programs     *)
(* given here they call no user function and make no closure.                *)
EXTENDS Walker

LOCAL INSTANCE SequencesExt

CONSTANTS Code,              \* the programs, as Compiler leaves them
          Expected           \* how the walker ends each of them

VARIABLES prog,              \* the program being run
          code,              \* what the compiler made of it
          frames,            \* the activations, the running one last
          mem,               \* scopes, containers, output
          end                \* "no", then "done" or "abort"

vars == <<prog, code, frames, mem, end>>

Main == 0
ProtoOf(p) == IF p = Main THEN code.main ELSE code.protos[p].proto
CodeOf(fr) == ProtoOf(fr.proto).code

\* Registers past the arguments start out nil, iterators unset.
Frame(proto, args, env, depth, ret) ==
  LET p == ProtoOf(proto)
  IN  [proto |-> proto, ip |-> 0, env |-> env, base |-> env, depth |-> depth, ret |-> ret,
       regs |-> [r \in 0..(p.numRegs - 1) |-> IF r < Len(args) THEN args[r + 1] ELSE NilV],
       iters |-> [i \in 0..(p.numIters - 1) |-> <<>>]]

Init ==
  /\ prog \in DOMAIN Code
  /\ code = Code[prog]
  /\ frames = <<Frame(Main, <<>>, Global, 0, 0)>>
  /\ mem = FreshMem
  /\ end = "no"

-----------------------------------------------------------------------------
(* How an instruction ends.                                                  *)

Top == Last(frames)
Instr == CodeOf(Top)[Top.ip + 1]
Reg(r) == Top.regs[r]
Regs(base, n) == [i \in 1..n |-> Reg(base + i - 1)]

On(op) == end = "no" /\ Top.ip < Len(CodeOf(Top)) /\ Instr.op = op

Keep(fr) == frames' = [frames EXCEPT ![Len(frames)] = fr] /\ UNCHANGED <<prog, code, end>>
Next1(fr) == [fr EXCEPT !.ip = @ + 1]
Die(m) == frames' = <<>> /\ mem' = m /\ end' = "abort" /\ UNCHANGED <<prog, code>>

\* The result r, if it is one, goes to register dst (Effect: nowhere).
Yield(dst, r) ==
  IF r.sig = "ok" THEN Keep(Next1([Top EXCEPT !.regs[dst] = r.v])) /\ mem' = r.mem
  ELSE Die(r.mem)
Effect(r) == IF r.sig = "ok" THEN Keep(Next1(Top)) /\ mem' = r.mem ELSE Die(r.mem)
Give(dst, v) == Yield(dst, Ok(v, mem))

JumpWhen(taken) ==
  Keep([Top EXCEPT !.ip = IF taken THEN Instr.to ELSE @ + 1]) /\ UNCHANGED mem

\* The running activation ends with v, its caller's result.
PopFrame(v) ==
  LET rest == Front(frames)
  IN  /\ frames' = [rest EXCEPT ![Len(rest)].regs[Top.ret] = v]
      /\ UNCHANGED <<prog, code, mem, end>>

\* ?: up to the call boundary; out of the program it aborts.
Unwind(v) == IF Len(frames) = 1 THEN Die(mem) ELSE PopFrame(v)

-----------------------------------------------------------------------------
(* Values and operators.                                                     *)

LoadConst == On("LoadConst") /\ Give(Instr.a, Instr.b)
LoadNilOp == On("LoadNil") /\ Give(Instr.a, NilV)
Move == On("Move") /\ Give(Instr.a, Reg(Instr.b))

BinOp == On("Bin") /\ Yield(Instr.a, Infix(Instr.f, Reg(Instr.b), Reg(Instr.c), mem))
BinKOp == On("BinK") /\ Yield(Instr.a, Infix(Instr.f, Reg(Instr.b), Instr.c, mem))
ConcatOp == On("Concat") /\ Give(Instr.a, Concat(Reg(Instr.b), Reg(Instr.c), mem))
NegOp == On("Neg") /\ Yield(Instr.a, Negate(Reg(Instr.b), mem))
NotOp == On("Not") /\ Give(Instr.a, BoolV(~ Truthy(Reg(Instr.b), mem)))

MakeArray == On("MakeArray") /\ Yield(Instr.a, Alloc("array", Regs(Instr.b, Instr.c), mem))

MakeMap ==
  /\ On("MakeMap")
  /\ LET pair(i) == Regs(Instr.b + 2 * (i - 1), 2)
     IN  Yield(Instr.a, Alloc("map", Entries([i \in 1..Instr.c |-> pair(i)]), mem))

JumpUnhashable ==
  /\ On("JumpUnhashable")
  /\ IF Hashable(Reg(Instr.b)) THEN JumpWhen(FALSE)
     ELSE /\ Keep([Top EXCEPT !.ip = Instr.to, !.regs[Instr.a] = ErrV("unhashable")])
          /\ UNCHANGED mem

MakeRangeOp == On("MakeRange") /\ Give(Instr.a, MakeRange(Reg(Instr.b), Reg(Instr.c)))
IndexOp == On("Index") /\ Give(Instr.a, IndexRead(Reg(Instr.b), Reg(Instr.c), mem))
FieldOp == On("Field") /\ Give(Instr.a, FieldRead(Reg(Instr.b), Instr.c, mem))

-----------------------------------------------------------------------------
(* Variables and containers.                                                 *)

GetVar ==
  /\ On("GetVar")
  /\ Yield(Instr.a, IF Known(Instr.b, Top.env, mem) THEN Ok(Get(Instr.b, Top.env, mem), mem)
                    ELSE Abort(mem))
GetIdent == On("GetIdent") /\ Yield(Instr.a, EvalName(Instr.b, Top.env, mem))
DeclVar == On("DeclVar") /\ Effect(Define(Instr.b, Reg(Instr.a), Instr.c, Top.env, mem))
SetVar == On("SetVar") /\ Effect(Set(Instr.b, Reg(Instr.a), Top.env, mem))

CompoundLocal ==
  On("CompoundLocal") /\ Yield(Instr.a, FastCompound(Instr.c, Reg(Instr.a), Reg(Instr.b), mem))
CompoundLocalK ==
  On("CompoundLocalK") /\ Yield(Instr.a, FastCompound(Instr.c, Reg(Instr.a), Instr.b, mem))
CompoundVar ==
  /\ On("CompoundVar")
  /\ LET r == FastCompound(Instr.c, Get(Instr.a, Top.env, mem), Reg(Instr.b), mem)
     IN  Yield(Instr.b, Then(r, LAMBDA v, m : Set(Instr.a, v, Top.env, m)))

ResolveLocal ==
  On("ResolveLocal") /\ Yield(Instr.a, ContainerForWrite(Reg(Instr.a), KindFor(Reg(Instr.b)), mem))
ResolveVarOp ==
  On("ResolveVar") /\ Yield(Instr.a, ResolveVar(Instr.b, KindFor(Reg(Instr.c)), Top.env, mem))
ResolveSlotOp ==
  /\ On("ResolveSlot")
  /\ Yield(Instr.a, ResolveSlot(Reg(Instr.c), Reg(Instr.a), KindFor(Reg(Instr.b)), mem))
AssignSlotOp ==
  /\ On("AssignSlot")
  /\ Yield(Instr.b + 1, AssignSlot(Reg(Instr.a), Reg(Instr.b), Instr.c, Reg(Instr.b + 1), mem))

PushScope ==
  /\ On("PushScope")
  /\ mem' = Child(Top.env, mem)
  /\ Keep(Next1([Top EXCEPT !.env = Newest(mem')]))
PopScope ==
  /\ On("PopScope")
  /\ Keep(Next1([Top EXCEPT !.env = mem.scopes[@].parent]))
  /\ UNCHANGED mem

-----------------------------------------------------------------------------
(* Jumps and loops.                                                          *)

Jump == On("Jump") /\ JumpWhen(TRUE)
JumpIfFalsy == On("JumpIfFalsy") /\ JumpWhen(~ Truthy(Reg(Instr.a), mem))
JumpIfTruthy == On("JumpIfTruthy") /\ JumpWhen(Truthy(Reg(Instr.a), mem))
JumpIfDefined == On("JumpIfDefined") /\ JumpWhen(Defined(Reg(Instr.a)))
JumpIfErr == On("JumpIfErr") /\ JumpWhen(IsErr(Reg(Instr.a)))

\* An Err that comes out of a comparison counts as true, like any Err.
JmpCompare(op, when) ==
  /\ On(op)
  /\ LET r == Infix(Instr.f, Reg(Instr.a), Reg(Instr.b), mem)
     IN  IF r.sig = "ok" THEN JumpWhen(Truthy(r.v, mem) = when) ELSE Die(mem)
JmpFalse == JmpCompare("JmpFalse", FALSE)
JmpTrue == JmpCompare("JmpTrue", TRUE)

\* A range is walked lazily and stops at its bound without stepping past it.
NewIter(v) ==
  IF Tag(v) = "range"
  THEN [lazy |-> TRUE, cur |-> v[2], hi |-> v[3], idx |-> 0, done |-> v[3] < v[2]]
  ELSE [lazy |-> FALSE, items |-> Items(v, mem), pos |-> 0]
Exhausted(it) == IF it.lazy THEN it.done ELSE it.pos >= Len(it.items)
Current(it) == IF it.lazy THEN <<IntV(it.idx), IntV(it.cur)>> ELSE it.items[it.pos + 1]
Advanced(it) ==
  CASE it.lazy /\ it.cur = it.hi -> [it EXCEPT !.done = TRUE]
    [] it.lazy /\ it.cur # it.hi -> [it EXCEPT !.cur = @ + 1, !.idx = @ + 1]
    [] OTHER -> [it EXCEPT !.pos = @ + 1]

IterNewOp ==
  /\ On("IterNew")
  /\ LET v == Reg(Instr.b)
     IN  CASE IsErr(v) -> Unwind(v)
           [] Iterable(v) -> /\ Keep(Next1([Top EXCEPT !.iters[Instr.a] = NewIter(v)]))
                             /\ UNCHANGED mem
           [] OTHER -> Die(mem)

IterNextOp(op, written(_)) ==
  /\ On(op)
  /\ LET it == Top.iters[Instr.a]
     IN  IF Exhausted(it) THEN JumpWhen(TRUE)
         ELSE /\ Keep(Next1([Top EXCEPT !.iters[Instr.a] = Advanced(it),
                                        !.regs = written(Current(it))]))
              /\ UNCHANGED mem
IterNext1 ==
  IterNextOp("IterNext1", LAMBDA kv : [Top.regs EXCEPT ![Instr.b] = kv[2]])
IterNext2 ==
  IterNextOp("IterNext2", LAMBDA kv : [Top.regs EXCEPT ![Instr.b] = kv[1],
                                                       ![Instr.b + 1] = kv[2]])

-----------------------------------------------------------------------------
(* Calls.                                                                    *)

MakeClosure ==
  /\ On("MakeClosure")
  /\ LET t == code.protos[Instr.b]
     IN  Yield(Instr.a, Closure(t.name, t.ps, t.ds, <<>>, Instr.b, Top.env, mem))

\* Registers: the body runs in the captured scope, the arguments preloaded.
\* Scopes: the parameters are bound in a child of it.
Activate(f, args, m) ==
  LET inRegs == ProtoOf(f.code).inRegs
      m2 == IF inRegs THEN m ELSE Child(f.env, m)
      env == IF inRegs THEN f.env ELSE Newest(m2)
  IN  /\ frames' = Append([frames EXCEPT ![Len(frames)] = Next1(Top)],
                          Frame(f.code, IF inRegs THEN args ELSE <<>>, env,
                                Top.depth + 1, Instr.a))
      /\ mem' = IF inRegs THEN m2 ELSE DefineAll(f.ps, args, env, m2)
      /\ UNCHANGED <<prog, code, end>>

TooDeep == Top.depth + 1 > MaxCallDepth

\* A ? in a default expression unwinds the caller, as any ? of its body would.
CallValueOf(fv, args) ==
  LET f == mem.objs[fv[2]]
      bound == BindArgs(f, args, mem)
  IN  CASE f.builtin -> Yield(Instr.a, RunBuiltin(f.name, args, mem))
        [] ~ f.builtin /\ TooDeep -> Yield(Instr.a, Guarded(mem))
        [] OTHER -> CASE bound.sig = "ok" -> Activate(f, bound.v, bound.mem)
                      [] bound.sig = "err" -> Unwind(bound.v)
                      [] OTHER -> Die(bound.mem)

Args == Regs(Instr.a, Instr.b)

CallOp ==
  /\ On("Call")
  /\ LET fv == Get(Instr.c, Top.env, mem)
     IN  CASE Known(Instr.c, Top.env, mem) /\ Tag(fv) = "fn" -> CallValueOf(fv, Args)
           [] ~ Known(Instr.c, Top.env, mem) /\ Instr.c \in Builtins ->
                Yield(Instr.a, RunBuiltin(Instr.c, Args, mem))
           [] OTHER -> Die(mem)

CallBuiltin == On("CallBuiltin") /\ Yield(Instr.a, RunBuiltin(Instr.c, Args, mem))

CallValue ==
  On("CallValue") /\ IF Tag(Reg(Instr.c)) = "fn" THEN CallValueOf(Reg(Instr.c), Args) ELSE Die(mem)

Propagate ==
  On("Propagate") /\ IF IsErr(Reg(Instr.a)) THEN Unwind(Reg(Instr.a)) ELSE JumpWhen(FALSE)

ReturnOp == On("Return") /\ PopFrame(Reg(Instr.a))

\* Only the program's own code runs off its end.
RunOff ==
  /\ end = "no" /\ Top.ip = Len(CodeOf(Top))
  /\ frames' = <<>> /\ end' = "done" /\ UNCHANGED <<prog, code, mem>>

-----------------------------------------------------------------------------

Values == LoadConst \/ LoadNilOp \/ Move \/ BinOp \/ BinKOp \/ ConcatOp \/ NegOp \/ NotOp
          \/ MakeArray \/ MakeMap \/ JumpUnhashable \/ MakeRangeOp \/ IndexOp \/ FieldOp
Names == GetVar \/ GetIdent \/ DeclVar \/ SetVar \/ CompoundLocal \/ CompoundLocalK
         \/ CompoundVar \/ ResolveLocal \/ ResolveVarOp \/ ResolveSlotOp \/ AssignSlotOp
         \/ PushScope \/ PopScope
Control == Jump \/ JumpIfFalsy \/ JumpIfTruthy \/ JumpIfDefined \/ JumpIfErr \/ JmpFalse
           \/ JmpTrue \/ IterNewOp \/ IterNext1 \/ IterNext2
Calls == MakeClosure \/ CallOp \/ CallBuiltin \/ CallValue \/ Propagate \/ ReturnOp \/ RunOff

Next == Values \/ Names \/ Control \/ Calls

\* The machine is one loop of one goroutine: it goes on as long as it can.
Spec == Init /\ [][Next]_vars

-----------------------------------------------------------------------------
(* Properties.                                                               *)

Writers == {"LoadConst", "LoadNil", "Move", "Bin", "BinK", "Concat", "Neg", "Not",
            "MakeArray", "MakeMap", "MakeRange", "Index", "Field", "GetVar", "GetIdent",
            "ResolveVar", "MakeClosure", "Call", "CallBuiltin", "CallValue"}

\* Type invariant: activations no deeper than the guard allows, each within its
\* code and writing only registers its frame has (NumRegs, ensureReg).
TypeOK ==
  /\ prog \in DOMAIN Code
  /\ end \in {"no", "done", "abort"}
  /\ (end = "no") = (frames # <<>>)
  /\ Len(frames) <= MaxCallDepth + 1
  /\ \A i \in DOMAIN frames :
       LET fr == frames[i]
       IN  /\ fr.depth = i - 1
           /\ fr.ip \in 0..Len(CodeOf(fr))
           /\ DOMAIN fr.regs = 0..(ProtoOf(fr.proto).numRegs - 1)
           /\ fr.ip < Len(CodeOf(fr)) /\ CodeOf(fr)[fr.ip + 1].op \in Writers
                => CodeOf(fr)[fr.ip + 1].a \in DOMAIN fr.regs

\* The two backends cannot be told apart: a program ends on the machine the way
\* it ends on the walker, having printed the same ("byte-identical results").
Parity == end # "no" => Outcome(end, mem) = Expected[prog]

\* The scope an activation stands in is as many pushes below the one it began
\* in as the compiler counted, whichever jump led there: no break, next or
\* branch leaves a block's scope open or closes one twice.
RECURSIVE Nesting(_, _)
Nesting(env, base) == IF env \in {base, 0} THEN 0 ELSE 1 + Nesting(mem.scopes[env].parent, base)
ScopesBalanced ==
  \A i \in DOMAIN frames :
    LET fr == frames[i]
    IN  /\ fr.env # 0
        /\ fr.ip < Len(CodeOf(fr)) => Nesting(fr.env, fr.base) = CodeOf(fr)[fr.ip + 1].at
        /\ fr.ip = Len(CodeOf(fr)) => fr.env = fr.base
=============================================================================
