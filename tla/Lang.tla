-------------------------------- MODULE Lang --------------------------------
(* What the two backends of drang share: the syntax tree, the values, the    *)
(* scopes and containers, and the helpers both call on them.  A value is a   *)
(* tuple led by its tag; a container or a function is a reference into       *)
(* mem.objs, a scope an index into mem.scopes.  A string is the sequence of  *)
(* what was displayed into it.  Floats, regexes and the ordering of strings  *)
(* are left out.                                                             *)
EXTENDS Numbers, Sequences, FiniteSets

LOCAL INSTANCE SequencesExt

CONSTANTS MaxString,         \* the string limit (maxStringBytes)
          MaxCallDepth,      \* nested user calls before the guard answers an Err
          MaxOverflowFires   \* guard answers before a run is aborted

ASSUME BoundsAssumption ==
  /\ MaxString \in Nat /\ MaxCallDepth \in Nat /\ MaxOverflowFires \in Nat

-----------------------------------------------------------------------------
(* The syntax tree.                                                          *)

Lit(v) == [k |-> "lit", v |-> v]
Var(x) == [k |-> "var", x |-> x]              \* $x
Name(x) == [k |-> "name", x |-> x]            \* a bare identifier
Neg(e) == [k |-> "neg", l |-> e]
Not(e) == [k |-> "not", l |-> e]
Bin(op, l, r) == [k |-> "bin", op |-> op, l |-> l, r |-> r]
Logic(op, l, r) == [k |-> "logic", op |-> op, l |-> l, r |-> r]
DefOr(l, r) == [k |-> "defor", l |-> l, r |-> r]
Try(e) == [k |-> "try", l |-> e]              \* e?
Interp(ps) == [k |-> "interp", es |-> ps]
Call(f, as) == [k |-> "call", l |-> f, es |-> as]
Pipe(e, f, as) == [k |-> "pipe", l |-> f, es |-> <<e>> \o as]
Lambda(ps, ds, b) == [k |-> "lambda", ps |-> ps, ds |-> ds, body |-> b]
ArrayLit(es) == [k |-> "array", es |-> es]
MapLit(ks, vs) == [k |-> "map", es |-> ks, vs |-> vs]
RangeLit(l, r) == [k |-> "range", l |-> l, r |-> r]
At(e, i) == [k |-> "at", l |-> e, r |-> i]    \* e[i]
Field(e, x) == [k |-> "field", l |-> e, x |-> x]

Decl(x, e) == [k |-> "decl", x |-> x, e |-> e, const |-> FALSE]
Const(x, e) == [k |-> "decl", x |-> x, e |-> e, const |-> TRUE]
Assign(t, e) == [k |-> "assign", t |-> t, op |-> "=", e |-> e]
Update(t, op, e) == [k |-> "assign", t |-> t, op |-> op, e |-> e]
Do(e) == [k |-> "do", e |-> e]
If(c, b) == [k |-> "if", c |-> c, body |-> b, els |-> "none"]
IfElse(c, b, b2) == [k |-> "if", c |-> c, body |-> b, els |-> "block", other |-> b2]
ElseIf(c, b, s) == [k |-> "if", c |-> c, body |-> b, els |-> "if", other |-> s]
While(c, b) == [k |-> "while", c |-> c, body |-> b]
For(xs, e, b) == [k |-> "for", xs |-> xs, e |-> e, body |-> b]
Return(e) == [k |-> "return", e |-> e]
Break == [k |-> "break"]
Next_ == [k |-> "next"]
Fn(x, ps, ds, b) == [k |-> "fn", x |-> x, ps |-> ps, ds |-> ds, body |-> b]
None == [k |-> "none"]                        \* an absent default or return value

-----------------------------------------------------------------------------
(* Values.                                                                   *)

NilV == <<"nil">>
IntV(n) == <<"int", n>>
BoolV(b) == <<"bool", b>>
TextV(s) == <<"str", << <<"text", s>> >> >>
EmptyV == <<"str", <<>> >>
ErrV(m) == <<"err", m>>
RangeV(lo, hi) == <<"range", lo, hi>>
Tag(v) == v[1]
IsErr(v) == Tag(v) = "err"
Defined(v) == Tag(v) \notin {"nil", "err"}
Hashable(v) == Tag(v) \in {"int", "bool", "str"}

\* Memory: scopes, containers and functions, what was printed, and how often
\* the depth guard answered.
Scope(parent, depth) ==
  [vars |-> <<>>, parent |-> parent, depth |-> depth]
FreshMem == [scopes |-> <<Scope(0, 0)>>, objs |-> <<>>, out |-> <<>>, fires |-> 0]
Global == 1

Count(v, m) ==
  IF Tag(v) = "range" THEN RangeLen(v[2], v[3]) ELSE Len(m.objs[v[2]].elems)

Truthy(v, m) ==
  CASE Tag(v) = "nil" -> FALSE
    [] Tag(v) = "bool" -> v[2]
    [] Tag(v) = "int" -> v[2] # 0
    [] Tag(v) = "str" -> v[2] # <<>>
    [] Tag(v) \in {"array", "map", "range"} -> Count(v, m) > 0
    [] OTHER -> TRUE

\* A value with its containers spelled out: what Equal compares.
RECURSIVE Deep(_, _)
Deep(v, m) ==
  CASE Tag(v) = "array" ->
         <<"array", [i \in 1..Count(v, m) |-> Deep(m.objs[v[2]].elems[i], m)]>>
    [] Tag(v) = "map" ->
         <<"map", [i \in 1..Count(v, m) |->
                     LET kv == m.objs[v[2]].elems[i]
                     IN  <<Deep(kv[1], m), Deep(kv[2], m)>>]>>
    [] OTHER -> v

Equal(l, r, m) == Deep(l, m) = Deep(r, m)

\* What ~, interpolation and say write; a function shows its name only.
RECURSIVE Shown(_, _)
Shown(v, m) ==
  CASE Tag(v) = "str" -> v[2]
    [] Tag(v) = "fn" -> << <<"fn", m.objs[v[2]].name>> >>
    [] Tag(v) = "array" ->
         << <<"[">> >> \o FlattenSeq([i \in 1..Count(v, m) |->
                                      Shown(m.objs[v[2]].elems[i], m)])
    [] Tag(v) = "map" ->
         << <<"{">> >> \o FlattenSeq([i \in 1..Count(v, m) |->
                                      Shown(m.objs[v[2]].elems[i][1], m)
                                      \o Shown(m.objs[v[2]].elems[i][2], m)])
    [] OTHER -> <<v>>

Concat(l, r, m) ==
  LET s == Shown(l, m) \o Shown(r, m)
  IN  IF Len(s) > MaxString THEN ErrV("string limit") ELSE <<"str", s>>

-----------------------------------------------------------------------------
(* Results.  A Go error that is no control signal aborts the run.            *)

Ok(v, m) == [sig |-> "ok", v |-> v, mem |-> m]
Abort(m) == [sig |-> "abort", v |-> NilV, mem |-> m]
Signal(sig, v, m) == [sig |-> sig, v |-> v, mem |-> m]
Then(r, K(_, _)) == IF r.sig = "ok" THEN K(r.v, r.mem) ELSE r

-----------------------------------------------------------------------------
(* Scopes.                                                                   *)

Bound(s, x) == x \in DOMAIN s.vars

RECURSIVE Find(_, _, _)
Find(x, env, m) ==
  IF env = 0 \/ Bound(m.scopes[env], x) THEN env
  ELSE Find(x, m.scopes[env].parent, m)

Known(x, env, m) == Find(x, env, m) # 0
Get(x, env, m) == IF Known(x, env, m) THEN m.scopes[Find(x, env, m)].vars[x].v ELSE NilV

\* A nested scope inherits the call depth of its parent.
Child(env, m) == [m EXCEPT !.scopes = Append(@, Scope(env, m.scopes[env].depth))]
Newest(m) == Len(m.scopes)

RECURSIVE Freeze(_, _)
Freeze(v, m) ==
  IF Tag(v) \notin {"array", "map"} \/ m.objs[v[2]].frozen THEN m
  ELSE LET inner(i) == IF Tag(v) = "array" THEN m.objs[v[2]].elems[i]
                       ELSE m.objs[v[2]].elems[i][2]
       IN  FoldLeft(LAMBDA acc, i : Freeze(inner(i), acc),
                    [m EXCEPT !.objs[v[2]].frozen = TRUE],
                    [i \in 1..Count(v, m) |-> i])

Bind(x, v, frozen, env, m) ==
  [m EXCEPT !.scopes[env].vars =
     [y \in DOMAIN @ \cup {x} |-> IF y = x THEN [v |-> v, frozen |-> frozen] ELSE @[y]]]

Define(x, v, frozen, env, m) ==
  IF Bound(m.scopes[env], x) /\ m.scopes[env].vars[x].frozen THEN Abort(m)
  ELSE Ok(v, Bind(x, v, frozen, env, IF frozen THEN Freeze(v, m) ELSE m))

DefineAll(xs, vs, env, m) ==
  FoldLeft(LAMBDA acc, i : Bind(xs[i], vs[i], FALSE, env, acc), m, [i \in 1..Len(vs) |-> i])

Set(x, v, env, m) ==
  IF ~ Known(x, env, m) \/ m.scopes[Find(x, env, m)].vars[x].frozen THEN Abort(m)
  ELSE Ok(v, Bind(x, v, FALSE, Find(x, env, m), m))

-----------------------------------------------------------------------------
(* Operators.                                                                *)

Arith(op, l, r, m) ==
  IF IsErr(l) THEN Ok(l, m)
  ELSE IF IsErr(r) THEN Ok(r, m)
  ELSE IF Tag(l) # "int" \/ Tag(r) # "int" THEN Abort(m)
  ELSE IF Fails(op, l[2], r[2]) THEN Abort(m)
  ELSE Ok(IntV(Result(op, l[2], r[2])), m)

Compare(op, l, r, m) ==
  IF IsErr(l) THEN Ok(l, m)
  ELSE IF IsErr(r) THEN Ok(r, m)
  ELSE IF Tag(l) # "int" \/ Tag(r) # "int" THEN Abort(m)
  ELSE Ok(BoolV(CASE op = "<" -> l[2] < r[2] [] op = "<=" -> l[2] <= r[2]
                  [] op = ">" -> l[2] > r[2] [] op = ">=" -> l[2] >= r[2]), m)

Orders == {"<", "<=", ">", ">="}
Equals == {"==", "!="}

Infix(op, l, r, m) ==
  CASE op = "~" -> Ok(Concat(l, r, m), m)
    [] op = "==" -> Ok(BoolV(Equal(l, r, m)), m)
    [] op = "!=" -> Ok(BoolV(~ Equal(l, r, m)), m)
    [] op \in Orders -> Compare(op, l, r, m)
    [] OTHER -> Arith(op, l, r, m)

Negate(v, m) ==
  CASE Tag(v) = "int" -> IF v[2] = MinInt THEN Abort(m) ELSE Ok(IntV(-v[2]), m)
    [] IsErr(v) -> Ok(v, m)
    [] OTHER -> Abort(m)

\* cur op= rhs: a missing slot counts as 0, or as "" for ~=.
Compound(op, cur, rhs, m) ==
  CASE op = "//" -> Ok(IF Defined(cur) THEN cur ELSE rhs, m)
    [] op = "~" -> Ok(Concat(IF cur = NilV THEN EmptyV ELSE cur, rhs, m), m)
    [] OTHER -> Arith(op, IF cur = NilV THEN IntV(0) ELSE cur, rhs, m)

\* Two integers, when nothing can go wrong, are computed on the spot.
FastCompound(op, cur, rhs, m) ==
  IF Tag(cur) = "int" /\ Tag(rhs) = "int" /\ op \in Integral /\ ~ Fails(op, cur[2], rhs[2])
  THEN Ok(IntV(Result(op, cur[2], rhs[2])), m)
  ELSE Compound(op, cur, rhs, m)

-----------------------------------------------------------------------------
(* Containers.                                                               *)

NewObj(o, m) == [m EXCEPT !.objs = Append(@, o)]
Ref(tag, m) == <<tag, Len(m.objs)>>
Alloc(tag, elems, m) ==
  LET m2 == NewObj([elems |-> elems, frozen |-> FALSE], m) IN Ok(Ref(tag, m2), m2)

KindFor(key) == IF Tag(key) = "int" THEN "array" ELSE "map"

\* The position of an array index, counted from the end when negative; 0-based.
Slot(i, n) == IF i < 0 THEN i + n ELSE i
Place(key, es) == SelectInSeq(es, LAMBDA kv : kv[1] = key)

SlotRead(c, key, m) ==
  LET es == m.objs[c[2]].elems
  IN  CASE Tag(c) = "array" ->
             IF Tag(key) = "int" /\ Slot(key[2], Len(es)) \in 0..(Len(es) - 1)
             THEN es[Slot(key[2], Len(es)) + 1] ELSE NilV
        [] Tag(c) = "map" ->
             IF Hashable(key) /\ Place(key, es) # 0 THEN es[Place(key, es)][2] ELSE NilV

IndexRead(c, key, m) ==
  CASE IsErr(c) -> c
    [] ~ IsErr(c) /\ IsErr(key) -> key
    [] Tag(c) = "array" /\ ~ IsErr(key) ->
         IF Tag(key) = "int" /\ Slot(key[2], Count(c, m)) \in 0..(Count(c, m) - 1)
         THEN SlotRead(c, key, m) ELSE ErrV("index")
    [] Tag(c) = "map" /\ ~ IsErr(key) ->
         IF Hashable(key) THEN SlotRead(c, key, m) ELSE ErrV("unhashable")
    [] OTHER -> ErrV("not indexable")

FieldRead(c, x, m) ==
  IF IsErr(c) THEN c
  ELSE IF Tag(c) = "map" THEN SlotRead(c, TextV(x), m) ELSE ErrV("no field")

\* The map entries after key := v; an overwritten entry keeps its place.
Stored(key, v, es) ==
  IF Place(key, es) # 0 THEN [es EXCEPT ![Place(key, es)] = <<key, v>>]
  ELSE Append(es, <<key, v>>)

Entries(pairs) == FoldLeft(LAMBDA es, kv : Stored(kv[1], kv[2], es), <<>>, pairs)

NewSlot(op, cur, rhs, m) == IF op = "=" THEN Ok(rhs, m) ELSE FastCompound(op, cur, rhs, m)

AssignArray(c, key, op, rhs, m) ==
  LET n == Count(c, m)
      i == Slot(key[2], n)
  IN  IF m.objs[c[2]].frozen \/ Tag(key) # "int" THEN Abort(m)
      ELSE Then(NewSlot(op, SlotRead(c, key, m), rhs, m), LAMBDA v, m2 :
             IF i \in 0..(n - 1) THEN Ok(v, [m2 EXCEPT !.objs[c[2]].elems[i + 1] = v])
             ELSE IF i = n THEN Ok(v, [m2 EXCEPT !.objs[c[2]].elems = Append(@, v)])
             ELSE Abort(m2))

AssignMap(c, key, op, rhs, m) ==
  IF ~ Hashable(key) \/ m.objs[c[2]].frozen THEN Abort(m)
  ELSE Then(NewSlot(op, SlotRead(c, key, m), rhs, m), LAMBDA v, m2 :
         Ok(v, [m2 EXCEPT !.objs[c[2]].elems = Stored(key, v, @)]))

AssignSlot(c, key, op, rhs, m) ==
  IF Tag(c) = "array" THEN AssignArray(c, key, op, rhs, m)
  ELSE AssignMap(c, key, op, rhs, m)

\* The container behind cur, made on the spot when cur is nil.
ContainerForWrite(cur, kind, m) ==
  CASE Tag(cur) \in {"array", "map"} -> Ok(cur, m)
    [] Tag(cur) = "nil" -> Alloc(kind, <<>>, m)
    [] OTHER -> Abort(m)

ResolveVar(x, kind, env, m) ==
  LET cur == Get(x, env, m)
  IN  Then(ContainerForWrite(cur, kind, m), LAMBDA c, m2 :
        IF Tag(cur) = "nil" THEN Set(x, c, env, m2) ELSE Ok(c, m2))

ResolveSlot(parent, key, kind, m) ==
  LET cur == SlotRead(parent, key, m)
  IN  Then(ContainerForWrite(cur, kind, m), LAMBDA c, m2 :
        IF Tag(cur) = "nil" THEN AssignSlot(parent, key, "=", c, m2) ELSE Ok(c, m2))

MakeRange(lo, hi) ==
  IF Tag(lo) = "int" /\ Tag(hi) = "int" THEN RangeV(lo[2], hi[2]) ELSE ErrV("range")

-----------------------------------------------------------------------------
(* Functions and the builtins the instances call.                            *)

Builtins == {"say", "fail", "len", "push"}

Closure(name, ps, ds, body, code, env, m) ==
  LET m2 == NewObj([name |-> name, ps |-> ps, ds |-> ds, body |-> body, code |-> code,
                    env |-> env, builtin |-> FALSE], m)
  IN  Ok(Ref("fn", m2), m2)

BuiltinValue(name, m) ==
  LET m2 == NewObj([name |-> name, builtin |-> TRUE], m) IN Ok(Ref("fn", m2), m2)

Say(args, m) == Ok(NilV, [m EXCEPT !.out = @ \o FlattenSeq([i \in 1..Len(args) |->
                                                             Shown(args[i], m)])])
LenOf(v, m) ==
  CASE IsErr(v) -> v
    [] Tag(v) \in {"array", "map", "range"} -> IntV(Count(v, m))
    [] Tag(v) = "str" -> IntV(Len(v[2]))
    [] OTHER -> ErrV("len")

Push(args, m) ==
  IF Tag(args[1]) # "array" \/ m.objs[args[1][2]].frozen THEN Ok(ErrV("push"), m)
  ELSE Ok(args[1], [m EXCEPT !.objs[args[1][2]].elems = @ \o Tail(args)])

RunBuiltin(name, args, m) ==
  CASE name = "say" -> Say(args, m)
    [] name = "fail" -> Ok(ErrV("failed"), m)
    [] name = "len" -> IF Len(args) # 1 THEN Abort(m) ELSE Ok(LenOf(args[1], m), m)
    [] name = "push" -> IF Len(args) < 2 THEN Abort(m) ELSE Push(args, m)

\* The depth guard: an Err at first, an abort once it answered too often.
Guarded(m) ==
  IF m.fires + 1 > MaxOverflowFires THEN Abort([m EXCEPT !.fires = 0])
  ELSE Ok(ErrV("call depth"), [m EXCEPT !.fires = @ + 1])

\* What for-in walks: index (or key) and value, taken when the loop starts.
Iterable(v) == Tag(v) \in {"array", "map", "str", "range"}
Items(v, m) ==
  CASE Tag(v) = "array" -> [i \in 1..Count(v, m) |-> <<IntV(i - 1), m.objs[v[2]].elems[i]>>]
    [] Tag(v) = "map" -> m.objs[v[2]].elems
    [] Tag(v) = "str" -> [i \in 1..Len(v[2]) |-> <<IntV(i - 1), <<"str", <<v[2][i]>> >> >>]
    [] Tag(v) = "range" -> [i \in 1..Count(v, m) |-> <<IntV(i - 1), IntV(v[2] + i - 1)>>]
=============================================================================
