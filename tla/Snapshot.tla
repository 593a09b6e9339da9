------------------------------- MODULE Snapshot -------------------------------
(* The copy a strand is started with: the function it runs, its arguments    *)
(* and everything they reach (scopes, functions, arrays and maps, with their *)
(* aliases and cycles), cloned as one graph.  A memory holds scopes and      *)
(* objects; a value is a scalar or a reference to an object.  Arrays and     *)
(* maps are alike here: a sequence of values (the keys of a map are scalars  *)
(* and stay); every other object is a handle.                                *)
EXTENDS Naturals, Sequences, FiniteSets

LOCAL INSTANCE SequencesExt
LOCAL INSTANCE TLC

CONSTANTS MaxDepth,          \* how deep a snapshot recurses
          MaxNodes,          \* how many nodes it visits
          Memories,          \* what may be in memory when a strand is started
          Roots              \* the function and the arguments it is started with

Scalar == <<"scalar">>
Obj(i) == <<"obj", i>>
IsObj(v) == v[1] = "obj"

\* parent 0 is none, env 0 too; a function without a body is a builtin.
Env(parent, vars) == [parent |-> parent, vars |-> vars]
Binding(v, frozen) == [v |-> v, frozen |-> frozen]
Function(env, builtin) == [kind |-> "fn", env |-> env, builtin |-> builtin]
Container(elems, frozen) == [kind |-> "container", elems |-> elems, frozen |-> frozen]
Handle == [kind |-> "handle"]

\* A builtin of the host, with no scope to rebind.
Stateless(o) == o.kind = "fn" /\ o.builtin /\ o.env = 0

-----------------------------------------------------------------------------
(* Freezing: a container and every container it reaches through containers.  *)

RECURSIVE Freeze(_, _)
Freeze(v, mem) ==
  IF ~ IsObj(v) THEN mem
  ELSE LET o == mem.objs[v[2]]
       IN  IF o.kind # "container" THEN mem
           ELSE IF o.frozen THEN mem
           ELSE FoldLeft(LAMBDA acc, e : Freeze(e, acc),
                         [mem EXCEPT !.objs[v[2]].frozen = TRUE], o.elems)

-----------------------------------------------------------------------------
(* A snapshot under way: the heap with the copies so far, what was copied to *)
(* what, and the nodes visited.                                              *)

NewSnapshot(mem) == [mem |-> mem, envs |-> <<>>, objs |-> <<>>, nodes |-> 0]

Got(v, s) == [ok |-> TRUE, v |-> v, s |-> s]
Fail == [ok |-> FALSE]
Then(r, K(_, _)) == IF r.ok THEN K(r.v, r.s) ELSE Fail

Visit(depth, s, K(_)) ==
  IF depth > MaxDepth \/ s.nodes >= MaxNodes THEN Fail ELSE K([s EXCEPT !.nodes = @ + 1])

\* A copy is registered before anything it refers to is cloned.
NewEnv(e, env, s) ==
  [s EXCEPT !.mem.envs = Append(@, env), !.envs = @ @@ (e :> (Len(s.mem.envs) + 1))]
NewObj(i, o, s) ==
  [s EXCEPT !.mem.objs = Append(@, o), !.objs = @ @@ (i :> (Len(s.mem.objs) + 1))]

RECURSIVE CloneEnv(_, _, _, _), CloneVars(_, _, _, _, _), CloneFunction(_, _, _, _),
          CloneElems(_, _, _, _, _), CloneValue(_, _, _, _)

\* names: the bindings of a scope in the order the clone walks them.
CloneEnv(e, depth, order, s) ==
  CASE e = 0 -> Got(0, s)
    [] e \in DOMAIN s.envs -> Got(s.envs[e], s)
    [] OTHER -> Visit(depth, s, LAMBDA s1 :
         Then(CloneEnv(s.mem.envs[e].parent, depth + 1, order, NewEnv(e, Env(0, <<>>), s1)),
              LAMBDA p, s2 :
                CloneVars(e, SelectSeq(order, LAMBDA x : x \in DOMAIN s.mem.envs[e].vars),
                          depth, order, [s2 EXCEPT !.mem.envs[s2.envs[e]].parent = p])))

CloneVars(e, names, depth, order, s) ==
  IF names = <<>> THEN Got(s.envs[e], s)
  ELSE LET x == Head(names)
           bound == s.mem.envs[e].vars[x]
       IN  Then(CloneValue(bound.v, depth + 1, order, s), LAMBDA v, s1 :
             CloneVars(e, Tail(names), depth, order,
               [s1 EXCEPT !.mem.envs[s1.envs[e]].vars = @ @@ (x :> Binding(v, bound.frozen))]))

\* Slip: the copy of a function keeps the scope of the original.
CloneFunction_SharedScope(i, depth, order, s) ==
  LET f == s.mem.objs[i]
  IN  CASE Stateless(f) -> Got(Obj(i), s)
        [] ~ Stateless(f) /\ i \in DOMAIN s.objs -> Got(Obj(s.objs[i]), s)
        [] OTHER -> Visit(depth, s, LAMBDA s1 :
             LET s2 == NewObj(i, f, s1) IN Got(Obj(s2.objs[i]), s2))
CloneFunction(i, depth, order, s) ==
  LET f == s.mem.objs[i]
  IN  CASE Stateless(f) -> Got(Obj(i), s)
        [] ~ Stateless(f) /\ i \in DOMAIN s.objs -> Got(Obj(s.objs[i]), s)
        [] OTHER -> Visit(depth, s, LAMBDA s1 :
             Then(CloneEnv(f.env, depth + 1, order, NewObj(i, Function(0, f.builtin), s1)),
                  LAMBDA env, s2 :
                    Got(Obj(s2.objs[i]), [s2 EXCEPT !.mem.objs[s2.objs[i]].env = env])))

CloneElems(i, elems, depth, order, s) ==
  IF elems = <<>> THEN Got(Obj(s.objs[i]), s)
  ELSE Then(CloneValue(Head(elems), depth + 1, order, s), LAMBDA v, s1 :
         CloneElems(i, Tail(elems), depth, order,
           [s1 EXCEPT !.mem.objs[s1.objs[i]].elems = Append(@, v)]))

\* The frozen bit comes back once the elements are in place.
CloneContainer(i, depth, order, s) ==
  LET box == s.mem.objs[i]
  IN  Visit(depth, s, LAMBDA s1 :
        Then(CloneElems(i, box.elems, depth, order, NewObj(i, Container(<<>>, FALSE), s1)),
             LAMBDA v, s2 :
               Got(v, IF box.frozen THEN [s2 EXCEPT !.mem = Freeze(v, @)] ELSE s2)))

CloneValue(v, depth, order, s) ==
  IF ~ IsObj(v) THEN Visit(depth, s, LAMBDA s1 : Got(v, s1))
  ELSE LET i == v[2]
           kind == s.mem.objs[i].kind
       IN  CASE i \in DOMAIN s.objs -> Got(Obj(s.objs[i]), s)
             [] i \notin DOMAIN s.objs /\ kind = "fn" -> CloneFunction(i, depth, order, s)
             [] i \notin DOMAIN s.objs /\ kind = "container" -> CloneContainer(i, depth, order, s)
             [] OTHER -> Visit(depth, s, LAMBDA s1 :
                  Got(v, [s1 EXCEPT !.objs = @ @@ (i :> i)]))

\* The function first, then each argument, all in one snapshot.
RECURSIVE CloneRoots(_, _, _)
CloneRoots(vs, order, s) ==
  IF vs = <<>> THEN Got(<<>>, s)
  ELSE Then(CloneValue(Head(vs), 0, order, s), LAMBDA v, s1 :
         Then(CloneRoots(Tail(vs), order, s1), LAMBDA rest, s2 : Got(<<v>> \o rest, s2)))

-----------------------------------------------------------------------------
(* The state machine: one spawn.                                             *)

VARIABLES memory,            \* the heap before the spawn
          given,             \* the function and its arguments, references into it
          snapshot           \* the heap after it and the copies of given

snapshotVars == <<memory, given, snapshot>>

NotYet == [state |-> "none"]
Refused == [state |-> "refused"]
Copied(r) == [state |-> "copied", values |-> r.v, mem |-> r.s.mem]

SnapshotInit == memory \in Memories /\ given \in Roots /\ snapshot = NotYet

Bindings == UNION {DOMAIN memory.envs[e].vars : e \in DOMAIN memory.envs}

\* The host's maps are walked in any order.
Spawn ==
  /\ snapshot = NotYet
  /\ \E order \in SetToSeqs(Bindings) :
       LET r == CloneRoots(given, order, NewSnapshot(memory))
       IN  snapshot' = IF r.ok THEN Copied(r) ELSE Refused
  /\ UNCHANGED <<memory, given>>

SnapshotNext == Spawn
SnapshotSpec == SnapshotInit /\ [][SnapshotNext]_snapshotVars

-----------------------------------------------------------------------------
(* Properties.                                                               *)

\* A place: <<kind, original, copy>> met together on the way from the roots.
At(v, w) == IF IsObj(v) /\ IsObj(w) THEN {<<"obj", v[2], w[2]>>} ELSE {}
Scopes(e, f) == IF e # 0 /\ f # 0 THEN {<<"env", e, f>>} ELSE {}

Beyond(p, from, to) ==
  IF p[1] = "env"
  THEN LET e == from.envs[p[2]]
           f == to.envs[p[3]]
       IN  Scopes(e.parent, f.parent)
           \cup UNION {At(e.vars[x].v, f.vars[x].v) : x \in DOMAIN e.vars \cap DOMAIN f.vars}
  ELSE LET o == from.objs[p[2]]
           w == to.objs[p[3]]
       IN  CASE o.kind = "fn" /\ w.kind = "fn" -> Scopes(o.env, w.env)
             [] o.kind = "container" /\ w.kind = "container" ->
                  UNION {At(o.elems[i], w.elems[i]) : i \in DOMAIN o.elems \cap DOMAIN w.elems}
             [] OTHER -> {}

RECURSIVE Within(_, _, _, _)
Within(n, ps, from, to) ==
  IF n = 0 THEN ps
  ELSE Within(n - 1, ps \cup UNION {Beyond(p, from, to) : p \in ps}, from, to)

Pairs(vs, ws) == UNION {At(vs[i], ws[i]) : i \in DOMAIN vs}
Everything(mem) == Len(mem.envs) + Len(mem.objs)
Places(vs, ws, from, to) == Within(Everything(from), Pairs(vs, ws), from, to)

Alike(v, w) == IsObj(v) = IsObj(w)
SameScope(e, f) ==
  /\ (e.parent = 0) = (f.parent = 0)
  /\ DOMAIN e.vars = DOMAIN f.vars
  /\ \A x \in DOMAIN e.vars :
       e.vars[x].frozen = f.vars[x].frozen /\ Alike(e.vars[x].v, f.vars[x].v)
SameObject(o, c) ==
  /\ o.kind = c.kind
  /\ o.kind = "fn" => o.builtin = c.builtin /\ (o.env = 0) = (c.env = 0)
  /\ o.kind = "container" =>
       /\ o.frozen = c.frozen /\ Len(o.elems) = Len(c.elems)
       /\ \A i \in DOMAIN o.elems : Alike(o.elems[i], c.elems[i])

\* What a strand may share with its parent: handles and stateless builtins.
Shareable(p, mem) ==
  p[1] = "obj" /\ (mem.objs[p[2]].kind = "handle" \/ Stateless(mem.objs[p[2]]))
Fresh(p, mem) == p[3] > (IF p[1] = "env" THEN Len(mem.envs) ELSE Len(mem.objs))

Untouched(mem, after) ==
  /\ SubSeq(after.envs, 1, Len(mem.envs)) = mem.envs
  /\ SubSeq(after.objs, 1, Len(mem.objs)) = mem.objs

IsCopy(vs, ws, mem, after) ==
  LET ps == Places(vs, ws, mem, after)
  IN  /\ Len(ws) = Len(vs) /\ \A i \in DOMAIN vs : Alike(vs[i], ws[i])
      /\ \A p \in ps : IF Shareable(p, mem) THEN p[2] = p[3] ELSE Fresh(p, mem)
      /\ \A p, q \in ps : p[1] = q[1] => ((p[2] = q[2]) <=> (p[3] = q[3]))
      /\ \A p \in ps : IF p[1] = "env" THEN SameScope(mem.envs[p[2]], after.envs[p[3]])
                       ELSE SameObject(mem.objs[p[2]], after.objs[p[3]])

\* The nodes of a graph, each once, and every scalar where it stands.
Scalars(vs) == Cardinality({i \in DOMAIN vs : ~ IsObj(vs[i])})
Weight(vs, mem) ==
  LET ps == Places(vs, vs, mem, mem)
      scalars(p) ==
        IF p[1] = "env" THEN Cardinality({x \in DOMAIN mem.envs[p[2]].vars :
                                            ~ IsObj(mem.envs[p[2]].vars[x].v)})
        ELSE IF mem.objs[p[2]].kind = "container" THEN Scalars(mem.objs[p[2]].elems) ELSE 0
      counted == {p \in ps : p[1] = "env" \/ ~ Stateless(mem.objs[p[2]])}
  IN  FoldLeft(LAMBDA n, p : n + 1 + scalars(p), Scalars(vs), SetToSeq(counted))

\* Some walk that never comes back to a place goes deeper than the limit.
RECURSIVE Deep(_, _, _)
Deep(p, seen, mem) ==
  \/ Cardinality(seen) > MaxDepth
  \/ \E q \in Beyond(p, mem, mem) \ seen : Deep(q, seen \cup {q}, mem)
TooDeep(vs, mem) == \E p \in Pairs(vs, vs) : Deep(p, {p}, mem)

\* A started strand works on its own copy of all it can reach, shaped exactly
\* like the original: aliases and cycles, between the function and its
\* arguments too, stay, frozen is what was frozen, only handles and stateless
\* builtins are shared and the original is untouched ("can therefore mutate
\* captured arrays/maps ... without touching the caller"); a spawn is refused
\* only for a graph that is too large or too deep, and always when too large.
SnapshotFaithful ==
  CASE snapshot.state = "none" -> TRUE
    [] snapshot.state = "copied" ->
         /\ Untouched(memory, snapshot.mem)
         /\ IsCopy(given, snapshot.values, memory, snapshot.mem)
         /\ Weight(given, memory) <= MaxNodes
    [] snapshot.state = "refused" -> Weight(given, memory) > MaxNodes \/ TooDeep(given, memory)
=============================================================================
