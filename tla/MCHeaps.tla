-------------------------------- MODULE MCHeaps --------------------------------
(* The memories TLC snapshots: a function that closes over a scope nested in *)
(* another, and two more objects of every kind, referring to each other and  *)
(* back, built as Snapshot represents them.                                  *)
EXTENDS Naturals, Sequences

NoRef == <<"scalar">>
RefTo(i) == <<"obj", i>>
Bindable == {NoRef, RefTo(1), RefTo(2), RefTo(3)}
ElemLists ==
  {<<>>} \cup {<<v>> : v \in Bindable}
  \cup {<<NoRef, RefTo(3)>>, <<RefTo(3), RefTo(2)>>, <<RefTo(2), RefTo(2)>>}

FnObj(env, builtin) == [kind |-> "fn", env |-> env, builtin |-> builtin]
ObjectsOf ==
  {FnObj(0, TRUE), FnObj(1, TRUE), FnObj(2, FALSE), [kind |-> "handle"]}
  \cup [kind : {"container"}, elems : ElemLists, frozen : BOOLEAN]

(* $a of the outer scope, $a and the constant $b of the inner one. *)
Bind1(v, const) == [v |-> v, frozen |-> const]
Heap(va, wa, wb, o2, o3) ==
  [envs |-> << [parent |-> 0, vars |-> [a |-> Bind1(va, FALSE)]],
               [parent |-> 1, vars |-> [a |-> Bind1(wa, FALSE), b |-> Bind1(wb, TRUE)]] >>,
   objs |-> <<FnObj(2, FALSE), o2, o3>>]

(* A constant is frozen, and so is every container a frozen one holds. *)
HoldsFrozen(v, h) ==
  v # NoRef /\ h.objs[v[2]].kind = "container" => h.objs[v[2]].frozen
FrozenDeep(h) ==
  /\ HoldsFrozen(h.envs[2].vars.b.v, h)
  /\ \A i \in {2, 3} :
       h.objs[i].kind = "container" /\ h.objs[i].frozen =>
         \A j \in DOMAIN h.objs[i].elems : HoldsFrozen(h.objs[i].elems[j], h)

Heaps == {h \in {Heap(va, wa, wb, o2, o3) :
                   va \in {NoRef, RefTo(2)}, wa \in Bindable, wb \in {NoRef, RefTo(1), RefTo(3)},
                   o2, o3 \in ObjectsOf} :
            FrozenDeep(h)}

EmptyHeap == Heap(NoRef, NoRef, NoRef, [kind |-> "handle"], [kind |-> "handle"])

(* The function alone, or with the other objects and a scalar as arguments. *)
Spawned == {<<RefTo(1)>>, <<RefTo(1), RefTo(2), NoRef, RefTo(3)>>}
=============================================================================
