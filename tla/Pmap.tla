-------------------------------- MODULE Pmap --------------------------------
(***************************************************************************)
(* pmap (hofPmapContext of src/internal/eval/hof.go): calls that borrow    *)
(* workers from one budget of the process, the workers that share out the  *)
(* items of a call, and their place in the scheduler's count of runnable   *)
(* strands.                                                                *)
(*                                                                         *)
(* What a callback does with an item is an input: it succeeds, answers an  *)
(* Err value (a panic and an element that cannot be copied end as one),    *)
(* aborts, or calls pmap itself.                                           *)
(***************************************************************************)
EXTENDS Naturals, Sequences, FiniteSets

CONSTANTS
  Calls,      (* calls of pmap                                             *)
  Behaviours, (* functions from calls to what happens to their items       *)
  Budget,     (* the worker budget, pmapProcessLimit                       *)
  Pending     (* the answer of a call that has not returned                *)

ASSUME PmapAssumption ==
  /\ Budget \in Nat \ {0} /\ IsFiniteSet(Calls)
  /\ Calls \cap {"ok", "err", "abort"} = {}
  /\ Behaviours \subseteq [Calls -> Seq(Calls \cup {"ok", "err", "abort"})]
  (* A call is one activation of hofPmapContext: one callback makes it, on    *)
  (* one item.                                                                *)
  /\ \A f \in Behaviours : \A c, d \in Calls : \A i \in DOMAIN f[c], j \in DOMAIN f[d] :
       f[c][i] \in Calls /\ f[c][i] = f[d][j] => c = d /\ i = j
  /\ Pending \notin {"ok", "err", "abort"} \X (Nat \cup Seq(Nat))

VARIABLES
  what,       (* what[c]: what the callback does with each item of c       *)
  slots,      (* slots of the budget in use                                *)
  step,       (* step[c]: where the call is                                *)
  got,        (* got[c]: the slots it holds                                *)
  jobs,       (* jobs[c]: items not handed out; of a sequential call, left *)
  worker,     (* worker[c][w]: "none", "idle", "busy", "exited", "done"    *)
  item,       (* item[c][w]: the item a busy worker has                    *)
  cancelled,  (* cancelled[c]: a failure was recorded                      *)
  firstErr,   (* firstErr[c]: the first item that aborted, 0 for none      *)
  errVal,     (* errVal[c]: the first one that answered an Err             *)
  out,        (* out[c][i]: the item whose result is there, 0 for none     *)
  lease,      (* calls whose caller is suspended                           *)
  runnable,   (* the scheduler's count                                     *)
  gone,       (* calls of the program whose strand has ended               *)
  result,     (* result[c]: the answer of c                                *)
  ran         (* history: ran[c], the items applied, in order              *)

pool == <<slots, step, got>>
work == <<jobs, worker, item, cancelled, firstErr, errVal, out, ran>>
count == <<lease, runnable>>
pmapVars == <<what, pool, work, count, gone, result>>

-----------------------------------------------------------------------------
Items(c) == DOMAIN what[c]
Workers == 1..Budget

(* Calls a callback makes; a strand of the program makes each other one. *)
Nested(c) == \E d \in Calls : \E i \in Items(d) : what[d][i] = c
TopCalls == {c \in Calls : ~Nested(c)}

PmapInit ==
  /\ what \in Behaviours
  /\ slots = 0
  /\ step = [c \in Calls |-> "new"]
  /\ got = [c \in Calls |-> 0]
  /\ jobs = [c \in Calls |-> <<>>]
  /\ worker = [c \in Calls |-> [w \in Workers |-> "none"]]
  /\ item = [c \in Calls |-> [w \in Workers |-> 0]]
  /\ cancelled = [c \in Calls |-> FALSE]
  /\ firstErr = [c \in Calls |-> 0]
  /\ errVal = [c \in Calls |-> 0]
  /\ out = [c \in Calls |-> [i \in Items(c) |-> 0]]
  /\ lease = {}
  /\ runnable = Cardinality(TopCalls)
  /\ gone = {}
  /\ result = [c \in Calls |-> Pending]
  /\ ran = [c \in Calls |-> <<>>]

(* The outcome of an item, once the call its callback makes has one. *)
Outcome(c, i) == IF what[c][i] \in Calls THEN result[what[c][i]][1] ELSE what[c][i]
Ready(c, i) == what[c][i] \in Calls => result[what[c][i]] # Pending

(* Item i of c is being applied, by a worker or by the caller itself. *)
Applying(c, i) ==
  \/ \E w \in Workers : worker[c][w] = "busy" /\ item[c][w] = i
  \/ step[c] = "sequential" /\ jobs[c] # <<>> /\ ~cancelled[c] /\ Head(jobs[c]) = i

(* A callback has the value of item i, or has failed on it. *)
Applied(c, i) ==
  /\ Ready(c, i)
  /\ ran' = [ran EXCEPT ![c] = Append(@, i)]

-----------------------------------------------------------------------------
(* The caller.                                                             *)

Called(c) == Nested(c) => \E d \in Calls : \E i \in Items(d) : what[d][i] = c /\ Applying(d, i)

Begin(c) ==
  /\ step[c] = "new" /\ Called(c)
  /\ IF Items(c) = {}
       THEN step' = [step EXCEPT ![c] = "ended"] /\ result' = [result EXCEPT ![c] = <<"ok", <<>> >>]
       ELSE step' = [step EXCEPT ![c] = "acquiring"] /\ UNCHANGED result
  /\ UNCHANGED <<what, slots, got, work, count, gone>>

Wanted(c) == IF Budget > Len(what[c]) THEN Len(what[c]) ELSE Budget

(* acquirePmapWorkers takes one slot after the other, and never waits. *)
Acquire(c) ==
  /\ step[c] = "acquiring" /\ got[c] < Wanted(c) /\ slots < Budget
  /\ slots' = slots + 1
  /\ got' = [got EXCEPT ![c] = @ + 1]
  /\ UNCHANGED <<what, step, work, count, gone, result>>

(* A slip: a call waits until there is a slot. *)
Saturated_Waits(c) == FALSE

(* No slot is free: the items are applied here, without a worker. *)
Saturated(c) == got[c] = 0 /\ slots = Budget

RunHere(c) ==
  /\ step[c] = "acquiring" /\ Saturated(c)
  /\ step' = [step EXCEPT ![c] = "sequential"]
  /\ jobs' = [jobs EXCEPT ![c] = [i \in Items(c) |-> i]]
  /\ UNCHANGED <<what, slots, got, worker, item, cancelled, firstErr, errVal, out, ran, count, gone, result>>

Acquired(c) == got[c] > 0 /\ (got[c] = Wanted(c) \/ slots = Budget)

(* The workers are counted, then the caller is not. *)
Launch(c) ==
  /\ step[c] = "acquiring" /\ Acquired(c)
  /\ step' = [step EXCEPT ![c] = "parallel"]
  /\ jobs' = [jobs EXCEPT ![c] = [i \in Items(c) |-> i]]
  /\ worker' = [worker EXCEPT ![c] = [w \in Workers |-> IF w <= got[c] THEN "idle" ELSE "none"]]
  /\ runnable' = runnable + got[c] - 1
  /\ lease' = lease \cup {c}
  /\ UNCHANGED <<what, slots, got, item, cancelled, firstErr, errVal, out, ran, gone, result>>

(* The call returns r; the slots it holds go back (a deferred release). *)
Answer(c, r) ==
  /\ step' = [step EXCEPT ![c] = "ended"]
  /\ result' = [result EXCEPT ![c] = r]
  /\ slots' = slots - got[c]
  /\ got' = [got EXCEPT ![c] = 0]

(* A slip: an early return forgets the slots. *)
SnapshotFails_Kept(c) ==
  /\ step[c] = "acquiring" /\ (Acquired(c) \/ Saturated(c))
  /\ step' = [step EXCEPT ![c] = "ended"]
  /\ result' = [result EXCEPT ![c] = <<"err", 0>>]
  /\ UNCHANGED <<what, slots, got, work, count, gone>>

(* The callback's captures exceed a limit of the snapshot: status 137. *)
SnapshotFails(c) ==
  /\ step[c] = "acquiring" /\ (Acquired(c) \/ Saturated(c))
  /\ Answer(c, <<"err", 0>>)
  /\ UNCHANGED <<what, work, count, gone>>

Verdict(c) ==
  IF firstErr[c] # 0 THEN <<"abort", firstErr[c]>>
  ELSE IF errVal[c] # 0 THEN <<"err", errVal[c]>>
  ELSE <<"ok", out[c]>>

(* wg.Wait: every worker is done.  The lease was consumed by the last one. *)
Collect(c) ==
  /\ step[c] = "parallel" /\ \A w \in Workers : worker[c][w] \in {"none", "done"}
  /\ Answer(c, Verdict(c))
  /\ lease' = lease \ {c}
  /\ runnable' = IF c \in lease THEN runnable + 1 ELSE runnable
  /\ UNCHANGED <<what, work, gone>>

(* What becomes of item i. *)
Record(c, i, how) ==
  /\ cancelled' = IF how = "ok" THEN cancelled ELSE [cancelled EXCEPT ![c] = TRUE]
  /\ firstErr' = IF how = "abort" /\ firstErr[c] = 0 THEN [firstErr EXCEPT ![c] = i] ELSE firstErr
  /\ errVal' = IF how = "err" /\ errVal[c] = 0 THEN [errVal EXCEPT ![c] = i] ELSE errVal
  /\ out' = IF how = "ok" THEN [out EXCEPT ![c][i] = i] ELSE out

(* One item of a sequential call; the first failure ends it. *)
ApplyHere(c) ==
  /\ step[c] = "sequential" /\ jobs[c] # <<>> /\ ~cancelled[c]
  /\ Applied(c, Head(jobs[c]))
  /\ Record(c, Head(jobs[c]), Outcome(c, Head(jobs[c])))
  /\ jobs' = [jobs EXCEPT ![c] = Tail(@)]
  /\ UNCHANGED <<what, pool, worker, item, count, gone, result>>

CollectHere(c) ==
  /\ step[c] = "sequential" /\ (jobs[c] = <<>> \/ cancelled[c])
  /\ Answer(c, Verdict(c))
  /\ UNCHANGED <<what, work, count, gone>>

(* The strand of a call the program makes ends after it. *)
Leave(c) ==
  /\ c \in TopCalls \ gone /\ step[c] = "ended"
  /\ gone' = gone \cup {c}
  /\ runnable' = runnable - 1
  /\ UNCHANGED <<what, pool, work, lease, result>>

-----------------------------------------------------------------------------
(* The workers.                                                            *)

(* A slip: a failure stops nobody from starting on another item. *)
Take_Uncancelled(c, w) ==
  /\ worker[c][w] = "idle" /\ jobs[c] # <<>>
  /\ jobs' = [jobs EXCEPT ![c] = Tail(@)]
  /\ worker' = [worker EXCEPT ![c][w] = "busy"] /\ item' = [item EXCEPT ![c][w] = Head(jobs[c])]
  /\ UNCHANGED <<what, pool, cancelled, firstErr, errVal, out, ran, count, gone, result>>

(* The next item; once a failure is recorded it is dropped. *)
Take(c, w) ==
  /\ worker[c][w] = "idle" /\ jobs[c] # <<>>
  /\ jobs' = [jobs EXCEPT ![c] = Tail(@)]
  /\ IF cancelled[c]
       THEN UNCHANGED <<worker, item>>
       ELSE worker' = [worker EXCEPT ![c][w] = "busy"] /\ item' = [item EXCEPT ![c][w] = Head(jobs[c])]
  /\ UNCHANGED <<what, pool, cancelled, firstErr, errVal, out, ran, count, gone, result>>

Apply(c, w) ==
  /\ worker[c][w] = "busy"
  /\ Applied(c, item[c][w])
  /\ Record(c, item[c][w], Outcome(c, item[c][w]))
  /\ worker' = [worker EXCEPT ![c][w] = "idle"] /\ item' = [item EXCEPT ![c][w] = 0]
  /\ UNCHANGED <<what, pool, jobs, count, gone, result>>

Live(c, w) == worker[c][w] \in {"idle", "busy"}

(* A slip: the last worker leaves, and the caller resumes when it wakes. *)
Exit_ThenResume(c, w) ==
  /\ worker[c][w] = "idle" /\ jobs[c] = <<>>
  /\ worker' = [worker EXCEPT ![c][w] = "exited"]
  /\ runnable' = runnable - 1
  /\ UNCHANGED <<what, pool, jobs, item, cancelled, firstErr, errVal, out, ran, lease, gone, result>>

(* exitRunnable; the last one trades its slot for the caller's. *)
Exit(c, w) ==
  /\ worker[c][w] = "idle" /\ jobs[c] = <<>>
  /\ worker' = [worker EXCEPT ![c][w] = "exited"]
  /\ IF \A v \in Workers : Live(c, v) => v = w
       THEN lease' = lease \ {c} /\ UNCHANGED runnable
       ELSE runnable' = runnable - 1 /\ UNCHANGED lease
  /\ UNCHANGED <<what, pool, jobs, item, cancelled, firstErr, errVal, out, ran, gone, result>>

Done(c, w) ==
  /\ worker[c][w] = "exited"
  /\ worker' = [worker EXCEPT ![c][w] = "done"]
  /\ UNCHANGED <<what, pool, jobs, item, cancelled, firstErr, errVal, out, ran, count, gone, result>>

-----------------------------------------------------------------------------
Caller(c) ==
  \/ Begin(c) \/ Acquire(c) \/ RunHere(c) \/ Launch(c) \/ SnapshotFails(c)
  \/ Collect(c) \/ ApplyHere(c) \/ CollectHere(c) \/ Leave(c)

Worker(c, w) == Take(c, w) \/ Apply(c, w) \/ Exit(c, w) \/ Done(c, w)

PmapNext == \E c \in Calls : Caller(c) \/ \E w \in Workers : Worker(c, w)

PmapSpec == PmapInit /\ [][PmapNext]_pmapVars

(* Goroutines run, and callbacks end. *)
PmapFairness ==
  \A c \in Calls : WF_pmapVars(Caller(c)) /\ \A w \in Workers : WF_pmapVars(Worker(c, w))

-----------------------------------------------------------------------------
(* Properties.                                                             *)

(* "Like map, it is fail-loud", "in INPUT order", and a Go error "must     *)
(* never be downgraded" (hof.go, hofPmap): whatever the interleaving of    *)
(* workers and however few of them there are, each call answers what the   *)
(* abstract map allows, from callbacks applied once per item, and a        *)
(* failure stops all but the callbacks that are under way.                 *)
Map == INSTANCE AbsMap
ImplementsMap == Map!Spec

(* Nested and concurrent calls never wait for each other's slots: every    *)
(* call returns ("without a nested semaphore deadlock", hof.go).           *)
PmapEnds == \A c \in Calls : []<>(step[c] \in {"new", "ended"})

(* The count of runnable strands is zero only when everything is over, so  *)
(* that the scheduler never takes a pmap between two of its steps for a    *)
(* deadlock ("preventing a transient zero-runnable state").                *)
NeverIdle ==
  runnable = 0 => gone = TopCalls /\ \A c \in Calls, w \in Workers : ~Live(c, w)

(* The slots in use are those of calls in progress, at most the budget:    *)
(* no way out of a call keeps one for ever.                                *)
SlotsHeld ==
  /\ slots <= Budget
  /\ (\A c \in Calls : step[c] \in {"new", "ended"}) => slots = 0
=============================================================================
