------------------------------ MODULE PmapProofs ------------------------------
(* Proofs about Pmap, for any calls, nested in any way, any items and any     *)
(* budget: its invariants, that it implements AbsMap, and that calls are never *)
(* stuck and have finitely many steps.                                        *)
EXTENDS Pmap, Integers, FiniteSetTheorems, FunctionTheorems, TLAPS

Ways == {"ok", "err", "abort"}
Active(c) == step[c] \in {"acquiring", "sequential", "parallel"}
Working(c) == step[c] \in {"sequential", "parallel"}
Given(c) == Len(what[c]) - Len(jobs[c])      \* items 1..Given(c) were handed out
Tried(c) == {ran[c][k] : k \in DOMAIN ran[c]}  \* items the callback was applied to

Types ==
  /\ what \in [Calls -> Seq(Calls \cup Ways)]
  /\ slots \in Int
  /\ step \in [Calls -> {"new", "acquiring", "sequential", "parallel", "ended"}]
  /\ got \in [Calls -> 0..Budget]
  /\ jobs \in [Calls -> Seq(Nat)]
  /\ worker \in [Calls -> [Workers -> {"none", "idle", "busy", "exited", "done"}]]
  /\ item \in [Calls -> [Workers -> Nat]]
  /\ cancelled \in [Calls -> BOOLEAN]
  /\ firstErr \in [Calls -> Nat] /\ errVal \in [Calls -> Nat]
  /\ DOMAIN out = Calls /\ \A c \in Calls : out[c] \in [Items(c) -> Nat]
  /\ lease \subseteq Calls /\ gone \subseteq TopCalls
  /\ result \in [Calls -> {Pending} \cup (Ways \X (Nat \cup Seq(Nat)))]
  /\ ran \in [Calls -> Seq(Nat)]

\* What a call has at each step.
StepOf(c) ==
  /\ step[c] \in {"new", "ended"} => got[c] = 0
  /\ step[c] \in {"new", "acquiring"} =>
       /\ jobs[c] = <<>> /\ ran[c] = <<>> /\ ~cancelled[c] /\ firstErr[c] = 0 /\ errVal[c] = 0
  /\ step[c] # "ended" => result[c] = Pending
  /\ c \in gone => step[c] = "ended"
  /\ \A w \in Workers :
       /\ step[c] \in {"new", "acquiring", "sequential"} => worker[c][w] = "none"
       /\ step[c] = "ended" => worker[c][w] \in {"none", "done"}
       /\ worker[c][w] \in {"exited", "done"} => jobs[c] = <<>>
  /\ step[c] = "parallel" => \E w \in Workers : worker[c][w] # "none"

Steps == \A c \in Calls : StepOf(c)

\* The slots in use are those the calls hold.
Held == {p \in Calls \X Workers : p[2] <= got[p[1]]}
SlotsAreHeld == slots = Cardinality(Held) /\ slots <= Budget

\* A caller is suspended while a worker of its call is live.
Leases == \A c \in Calls : c \in lease <=> \E w \in Workers : Live(c, w)

\* The count: strands of the program and live workers, but for the suspended.
LiveWorkers == {p \in Calls \X Workers : Live(p[1], p[2])}
Counted == runnable = Cardinality(TopCalls \ gone) + Cardinality(LiveWorkers) - Cardinality(lease)

\* Calls under way were begun from outside: of any of them, one is a call of the
\* program or made by a callback of a call that is none of these.
Rooted ==
  \A S \in SUBSET Calls :
    S # {} /\ (\A c \in S : Active(c)) =>
      \E c \in S : \/ c \in TopCalls
                   \/ \E d \in Calls \ S : \E i \in Items(d) : what[d][i] = c /\ Applying(d, i)

\* Every item handed out is applied once, or is under way, or was dropped after
\* a failure.
HandedOf(c) ==
  Working(c) =>
    /\ Len(jobs[c]) <= Len(what[c])
    /\ \A j \in 1..Len(jobs[c]) : jobs[c][j] = Given(c) + j
    /\ \A w \in Workers : worker[c][w] = "busy" =>
         /\ item[c][w] \in 1..Given(c) /\ item[c][w] \notin Tried(c)
         /\ \A v \in Workers : worker[c][v] = "busy" /\ item[c][v] = item[c][w] => v = w
    /\ Tried(c) \subseteq 1..Given(c)
    /\ ~cancelled[c] => \A i \in 1..Given(c) :
                          i \in Tried(c) \/ \E w \in Workers : worker[c][w] = "busy" /\ item[c][w] = i

Handed == \A c \in Calls : HandedOf(c)

\* What is recorded is what the callbacks came to.
RecordedOf(c) ==
  /\ \A i \in Tried(c) :
       /\ i \in Items(c) /\ Ready(c, i)
       /\ Outcome(c, i) = "ok" => out[c][i] = i
       /\ Outcome(c, i) = "abort" => firstErr[c] # 0
       /\ Outcome(c, i) = "err" => errVal[c] # 0
       /\ Outcome(c, i) # "ok" => cancelled[c]
  /\ firstErr[c] # 0 => firstErr[c] \in Tried(c) /\ Outcome(c, firstErr[c]) = "abort"
  /\ errVal[c] # 0 => errVal[c] \in Tried(c) /\ Outcome(c, errVal[c]) = "err"
  /\ cancelled[c] => firstErr[c] # 0 \/ errVal[c] # 0

Recorded == \A c \in Calls : RecordedOf(c)

\* After a failure, only what the other workers had under way is applied.
Busy(c) == {w \in Workers : worker[c][w] = "busy"}
BoundedOf(c) ==
  \A k \in 1..Len(ran[c]) :
    Outcome(c, ran[c][k]) # "ok" => Len(ran[c]) - k + Cardinality(Busy(c)) < Budget

Bounded == \A c \in Calls : BoundedOf(c)

Base == Types /\ Steps

-----------------------------------------------------------------------------
(* Types and steps.                                                           *)

LEMMA ItemsOf ==
  ASSUME Types, NEW c \in Calls
  PROVE  /\ Len(what[c]) \in Nat /\ Items(c) = 1..Len(what[c])
         /\ \A i \in Items(c) : what[c][i] \in Calls \cup Ways
  BY DEF Types, Items

LEMMA SameProgram ==
  ASSUME UNCHANGED what
  PROVE  TopCalls' = TopCalls /\ \A c \in Calls : Items(c)' = Items(c)
  BY DEF TopCalls, Nested, Items

\* What the program is does not change, nor the types of what stays.
LEMMA KeptTypes ==
  ASSUME Types, UNCHANGED <<what, out>>
  PROVE  /\ what' \in [Calls -> Seq(Calls \cup Ways)]
         /\ DOMAIN out' = Calls /\ \A d \in Calls : out'[d] \in [Items(d)' -> Nat]
  BY SameProgram DEF Types

LEMMA BaseStart == PmapInit => Base
<1> SUFFICES ASSUME PmapInit PROVE Base
  OBVIOUS
<1>1. what \in [Calls -> Seq(Calls \cup Ways)]
  BY PmapAssumption DEF PmapInit, Ways
<1>2. Types
  BY <1>1, PmapAssumption DEF PmapInit, Types, Items
<1>3. Steps
  BY DEF PmapInit, Steps, StepOf
<1> QED
  BY <1>2, <1>3 DEF Base

\* The outcome of an item whose callback has a value is one of three.
LEMMA OutcomeOf ==
  ASSUME Types, NEW c \in Calls, NEW i \in Items(c), Ready(c, i)
  PROVE  Outcome(c, i) \in Ways
<1>1. what[c][i] \in Calls \cup Ways
  BY ItemsOf
<1> QED
  BY <1>1 DEF Types, Ready, Outcome, Ways

LEMMA CallerBase ==
  ASSUME Base, NEW c \in Calls,
         Begin(c) \/ Acquire(c) \/ Leave(c) \/ RunHere(c) \/ Launch(c)
  PROVE  Base'
<1>1. Items(c) = 1..Len(what[c]) /\ Len(what[c]) \in Nat
  BY ItemsOf DEF Base
<1>0. UNCHANGED what /\ TopCalls' = TopCalls /\ \A d \in Calls : Items(d)' = Items(d)
  BY SameProgram DEF Begin, Acquire, Leave, RunHere, Launch
<1>7. /\ what' \in [Calls -> Seq(Calls \cup Ways)]
      /\ DOMAIN out' = Calls /\ \A d \in Calls : out'[d] \in [Items(d)' -> Nat]
  BY KeptTypes DEF Base, Begin, Acquire, Leave, RunHere, Launch, work
<1>2. CASE Begin(c)
  <2>1. Types'
    <3>1. <<"ok", <<>> >> \in Ways \X (Nat \cup Seq(Nat))
      <4>1. <<>> \in Seq(Nat)
        OBVIOUS
      <4> QED
        BY <4>1 DEF Ways
    <3>2. result' \in [Calls -> {Pending} \cup (Ways \X (Nat \cup Seq(Nat)))]
      <4>1. result' = [result EXCEPT ![c] = <<"ok", <<>> >>] \/ result' = result
        BY <1>2 DEF Begin
      <4>2. result \in [Calls -> {Pending} \cup (Ways \X (Nat \cup Seq(Nat)))]
        BY DEF Base, Types
      <4> QED
        BY <3>1, <4>1, <4>2
    <3>3. step' \in [Calls -> {"new", "acquiring", "sequential", "parallel", "ended"}]
      <4>1. step' = [step EXCEPT ![c] = "ended"] \/ step' = [step EXCEPT ![c] = "acquiring"]
        BY <1>2 DEF Begin
      <4>2. step \in [Calls -> {"new", "acquiring", "sequential", "parallel", "ended"}]
        BY DEF Base, Types
      <4> QED
        BY <4>1, <4>2
    <3>4. UNCHANGED <<slots, got, jobs, worker, item, cancelled, firstErr, errVal, out, ran, lease, gone>>
      BY <1>2 DEF Begin, work, count
    <3> QED
      BY <1>0, <1>7, <3>2, <3>3, <3>4 DEF Base, Types
  <2>2. Steps'
    <3>1. /\ step[c] = "new" /\ UNCHANGED <<got, jobs, worker, cancelled, firstErr, errVal, ran, gone>>
          /\ \/ step' = [step EXCEPT ![c] = "ended"] /\ result' = [result EXCEPT ![c] = <<"ok", <<>> >>]
             \/ step' = [step EXCEPT ![c] = "acquiring"] /\ result' = result
      BY <1>2 DEF Begin, work, count
    <3> QED
      BY <3>1 DEF Base, Types, Steps, StepOf
  <2> QED
    BY <2>1, <2>2 DEF Base
<1>3. CASE Acquire(c)
  <2>1. Types'
    <3>1. UNCHANGED <<step, jobs, worker, item, cancelled, firstErr, errVal, out, ran, lease, gone, result>>
      BY <1>3 DEF Acquire, work, count
    <3>2. got[c] \in Nat /\ Wanted(c) <= Budget /\ Wanted(c) \in Nat
      BY <1>1, PmapAssumption DEF Wanted, Base, Types
    <3>3. got' \in [Calls -> 0..Budget] /\ slots' \in Int
      BY <1>3, <3>2, PmapAssumption DEF Acquire, Base, Types
    <3> QED
      BY <1>0, <1>7, <3>1, <3>3 DEF Base, Types
  <2>2. Steps'
    BY <1>3 DEF Acquire, Base, Types, Steps, StepOf, work, count
  <2> QED
    BY <2>1, <2>2 DEF Base
<1>4. CASE Leave(c)
  <2>1. Types'
    BY <1>4, <1>0 DEF Leave, Base, Types, work, pool
  <2>2. Steps'
    BY <1>4 DEF Leave, Base, Types, Steps, StepOf, work, pool
  <2> QED
    BY <2>1, <2>2 DEF Base
<1>5. CASE RunHere(c)
  <2>1. [i \in Items(c) |-> i] \in Seq(Nat)
    BY <1>1
  <2>2. Types'
    BY <1>5, <2>1, <1>0 DEF RunHere, Base, Types, count
  <2>3. Steps'
    BY <1>5, SMTT(30) DEF RunHere, Base, Types, Steps, StepOf, count
  <2> QED
    BY <2>2, <2>3 DEF Base
<1>6. CASE Launch(c)
  <2>1. [i \in Items(c) |-> i] \in Seq(Nat)
    BY <1>1
  <2>2. Types'
    BY <1>6, <2>1, <1>0 DEF Launch, Base, Types
  <2>3. Steps'
    <3>1. 1 \in Workers /\ got[c] \in Nat /\ 1 <= got[c]
      BY <1>6, PmapAssumption DEF Launch, Acquired, Base, Types, Workers
    <3>2. worker'[c][1] # "none"
      BY <1>6, <3>1 DEF Launch, Base, Types
    <3> QED
      BY <1>6, <3>1, <3>2 DEF Launch, Base, Types, Steps, StepOf
  <2> QED
    BY <2>2, <2>3 DEF Base
<1> QED
  BY <1>2, <1>3, <1>4, <1>5, <1>6

\* What a call may answer.
LEMMA VerdictOf ==
  ASSUME Base, NEW c \in Calls
  PROVE  Verdict(c) \in Ways \X (Nat \cup Seq(Nat))
<1>1. out[c] \in Seq(Nat)
  <2>1. out[c] \in [1..Len(what[c]) -> Nat] /\ Len(what[c]) \in Nat
    BY ItemsOf DEF Base, Types
  <2> QED
    BY <2>1
<1>2. firstErr[c] \in Nat /\ errVal[c] \in Nat
  BY DEF Base, Types
<1> QED
  BY <1>1, <1>2 DEF Verdict, Ways

LEMMA AnswerBase ==
  ASSUME Base, NEW c \in Calls, SnapshotFails(c) \/ Collect(c) \/ CollectHere(c)
  PROVE  Base'
<1>1. PICK r \in Ways \X (Nat \cup Seq(Nat)) : Answer(c, r)
  <2>1. <<"err", 0>> \in Ways \X (Nat \cup Seq(Nat))
    BY DEF Ways
  <2> QED
    BY <2>1, VerdictOf DEF SnapshotFails, Collect, CollectHere
<1>2. /\ UNCHANGED <<what, jobs, worker, item, cancelled, firstErr, errVal, out, ran, gone>>
      /\ lease' \in SUBSET lease
      /\ \A w \in Workers : worker[c][w] \in {"none", "done"}
  BY DEF SnapshotFails, Collect, CollectHere, work, count, Base, Steps, StepOf
<1>3. Types'
  <2>0. /\ what' \in [Calls -> Seq(Calls \cup Ways)] /\ TopCalls' = TopCalls
        /\ DOMAIN out' = Calls /\ \A d \in Calls : out'[d] \in [Items(d)' -> Nat]
    BY <1>2, KeptTypes, SameProgram DEF Base
  <2>1. slots' \in Int /\ got' \in [Calls -> 0..Budget]
    BY <1>1, PmapAssumption DEF Answer, Base, Types
  <2>2. step' \in [Calls -> {"new", "acquiring", "sequential", "parallel", "ended"}]
    BY <1>1 DEF Answer, Base, Types
  <2>3. result' \in [Calls -> {Pending} \cup (Ways \X (Nat \cup Seq(Nat)))]
    <3>1. result' = [result EXCEPT ![c] = r]
      BY <1>1 DEF Answer
    <3>2. result \in [Calls -> {Pending} \cup (Ways \X (Nat \cup Seq(Nat)))]
      BY DEF Base, Types
    <3> QED
      BY <3>1, <3>2
  <2> QED
    BY <1>2, <2>0, <2>1, <2>2, <2>3 DEF Base, Types
<1>4. Steps'
  BY <1>1, <1>2, SMTT(30) DEF Answer, Base, Types, Steps, StepOf
<1> QED
  BY <1>3, <1>4 DEF Base

\* An item that is applied.
LEMMA AppliedTypes ==
  ASSUME Types, NEW c \in Calls, NEW i \in Nat, NEW how, Record(c, i, how), Applied(c, i), UNCHANGED what
  PROVE  /\ cancelled' \in [Calls -> BOOLEAN] /\ firstErr' \in [Calls -> Nat] /\ errVal' \in [Calls -> Nat]
         /\ what' \in [Calls -> Seq(Calls \cup Ways)] /\ TopCalls' = TopCalls
         /\ DOMAIN out' = Calls /\ \A d \in Calls : out'[d] \in [Items(d)' -> Nat]
         /\ ran' \in [Calls -> Seq(Nat)]
<1>1. TopCalls' = TopCalls /\ \A d \in Calls : Items(d)' = Items(d)
  BY SameProgram
<1>2. cancelled' \in [Calls -> BOOLEAN]
  <2>1. cancelled' = cancelled \/ cancelled' = [cancelled EXCEPT ![c] = TRUE]
    BY DEF Record
  <2> QED
    BY <2>1 DEF Types
<1>3. firstErr' \in [Calls -> Nat] /\ errVal' \in [Calls -> Nat]
  BY DEF Record, Types
<1>4. DOMAIN out' = Calls /\ \A d \in Calls : out'[d] \in [Items(d) -> Nat]
  BY DEF Record, Types
<1>5. ran' \in [Calls -> Seq(Nat)]
  BY DEF Applied, Types
<1> QED
  BY <1>1, <1>2, <1>3, <1>4, <1>5 DEF Types

\* What is known of one call.
LEMMA CallOf ==
  ASSUME Base, NEW c \in Calls
  PROVE  /\ StepOf(c)
         /\ step[c] \in {"new", "acquiring", "sequential", "parallel", "ended"}
         /\ got[c] \in 0..Budget /\ jobs[c] \in Seq(Nat) /\ ran[c] \in Seq(Nat)
         /\ worker[c] \in [Workers -> {"none", "idle", "busy", "exited", "done"}]
         /\ item[c] \in [Workers -> Nat]
         /\ out[c] \in [Items(c) -> Nat]
         /\ cancelled[c] \in BOOLEAN /\ firstErr[c] \in Nat /\ errVal[c] \in Nat
  BY DEF Base, Types, Steps

\* Only workers of a parallel call do anything.
LEMMA WorkersAct ==
  ASSUME Base, NEW c \in Calls, NEW w \in Workers, worker[c][w] \in {"idle", "busy", "exited"}
  PROVE  step[c] = "parallel"
  BY CallOf DEF StepOf

\* A step of one call at work is a step of no other.
LEMMA StepAlone ==
  ASSUME Base, NEW c \in Calls, Working(c), UNCHANGED <<step, got, gone, result>>,
         \A d \in Calls \ {c} :
           /\ jobs'[d] = jobs[d] /\ ran'[d] = ran[d] /\ cancelled'[d] = cancelled[d]
           /\ firstErr'[d] = firstErr[d] /\ errVal'[d] = errVal[d] /\ worker'[d] = worker[d],
         \A w \in Workers :
           /\ worker'[c][w] = "none" <=> worker[c][w] = "none"
           /\ worker'[c][w] \in {"exited", "done"} => jobs'[c] = <<>>
  PROVE  Steps'
<1> SUFFICES ASSUME NEW d \in Calls PROVE StepOf(d)'
  BY DEF Steps
<1>1. StepOf(d)
  BY CallOf
<1>2. CASE d # c
  BY <1>1, <1>2 DEF StepOf
<1>3. CASE d = c
  BY <1>1, <1>3 DEF StepOf, Working
<1> QED
  BY <1>2, <1>3

LEMMA ApplyBase ==
  ASSUME Base, NEW c \in Calls, ApplyHere(c) \/ \E w \in Workers : Apply(c, w)
  PROVE  Base'
<1>1. CASE ApplyHere(c)
  <2>1. /\ step[c] = "sequential" /\ jobs[c] \in Seq(Nat) /\ jobs[c] # <<>> /\ Head(jobs[c]) \in Nat
        /\ Record(c, Head(jobs[c]), Outcome(c, Head(jobs[c]))) /\ Applied(c, Head(jobs[c]))
        /\ UNCHANGED <<what, slots, step, got, worker, item, lease, runnable, gone, result>>
        /\ jobs' = [jobs EXCEPT ![c] = Tail(@)]
    BY <1>1, CallOf DEF ApplyHere, pool, count
  <2>2. jobs' \in [Calls -> Seq(Nat)]
    BY <2>1 DEF Base, Types
  <2>3. Types'
    BY <2>1, <2>2, AppliedTypes DEF Base, Types
  <2>4. \A d \in Calls \ {c} :
           /\ jobs'[d] = jobs[d] /\ ran'[d] = ran[d] /\ cancelled'[d] = cancelled[d]
           /\ firstErr'[d] = firstErr[d] /\ errVal'[d] = errVal[d] /\ worker'[d] = worker[d]
    BY <2>1 DEF Base, Types, Record, Applied
  <2>5. \A w \in Workers : worker'[c][w] = "none" /\ worker[c][w] = "none"
    BY <2>1, CallOf DEF StepOf
  <2>6. Steps'
    BY <2>1, <2>4, <2>5, StepAlone DEF Working
  <2> QED
    BY <2>3, <2>6 DEF Base
<1>2. ASSUME NEW w \in Workers, Apply(c, w)
      PROVE  Base'
  <2>1. /\ worker[c][w] = "busy" /\ item[c][w] \in Nat
        /\ Record(c, item[c][w], Outcome(c, item[c][w])) /\ Applied(c, item[c][w])
        /\ UNCHANGED <<what, slots, step, got, jobs, lease, runnable, gone, result>>
        /\ worker' = [worker EXCEPT ![c][w] = "idle"] /\ item' = [item EXCEPT ![c][w] = 0]
    BY <1>2, CallOf DEF Apply, pool, count
  <2>2. worker' \in [Calls -> [Workers -> {"none", "idle", "busy", "exited", "done"}]]
        /\ item' \in [Calls -> [Workers -> Nat]]
    BY <2>1 DEF Base, Types
  <2>3. Types'
    BY <2>1, <2>2, AppliedTypes DEF Base, Types
  <2>4. Working(c)
    BY <2>1, WorkersAct DEF Working
  <2>5. \A d \in Calls \ {c} :
           /\ jobs'[d] = jobs[d] /\ ran'[d] = ran[d] /\ cancelled'[d] = cancelled[d]
           /\ firstErr'[d] = firstErr[d] /\ errVal'[d] = errVal[d] /\ worker'[d] = worker[d]
    BY <2>1 DEF Base, Types, Record, Applied
  <2>6. \A v \in Workers :
           /\ worker'[c][v] = "none" <=> worker[c][v] = "none"
           /\ worker'[c][v] \in {"exited", "done"} => jobs'[c] = <<>>
    <3>1. worker'[c] = [worker[c] EXCEPT ![w] = "idle"]
      BY <2>1 DEF Base, Types
    <3> QED
      BY <2>1, <3>1, CallOf DEF StepOf
  <2>7. Steps'
    BY <2>1, <2>4, <2>5, <2>6, StepAlone
  <2> QED
    BY <2>3, <2>7 DEF Base
<1> QED
  BY <1>1, <1>2

LEMMA WorkerBase ==
  ASSUME Base, NEW c \in Calls, NEW w \in Workers, Take(c, w) \/ Exit(c, w) \/ Done(c, w)
  PROVE  Base'
<1>1. UNCHANGED <<what, slots, step, got, cancelled, firstErr, errVal, out, gone, result, ran>>
  BY DEF Take, Exit, Done, pool, count
<1>2. Working(c)
  BY WorkersAct DEF Take, Exit, Done, Working
<1>3. /\ what' \in [Calls -> Seq(Calls \cup Ways)] /\ TopCalls' = TopCalls
      /\ DOMAIN out' = Calls /\ \A d \in Calls : out'[d] \in [Items(d)' -> Nat]
  BY <1>1, KeptTypes, SameProgram DEF Base
<1>4. worker[c][w] \in {"idle", "exited"} /\ lease' \subseteq lease
  BY DEF Take, Exit, Done, count
<1>5. /\ jobs' = jobs \/ (jobs[c] # <<>> /\ jobs' = [jobs EXCEPT ![c] = Tail(@)])
      /\ item' = item \/ (jobs[c] # <<>> /\ item' = [item EXCEPT ![c][w] = Head(jobs[c])])
  BY DEF Take, Exit, Done
<1>6. \/ worker' = worker
      \/ worker' = [worker EXCEPT ![c][w] = "busy"]
      \/ worker' = [worker EXCEPT ![c][w] = "exited"] /\ jobs'[c] = <<>>
      \/ worker' = [worker EXCEPT ![c][w] = "done"] /\ jobs'[c] = <<>>
  BY CallOf DEF Take, Exit, Done, StepOf
<1>7. /\ jobs' \in [Calls -> Seq(Nat)] /\ item' \in [Calls -> [Workers -> Nat]]
      /\ worker' \in [Calls -> [Workers -> {"none", "idle", "busy", "exited", "done"}]]
  <2>1. jobs[c] # <<>> => Head(jobs[c]) \in Nat /\ Tail(jobs[c]) \in Seq(Nat)
    BY CallOf
  <2>2. /\ jobs \in [Calls -> Seq(Nat)] /\ item \in [Calls -> [Workers -> Nat]]
        /\ worker \in [Calls -> [Workers -> {"none", "idle", "busy", "exited", "done"}]]
    BY DEF Base, Types
  <2>3. jobs' \in [Calls -> Seq(Nat)]
    BY <1>5, <2>1, <2>2
  <2>4. item' \in [Calls -> [Workers -> Nat]]
    <3>1. item' = item \/ \E i \in Nat : item' = [item EXCEPT ![c][w] = i]
      BY <1>5, <2>1
    <3>2. ASSUME NEW i \in Nat, item' = [item EXCEPT ![c][w] = i]
          PROVE  item' \in [Calls -> [Workers -> Nat]]
      BY <2>2, <3>2
    <3> QED
      BY <2>2, <3>1, <3>2
  <2>5. worker' \in [Calls -> [Workers -> {"none", "idle", "busy", "exited", "done"}]]
    <3>1. worker' = worker \/ \E s \in {"busy", "exited", "done"} : worker' = [worker EXCEPT ![c][w] = s]
      BY <1>6
    <3>2. ASSUME NEW s \in {"busy", "exited", "done"}, worker' = [worker EXCEPT ![c][w] = s]
          PROVE  worker' \in [Calls -> [Workers -> {"none", "idle", "busy", "exited", "done"}]]
      BY <2>2, <3>2
    <3> QED
      BY <2>2, <3>1, <3>2
  <2> QED
    BY <2>3, <2>4, <2>5
<1>8. Types'
  BY <1>1, <1>3, <1>4, <1>7 DEF Base, Types
<1>9. \A d \in Calls \ {c} : jobs'[d] = jobs[d] /\ worker'[d] = worker[d]
  BY <1>5, <1>6 DEF Base, Types
<1>10. \A v \in Workers :
         /\ worker'[c][v] = "none" <=> worker[c][v] = "none"
         /\ worker'[c][v] \in {"exited", "done"} => jobs'[c] = <<>>
  <2>1. jobs[c] = <<>> => jobs'[c] = <<>>
    BY <1>5
  <2>2. \A v \in Workers : worker[c][v] \in {"exited", "done"} => jobs[c] = <<>>
    BY CallOf DEF StepOf
  <2>3. worker \in [Calls -> [Workers -> {"none", "idle", "busy", "exited", "done"}]]
    BY DEF Base, Types
  <2> QED
    BY <1>4, <1>6, <2>1, <2>2, <2>3
<1>11. Steps'
  BY <1>1, <1>2, <1>9, <1>10, StepAlone
<1> QED
  BY <1>8, <1>11 DEF Base

LEMMA BaseStep == Base /\ [PmapNext]_pmapVars => Base'
<1> SUFFICES ASSUME Base, [PmapNext]_pmapVars PROVE Base'
  OBVIOUS
<1>1. CASE UNCHANGED pmapVars
  <2>1. Types'
    BY <1>1, SameProgram DEF pmapVars, pool, work, count, Base, Types
  <2>2. Steps'
    BY <1>1 DEF pmapVars, pool, work, count, Base, Steps, StepOf
  <2> QED
    BY <2>1, <2>2 DEF Base
<1>2. ASSUME NEW c \in Calls, Caller(c) PROVE Base'
  BY <1>2, CallerBase, AnswerBase, ApplyBase DEF Caller
<1>3. ASSUME NEW c \in Calls, NEW w \in Workers, Worker(c, w) PROVE Base'
  BY <1>3, WorkerBase, ApplyBase DEF Worker
<1> QED
  BY <1>1, <1>2, <1>3 DEF PmapNext

LEMMA BaseInvariant == PmapSpec => []Base
  BY BaseStart, BaseStep, PTL DEF PmapSpec

\* Every variable has its type: among them, a call holds at most the budget, and
\* the suspended callers and the strands that ended are calls there are.
THEOREM TypeCorrect == PmapSpec => []Types
  BY BaseInvariant, PTL DEF Base
-----------------------------------------------------------------------------
(* The budget.                                                                *)

\* Sets of pairs of a call and a worker are finite.
LEMMA PairsFinite ==
  ASSUME NEW S \in SUBSET (Calls \X Workers)
  PROVE  IsFiniteSet(S) /\ Cardinality(S) \in Nat
<1>1. IsFiniteSet(Workers)
  BY PmapAssumption, FS_Interval DEF Workers
<1>2. IsFiniteSet(Calls \X Workers)
  BY <1>1, PmapAssumption, FS_Product
<1> QED
  BY <1>2, FS_Subset, FS_CardinalityType

LEMMA SlotsStart == PmapInit => SlotsAreHeld
<1> SUFFICES ASSUME PmapInit PROVE SlotsAreHeld
  OBVIOUS
<1>1. Held = {}
  BY PmapAssumption DEF PmapInit, Held, Workers
<1> QED
  BY <1>1, FS_EmptySet, PmapAssumption DEF PmapInit, SlotsAreHeld

\* A slot that is taken is one more.
LEMMA TakenSlot ==
  ASSUME Base, SlotsAreHeld, NEW c \in Calls, Acquire(c)
  PROVE  SlotsAreHeld'
<1> DEFINE p == <<c, got[c] + 1>>
<1>1. Len(what[c]) \in Nat /\ got \in [Calls -> 0..Budget]
  BY ItemsOf DEF Base, Types
<1>2. got[c] + 1 \in 1..Budget /\ got[c] \in Nat
  BY <1>1, PmapAssumption DEF Acquire, Wanted
<1>3. \A q \in Calls \X Workers : q[2] <= got'[q[1]] <=> q[2] <= got[q[1]] \/ q = p
  <2> SUFFICES ASSUME NEW d \in Calls, NEW w \in Workers
               PROVE  w <= got'[d] <=> w <= got[d] \/ <<d, w>> = p
    OBVIOUS
  <2>1. CASE d = c
    <3>1. got'[d] = got[c] + 1
      BY <1>1, <2>1 DEF Acquire
    <3>2. w \in Nat
      BY DEF Workers
    <3> QED
      BY <1>2, <2>1, <3>1, <3>2
  <2>2. CASE d # c
    BY <1>1, <2>2 DEF Acquire
  <2> QED
    BY <2>1, <2>2
<1>4. Held' = Held \cup {p} /\ p \notin Held
  <2>1. p \in Calls \X Workers
    BY <1>2 DEF Workers
  <2>2. Workers' = Workers
    BY DEF Workers
  <2>3. p \notin Held
    BY <1>2 DEF Held
  <2> QED
    BY <1>3, <2>1, <2>2, <2>3 DEF Held
<1>5. IsFiniteSet(Held)
  BY PairsFinite DEF Held
<1>6. Cardinality(Held') = Cardinality(Held) + 1
  BY <1>4, <1>5, FS_AddElement
<1>7. slots < Budget /\ slots' = slots + 1 /\ slots \in Int
  BY DEF Acquire, Base, Types
<1> QED
  BY <1>6, <1>7, PmapAssumption DEF SlotsAreHeld

\* A call that answers gives back what it holds.
LEMMA SlotsBack ==
  ASSUME Base, SlotsAreHeld, NEW c \in Calls, NEW r, Answer(c, r)
  PROVE  SlotsAreHeld'
<1> DEFINE mine == {c} \X (1..got[c])
<1>1. got \in [Calls -> 0..Budget] /\ got[c] \in 0..Budget
  BY DEF Base, Types
<1>2. Held' = Held \ mine
  <2> SUFFICES ASSUME NEW d \in Calls, NEW w \in Workers
               PROVE  w <= got'[d] <=> w <= got[d] /\ <<d, w>> \notin mine
    BY DEF Held, Workers
  <2>1. w \in Nat \ {0}
    BY DEF Workers
  <2>2. CASE d = c
    <3>1. got'[d] = 0
      BY <1>1, <2>2 DEF Answer
    <3> QED
      BY <1>1, <2>1, <2>2, <3>1, PmapAssumption
  <2>3. CASE d # c
    BY <1>1, <2>3 DEF Answer
  <2> QED
    BY <2>2, <2>3
<1>3. mine \in SUBSET Held
  BY <1>1, PmapAssumption DEF Held, Workers
<1>4. Cardinality(mine) = got[c]
  <2>1. IsFiniteSet(1..got[c]) /\ Cardinality(1..got[c]) = got[c]
    BY <1>1, FS_Interval, PmapAssumption
  <2>2. IsFiniteSet({c}) /\ Cardinality({c}) = 1
    BY FS_Singleton
  <2>3. Cardinality(mine) = 1 * got[c]
    BY <2>1, <2>2, FS_Product, ZenonT(40)
  <2> QED
    BY <1>1, <2>3
<1>5. IsFiniteSet(Held)
  BY PairsFinite DEF Held
<1>6. Cardinality(Held') = Cardinality(Held) - got[c]
  <2>1. Held \cap mine = mine
    BY <1>3
  <2>2. Cardinality(Held \ mine) = Cardinality(Held) - Cardinality(Held \cap mine)
    BY <1>5, FS_Difference
  <2> QED
    BY <1>2, <1>4, <2>1, <2>2
<1>7. slots' = slots - got[c] /\ slots \in Int /\ got[c] \in Nat
  BY <1>1 DEF Answer, Base, Types
<1> QED
  BY <1>6, <1>7, PmapAssumption DEF SlotsAreHeld

LEMMA SlotsStep == Base /\ SlotsAreHeld /\ [PmapNext]_pmapVars => SlotsAreHeld'
<1> SUFFICES ASSUME Base, SlotsAreHeld, [PmapNext]_pmapVars PROVE SlotsAreHeld'
  OBVIOUS
<1>1. CASE UNCHANGED <<slots, got>>
  BY <1>1 DEF SlotsAreHeld, Held, Workers
<1>2. ASSUME NEW c \in Calls, SnapshotFails(c) \/ Collect(c) \/ CollectHere(c)
      PROVE  SlotsAreHeld'
  BY <1>2, SlotsBack DEF SnapshotFails, Collect, CollectHere
<1>3. ASSUME NEW c \in Calls, Caller(c)
      PROVE  SlotsAreHeld'
  BY <1>1, <1>2, <1>3, TakenSlot DEF Caller, Begin, RunHere, Launch, ApplyHere, Leave, pool
<1>4. ASSUME NEW c \in Calls, NEW w \in Workers, Worker(c, w)
      PROVE  UNCHANGED <<slots, got>>
  BY <1>4 DEF Worker, Take, Apply, Exit, Done, pool
<1> QED
  BY <1>1, <1>3, <1>4 DEF PmapNext, pmapVars, pool

\* No way out of a call keeps a slot of the budget, and no more than the budget
\* is ever in use.
THEOREM Slots == PmapSpec => []SlotsHeld
<1>1. Base /\ SlotsAreHeld => SlotsHeld
  <2> SUFFICES ASSUME Base, SlotsAreHeld, \A c \in Calls : step[c] \in {"new", "ended"}
               PROVE  slots = 0
    BY DEF SlotsHeld, SlotsAreHeld
  <2>1. \A c \in Calls : got[c] = 0
    BY CallOf DEF StepOf
  <2>2. Held = {}
    BY <2>1 DEF Held, Workers
  <2> QED
    BY <2>2, FS_EmptySet DEF SlotsAreHeld
<1> QED
  BY <1>1, BaseInvariant, SlotsStart, SlotsStep, PTL DEF PmapSpec

-----------------------------------------------------------------------------
(* The count of runnable strands.                                             *)

LEMMA CountFinite ==
  ASSUME Base
  PROVE  /\ IsFiniteSet(LiveWorkers) /\ Cardinality(LiveWorkers) \in Nat
         /\ IsFiniteSet(lease) /\ Cardinality(lease) \in Nat
         /\ IsFiniteSet(TopCalls \ gone) /\ Cardinality(TopCalls \ gone) \in Nat
<1>1. lease \in SUBSET Calls /\ TopCalls \ gone \in SUBSET Calls
  BY DEF Base, Types, TopCalls
<1> QED
  BY <1>1, PairsFinite, PmapAssumption, FS_Subset, FS_CardinalityType DEF LiveWorkers

LEMMA CountStart == PmapInit => Leases /\ Counted
<1> SUFFICES ASSUME PmapInit PROVE Leases /\ Counted
  OBVIOUS
<1>1. \A c \in Calls, w \in Workers : ~Live(c, w)
  BY DEF PmapInit, Live
<1>2. LiveWorkers = {} /\ lease = {} /\ TopCalls \ gone = TopCalls
  BY <1>1 DEF LiveWorkers, PmapInit
<1>3. Cardinality(TopCalls) \in Nat
  <2>1. TopCalls \in SUBSET Calls
    BY DEF TopCalls
  <2> QED
    BY <2>1, PmapAssumption, FS_Subset, FS_CardinalityType
<1> QED
  BY <1>1, <1>2, <1>3, FS_EmptySet DEF PmapInit, Leases, Counted

\* A step after which the same workers are live.
LEMMA SameLive ==
  ASSUME Leases, Counted, UNCHANGED <<what, gone, lease, runnable>>,
         \A d \in Calls, v \in Workers : Live(d, v)' <=> Live(d, v)
  PROVE  Leases' /\ Counted'
<1>1. LiveWorkers' = LiveWorkers
  BY DEF LiveWorkers, Workers
<1>2. TopCalls' = TopCalls
  BY SameProgram
<1> QED
  BY <1>1, <1>2 DEF Leases, Counted, Workers

LEMMA LaunchCounted ==
  ASSUME Base, Leases, Counted, NEW c \in Calls, Launch(c)
  PROVE  Leases' /\ Counted'
<1> DEFINE mine == {c} \X (1..got[c])
<1>1. got[c] \in 1..Budget /\ worker \in [Calls -> [Workers -> {"none", "idle", "busy", "exited", "done"}]]
  BY PmapAssumption DEF Launch, Acquired, Base, Types
<1>2. \A w \in Workers : ~Live(c, w)
  BY CallOf DEF Launch, StepOf, Live
<1>3. \A d \in Calls, w \in Workers : Live(d, w)' <=> Live(d, w) \/ <<d, w>> \in mine
  <2> SUFFICES ASSUME NEW d \in Calls, NEW w \in Workers
               PROVE  Live(d, w)' <=> Live(d, w) \/ <<d, w>> \in mine
    OBVIOUS
  <2>1. CASE d = c
    <3>1. worker'[d][w] = IF w <= got[c] THEN "idle" ELSE "none"
      BY <1>1, <2>1 DEF Launch
    <3>2. w <= got[c] <=> w \in 1..got[c]
      BY <1>1 DEF Workers
    <3> QED
      BY <1>2, <2>1, <3>1, <3>2 DEF Live
  <2>2. CASE d # c
    BY <1>1, <2>2 DEF Launch, Live
  <2> QED
    BY <2>1, <2>2
<1>4. mine \in SUBSET (Calls \X Workers) /\ <<c, 1>> \in mine
  BY <1>1, PmapAssumption DEF Workers
<1>5. LiveWorkers' = LiveWorkers \cup mine /\ LiveWorkers \cap mine = {}
  <2>1. LiveWorkers' = LiveWorkers \cup mine
    BY <1>3, <1>4 DEF LiveWorkers, Workers
  <2>2. LiveWorkers \cap mine = {}
    BY <1>2, <1>4 DEF LiveWorkers
  <2> QED
    BY <2>1, <2>2
<1>6. IsFiniteSet(mine) /\ Cardinality(mine) = got[c]
  <2>1. IsFiniteSet(1..got[c]) /\ Cardinality(1..got[c]) = got[c]
    <3>1. got[c] \in Nat
      BY <1>1, PmapAssumption
    <3>2. /\ IsFiniteSet(1..got[c])
          /\ Cardinality(1..got[c]) = IF 1 > got[c] THEN 0 ELSE got[c] - 1 + 1
      <4>1. 1 \in Int /\ got[c] \in Int
        BY <3>1
      <4> QED
        BY <4>1, FS_Interval, ZenonT(40)
    <3> QED
      BY <3>1, <3>2
  <2>2. IsFiniteSet({c}) /\ Cardinality({c}) = 1
    BY FS_Singleton
  <2>3. Cardinality(mine) = 1 * got[c]
    BY <2>1, <2>2, FS_Product, ZenonT(40)
  <2>4. IsFiniteSet(mine)
    BY <1>4, PairsFinite
  <2> QED
    BY <1>1, <2>3, <2>4
<1>7. Cardinality(LiveWorkers') = Cardinality(LiveWorkers) + got[c]
  <2>1. Cardinality(LiveWorkers \cup mine)
          = Cardinality(LiveWorkers) + Cardinality(mine) - Cardinality(LiveWorkers \cap mine)
    BY <1>6, CountFinite, FS_Union
  <2>2. Cardinality(LiveWorkers \cap mine) = 0
    BY <1>5, FS_EmptySet
  <2>3. Cardinality(LiveWorkers) \in Nat /\ got[c] \in Nat
    BY <1>1, CountFinite, PmapAssumption
  <2> HIDE DEF mine
  <2> QED
    BY <1>5, <1>6, <2>1, <2>2, <2>3
<1>8. c \notin lease /\ lease' = lease \cup {c}
  BY <1>2 DEF Launch, Leases
<1>9. Cardinality(lease') = Cardinality(lease) + 1
  BY <1>8, CountFinite, FS_AddElement
<1>10. TopCalls' = TopCalls /\ gone' = gone /\ runnable' = runnable + got[c] - 1
  BY SameProgram DEF Launch
<1>11. Counted'
  <2>1. /\ Cardinality(LiveWorkers) \in Nat /\ Cardinality(lease) \in Nat /\ got[c] \in Nat
        /\ Cardinality(TopCalls \ gone) \in Nat
    BY <1>1, CountFinite, PmapAssumption
  <2> QED
    BY <1>7, <1>9, <1>10, <2>1 DEF Counted
<1>12. Leases'
  BY <1>3, <1>4, <1>8 DEF Leases, Workers
<1> QED
  BY <1>11, <1>12

LEMMA ExitCounted ==
  ASSUME Base, Leases, Counted, NEW c \in Calls, NEW w \in Workers, Exit(c, w)
  PROVE  Leases' /\ Counted'
<1>1. worker \in [Calls -> [Workers -> {"none", "idle", "busy", "exited", "done"}]]
  BY DEF Base, Types
<1>2. \A d \in Calls, v \in Workers : Live(d, v)' <=> Live(d, v) /\ <<d, v>> # <<c, w>>
  BY <1>1 DEF Exit, Live
<1>3. Live(c, w) /\ <<c, w>> \in LiveWorkers
  BY DEF Exit, Live, LiveWorkers
<1>4. LiveWorkers' = LiveWorkers \ {<<c, w>>}
  BY <1>2 DEF LiveWorkers, Workers
<1>5. Cardinality(LiveWorkers') = Cardinality(LiveWorkers) - 1
  BY <1>3, <1>4, CountFinite, FS_RemoveElement
<1>6. TopCalls' = TopCalls /\ gone' = gone
  BY SameProgram DEF Exit
<1>7. c \in lease
  BY <1>3 DEF Leases
<1>8. CASE \A v \in Workers : Live(c, v) => v = w
  <2>1. lease' = lease \ {c} /\ runnable' = runnable
    BY <1>8 DEF Exit
  <2>2. Cardinality(lease') = Cardinality(lease) - 1
    BY <1>7, <2>1, CountFinite, FS_RemoveElement
  <2>3. Counted'
    BY <1>5, <1>6, <2>1, <2>2, CountFinite DEF Counted
  <2>4. Leases'
    BY <1>2, <1>8, <2>1 DEF Leases, Workers
  <2> QED
    BY <2>3, <2>4
<1>9. CASE \E v \in Workers : Live(c, v) /\ v # w
  <2>1. lease' = lease /\ runnable' = runnable - 1
    BY <1>9 DEF Exit
  <2>2. Counted'
    BY <1>5, <1>6, <2>1, CountFinite DEF Counted
  <2>3. Leases'
    BY <1>2, <1>9, <2>1 DEF Leases, Workers
  <2> QED
    BY <2>2, <2>3
<1> QED
  BY <1>8, <1>9

LEMMA CountStep == Base /\ Leases /\ Counted /\ [PmapNext]_pmapVars => Leases' /\ Counted'
<1> SUFFICES ASSUME Base, Leases, Counted, [PmapNext]_pmapVars PROVE Leases' /\ Counted'
  OBVIOUS
<1>1. CASE UNCHANGED <<what, gone, lease, runnable, worker>>
  BY <1>1, SameLive DEF Live
<1>2. ASSUME NEW c \in Calls, Collect(c) PROVE Leases' /\ Counted'
  <2>1. c \notin lease
    BY <1>2 DEF Collect, Leases, Live
  <2> QED
    BY <1>1, <1>2, <2>1 DEF Collect, work
<1>3. ASSUME NEW c \in Calls, Leave(c) PROVE Leases' /\ Counted'
  <2>1. TopCalls' = TopCalls /\ c \in TopCalls \ gone /\ gone' = gone \cup {c}
    BY <1>3, SameProgram DEF Leave
  <2>2. TopCalls' \ gone' = (TopCalls \ gone) \ {c}
    BY <2>1
  <2>3. Cardinality(TopCalls' \ gone') = Cardinality(TopCalls \ gone) - 1
    BY <2>1, <2>2, CountFinite, FS_RemoveElement, ZenonT(40)
  <2>4. lease' = lease /\ worker' = worker /\ runnable' = runnable - 1
    BY <1>3 DEF Leave, work
  <2>5. LiveWorkers' = LiveWorkers
    BY <2>4 DEF LiveWorkers, Live, Workers
  <2> QED
    BY <2>3, <2>4, <2>5, CountFinite DEF Leases, Counted, Live, Workers
<1>4. ASSUME NEW c \in Calls, Caller(c) PROVE Leases' /\ Counted'
  BY <1>1, <1>2, <1>3, <1>4, LaunchCounted
     DEF Caller, Begin, Acquire, RunHere, SnapshotFails, ApplyHere, CollectHere, work, count
<1>5. ASSUME NEW c \in Calls, NEW w \in Workers, Take(c, w) \/ Apply(c, w) \/ Done(c, w)
      PROVE  Leases' /\ Counted'
  <2>1. worker \in [Calls -> [Workers -> {"none", "idle", "busy", "exited", "done"}]]
    BY DEF Base, Types
  <2>2. \/ worker' = worker
        \/ worker[c][w] = "idle" /\ worker' = [worker EXCEPT ![c][w] = "busy"]
        \/ worker[c][w] = "busy" /\ worker' = [worker EXCEPT ![c][w] = "idle"]
        \/ worker[c][w] = "exited" /\ worker' = [worker EXCEPT ![c][w] = "done"]
    BY <1>5 DEF Take, Apply, Done
  <2>3. \A d \in Calls, v \in Workers : Live(d, v)' <=> Live(d, v)
    BY <2>1, <2>2 DEF Live
  <2> QED
    BY <1>5, <2>3, SameLive DEF Take, Apply, Done, count
<1>6. ASSUME NEW c \in Calls, NEW w \in Workers, Worker(c, w) PROVE Leases' /\ Counted'
  BY <1>5, <1>6, ExitCounted DEF Worker
<1> QED
  BY <1>1, <1>4, <1>6 DEF PmapNext, pmapVars, work, count

-----------------------------------------------------------------------------
(* Calls under way were begun from outside.                                   *)

LEMMA RootedStart == PmapInit => Rooted
  BY DEF PmapInit, Rooted, Active

\* Who applies an item is at work, and the item is one of the call's.
LEMMA ApplyingWorks ==
  ASSUME Base, NEW d \in Calls, NEW i, Applying(d, i)
  PROVE  Working(d) /\ Active(d)
  BY WorkersAct DEF Applying, Working, Active

\* A callback that waits for the call it made goes on doing so.
LEMMA ApplyingKept ==
  ASSUME Base, [PmapNext]_pmapVars, NEW d \in Calls, NEW i, Applying(d, i), ~Ready(d, i)
  PROVE  Applying(d, i)'
<1>1. Working(d)
  BY ApplyingWorks
<1>2. CASE UNCHANGED <<step, jobs, worker, item, cancelled>>
  BY <1>2 DEF Applying, Workers
<1>3. ASSUME NEW c \in Calls, Begin(c) \/ Acquire(c) \/ RunHere(c) \/ Launch(c) \/ SnapshotFails(c)
                                \/ Collect(c) \/ CollectHere(c) \/ Leave(c)
      PROVE  Applying(d, i)'
  <2>1. c = d => Leave(c)
    <3>1. step[d] = "sequential" => \A w \in Workers : worker[d][w] = "none"
      BY CallOf DEF StepOf
    <3> QED
      BY <1>1, <1>3, <3>1
         DEF Working, Begin, Acquire, RunHere, Launch, SnapshotFails, Collect, CollectHere, Applying
  <2>2. \/ UNCHANGED <<step, jobs, worker, item, cancelled>>
        \/ /\ c # d /\ step'[d] = step[d] /\ jobs'[d] = jobs[d] /\ worker'[d] = worker[d]
           /\ item' = item /\ cancelled' = cancelled
    BY <1>3, <2>1 DEF Begin, Acquire, RunHere, Launch, SnapshotFails, Collect, CollectHere, Leave,
                      Answer, pool, work, Base, Types
  <2> QED
    BY <1>2, <2>2 DEF Applying, Workers
<1>4. ASSUME NEW c \in Calls, ApplyHere(c)
      PROVE  Applying(d, i)'
  <2>1. c # d
    <3>1. c = d => Head(jobs[d]) = i
      BY <1>4, CallOf DEF ApplyHere, Applying, StepOf
    <3> QED
      BY <1>4, <3>1 DEF ApplyHere, Applied
  <2>2. /\ step' = step /\ worker' = worker /\ item' = item
        /\ jobs'[d] = jobs[d] /\ cancelled'[d] = cancelled[d]
    BY <1>4, <2>1 DEF ApplyHere, Record, pool, Base, Types
  <2> QED
    BY <2>2 DEF Applying, Workers
<1>5. ASSUME NEW c \in Calls, NEW w \in Workers, Worker(c, w)
      PROVE  Applying(d, i)'
  <2>1. worker[c][w] \in {"idle", "busy", "exited"} /\ step[c] = "parallel" /\ step' = step
    BY <1>5, WorkersAct DEF Worker, Take, Apply, Exit, Done, pool
  <2>2. CASE c # d
    <3>1. /\ jobs'[d] = jobs[d] /\ cancelled'[d] = cancelled[d]
          /\ worker'[d] = worker[d] /\ item'[d] = item[d]
      BY <1>5, <2>2, SMTT(30) DEF Worker, Take, Apply, Exit, Done, Record, Base, Types
    <3> QED
      BY <2>1, <3>1 DEF Applying, Workers
  <2>3. CASE c = d
    <3>1. PICK v \in Workers : worker[d][v] = "busy" /\ item[d][v] = i
      BY <2>1, <2>3 DEF Applying
    <3>2. ~(v = w /\ Apply(c, w))
      BY <2>3, <3>1 DEF Apply, Applied
    <3>3. worker'[d][v] = "busy" /\ item'[d][v] = i
      BY <1>5, <2>3, <3>1, <3>2, SMTT(30) DEF Worker, Take, Apply, Exit, Done, Base, Types
    <3> QED
      BY <3>3 DEF Applying, Workers
  <2> QED
    BY <2>2, <2>3
<1> QED
  BY <1>2, <1>3, <1>4, <1>5 DEF PmapNext, Caller, pmapVars, pool, work

\* A call under way was under way before, or was begun by this step.
LEMMA ActiveBefore ==
  ASSUME Base, [PmapNext]_pmapVars, NEW c \in Calls, Active(c)', ~Active(c)
  PROVE  Begin(c)
<1>1. step' # step
  BY DEF Active
<1>2. PICK d \in Calls : Begin(d) \/ RunHere(d) \/ Launch(d) \/ \E r : Answer(d, r)
  BY <1>1 DEF PmapNext, Caller, Worker, Acquire, SnapshotFails, Collect, ApplyHere, CollectHere, Leave,
              Take, Apply, Exit, Done, pmapVars, pool
<1>3. d = c
  BY <1>2 DEF Begin, RunHere, Launch, Answer, Active, Base, Types
<1> QED
  BY <1>2, <1>3 DEF RunHere, Launch, Answer, Active, Base, Types

LEMMA RootedStep == Base /\ Rooted /\ [PmapNext]_pmapVars => Rooted'
<1> SUFFICES ASSUME Base, Rooted, [PmapNext]_pmapVars,
                    NEW S \in SUBSET Calls, S # {}, \A c \in S : Active(c)'
             PROVE  \E c \in S : \/ c \in TopCalls'
                                 \/ \E d \in Calls \ S : \E i \in Items(d)' : what'[d][i] = c /\ Applying(d, i)'
  BY DEF Rooted
<1>1. what' = what
  BY DEF PmapNext, Caller, Worker, Begin, Acquire, RunHere, Launch, SnapshotFails, Collect, ApplyHere,
         CollectHere, Leave, Take, Apply, Exit, Done, pmapVars
<1>2. TopCalls' = TopCalls /\ \A d \in Calls : Items(d)' = Items(d)
  BY <1>1, SameProgram
<1>3. \A c \in Calls, d \in Calls : \A i \in Items(d) :
        step[c] # "ended" /\ what[d][i] = c /\ Applying(d, i) => Applying(d, i)'
  <2> SUFFICES ASSUME NEW c \in Calls, NEW d \in Calls, NEW i \in Items(d),
                      step[c] # "ended", what[d][i] = c, Applying(d, i)
               PROVE  Applying(d, i)'
    OBVIOUS
  <2>1. ~Ready(d, i)
    BY CallOf DEF StepOf, Ready
  <2> QED
    BY <2>1, ApplyingKept
<1>4. CASE \A c \in S : Active(c)
  <2>1. PICK c \in S : \/ c \in TopCalls
                       \/ \E d \in Calls \ S : \E i \in Items(d) : what[d][i] = c /\ Applying(d, i)
    BY <1>4 DEF Rooted
  <2> QED
    BY <1>1, <1>2, <1>3, <1>4, <2>1 DEF Active
<1>5. ASSUME NEW b \in S, ~Active(b)
      PROVE  \E c \in S : \/ c \in TopCalls'
                          \/ \E d \in Calls \ S : \E i \in Items(d)' : what'[d][i] = c /\ Applying(d, i)'
  <2>1. Begin(b) /\ step[b] = "new"
    BY <1>5, ActiveBefore DEF Begin
  <2>2. \A c \in S \ {b} : Active(c)
    <3>1. \A c \in Calls \ {b} : step'[c] = step[c]
      BY <2>1 DEF Begin, Base, Types
    <3> QED
      BY <3>1 DEF Active
  <2>3. \A d \in Calls : \A i : Applying(d, i) => d # b
    BY <2>1, ApplyingWorks DEF Active
  <2>4. CASE S = {b}
    <3>1. CASE b \in TopCalls
      BY <1>2, <3>1
    <3>2. CASE b \notin TopCalls
      <4>1. PICK d \in Calls : \E i \in Items(d) : what[d][i] = b /\ Applying(d, i)
        BY <2>1, <3>2 DEF Begin, Called, TopCalls
      <4> QED
        BY <1>1, <1>2, <1>3, <2>1, <2>3, <2>4, <4>1
    <3> QED
      BY <3>1, <3>2
  <2>5. CASE S # {b}
    <3>1. S \ {b} # {} /\ S \ {b} \in SUBSET Calls
      BY <2>5
    <3>2. PICK c \in S \ {b} : \/ c \in TopCalls
            \/ \E d \in Calls \ (S \ {b}) : \E i \in Items(d) : what[d][i] = c /\ Applying(d, i)
      BY <2>2, <3>1 DEF Rooted
    <3>3. step[c] # "ended"
      BY <2>2 DEF Active
    <3>4. CASE c \in TopCalls
      BY <1>2, <3>4
    <3>5. CASE \E d \in Calls \ (S \ {b}) : \E i \in Items(d) : what[d][i] = c /\ Applying(d, i)
      <4>1. PICK d \in Calls \ (S \ {b}) : \E i \in Items(d) : what[d][i] = c /\ Applying(d, i)
        BY <3>5
      <4>2. d \in Calls \ S
        BY <2>3, <4>1
      <4> QED
        BY <1>1, <1>2, <1>3, <3>3, <4>1, <4>2
    <3> QED
      BY <3>2, <3>4, <3>5
  <2> QED
    BY <2>4, <2>5
<1> QED
  BY <1>4, <1>5

\* There are never more callers suspended than workers live.
LEMMA FewerLeases ==
  ASSUME Base, Leases
  PROVE  Cardinality(lease) <= Cardinality(LiveWorkers)
<1> DEFINE f == [c \in lease |-> <<c, CHOOSE w \in Workers : Live(c, w)>>]
<1>1. \A c \in lease : c \in Calls /\ \E w \in Workers : Live(c, w)
  BY DEF Leases, Base, Types
<1>2. \A c \in lease : f[c] \in LiveWorkers
  BY <1>1 DEF LiveWorkers
<1>3. f \in [lease -> LiveWorkers] /\ \A c, d \in lease : f[c] = f[d] => c = d
  BY <1>2
<1>4. f \in Injection(lease, LiveWorkers)
  BY <1>3, Fun_IsInj
<1> QED
  BY <1>4, CountFinite, FS_Injection

\* The scheduler's count of runnable strands is zero only when every strand of
\* the program has ended and no worker is left: a pmap between two of its steps
\* is never taken for a deadlock.
THEOREM Runnable == PmapSpec => []NeverIdle
<1>1. Base /\ Leases /\ Counted /\ Rooted => NeverIdle
  <2> SUFFICES ASSUME Base, Leases, Counted, Rooted, runnable = 0
               PROVE  gone = TopCalls /\ \A c \in Calls, w \in Workers : ~Live(c, w)
    BY DEF NeverIdle
  <2>1. Cardinality(TopCalls \ gone) = 0
    BY CountFinite, FewerLeases DEF Counted
  <2>2. TopCalls \ gone = {}
    BY <2>1, CountFinite, FS_EmptySet
  <2>3. gone = TopCalls
    BY <2>2 DEF Base, Types
  <2>4. ASSUME NEW c \in Calls, NEW w \in Workers, Live(c, w)
        PROVE  FALSE
    <3> DEFINE S == {b \in Calls : Active(b)}
    <3>1. c \in S
      BY <2>4, WorkersAct DEF Live, Active
    <3>2. PICK b \in S : \/ b \in TopCalls
                         \/ \E d \in Calls \ S : \E i \in Items(d) : what[d][i] = b /\ Applying(d, i)
      BY <3>1 DEF Rooted
    <3>3. b \notin TopCalls
      BY <2>3, CallOf DEF StepOf, Active
    <3>4. \A d \in Calls : \A i : Applying(d, i) => d \in S
      BY ApplyingWorks
    <3> QED
      BY <3>2, <3>3, <3>4
  <2> QED
    BY <2>3, <2>4
<1>2. PmapInit => Base /\ Leases /\ Counted /\ Rooted
  BY BaseStart, CountStart, RootedStart
<1>3. Base /\ Leases /\ Counted /\ Rooted /\ [PmapNext]_pmapVars => (Base /\ Leases /\ Counted /\ Rooted)'
  BY BaseStep, CountStep, RootedStep
<1> QED
  BY <1>1, <1>2, <1>3, PTL DEF PmapSpec

-----------------------------------------------------------------------------
(* The items of a call.                                                       *)

LEMMA HandedStart == PmapInit => Handed
  BY DEF PmapInit, Handed, HandedOf, Working

\* A step that is none of call c.
LEMMA HandedAlone ==
  ASSUME Handed, NEW c \in Calls, what' = what, Working(c)' => Working(c),
         jobs'[c] = jobs[c], worker'[c] = worker[c], item'[c] = item[c],
         cancelled'[c] = cancelled[c], ran'[c] = ran[c]
  PROVE  HandedOf(c)'
<1>1. HandedOf(c)
  BY DEF Handed
<1>2. Given(c)' = Given(c) /\ Tried(c)' = Tried(c)
  BY DEF Given, Tried
<1> QED
  BY <1>1, <1>2 DEF HandedOf, Workers

\* The items are laid out: none was handed out.
LEMMA HandedAll ==
  ASSUME Base, NEW c \in Calls, RunHere(c) \/ Launch(c)
  PROVE  HandedOf(c)'
<1>1. Len(what[c]) \in Nat /\ Items(c) = 1..Len(what[c])
  BY ItemsOf DEF Base
<1>2. jobs'[c] = [i \in Items(c) |-> i] /\ what' = what /\ ran'[c] = <<>>
  <2>1. ran[c] = <<>> /\ jobs \in [Calls -> Seq(Nat)]
    BY CallOf DEF RunHere, Launch, StepOf, Base, Types
  <2> QED
    BY <2>1 DEF RunHere, Launch
<1>3. Len(jobs'[c]) = Len(what[c]) /\ \A j \in 1..Len(jobs'[c]) : jobs'[c][j] = j
  BY <1>1, <1>2
<1>4. Given(c)' = 0
  BY <1>1, <1>2, <1>3 DEF Given
<1>5. Tried(c)' = {}
  BY <1>2 DEF Tried
<1>6. \A w \in Workers : worker'[c][w] # "busy"
  <2>1. \A w \in Workers : worker[c][w] = "none"
    BY CallOf DEF RunHere, Launch, StepOf
  <2>2. CASE RunHere(c)
    BY <2>1, <2>2 DEF RunHere
  <2>3. CASE Launch(c)
    <3>1. worker'[c] = [w \in Workers |-> IF w <= got[c] THEN "idle" ELSE "none"]
      BY <2>3 DEF Launch, Base, Types
    <3> QED
      BY <3>1
  <2> QED
    BY <2>2, <2>3
<1>7. /\ Len(jobs'[c]) <= Len(what'[c])
      /\ \A j \in 1..Len(jobs'[c]) : jobs'[c][j] = Given(c)' + j
  BY <1>1, <1>2, <1>3, <1>4
<1> QED
  BY <1>4, <1>5, <1>6, <1>7 DEF HandedOf, Workers

\* What a call that takes an item takes.
LEMMA NextItem ==
  ASSUME Base, Handed, NEW c \in Calls, Working(c), jobs[c] # <<>>
  PROVE  /\ Given(c) \in Nat /\ Head(jobs[c]) = Given(c) + 1 /\ Given(c) + 1 \in Items(c)
         /\ Len(Tail(jobs[c])) = Len(jobs[c]) - 1
         /\ \A j \in 1..Len(Tail(jobs[c])) : Tail(jobs[c])[j] = Given(c) + 1 + j
<1>1. Len(what[c]) \in Nat /\ Items(c) = 1..Len(what[c]) /\ jobs[c] \in Seq(Nat)
  BY ItemsOf, CallOf DEF Base
<1>2. Len(jobs[c]) <= Len(what[c]) /\ \A j \in 1..Len(jobs[c]) : jobs[c][j] = Given(c) + j
  BY DEF Handed, HandedOf
<1>3. Len(jobs[c]) \in Nat /\ Len(jobs[c]) >= 1
  BY <1>1
<1>4. Given(c) \in Nat /\ Given(c) + 1 \in Items(c)
  <2>1. Len(jobs[c]) <= Len(what[c]) /\ Len(what[c]) \in Nat
    BY <1>1, <1>2
  <2>2. Given(c) \in Nat /\ Given(c) + 1 \in 1..Len(what[c])
    <3>1. \A n, m \in Nat : m <= n /\ m >= 1 => n - m \in Nat /\ n - m + 1 \in 1..n
      OBVIOUS
    <3> QED
      BY <1>3, <2>1, <3>1 DEF Given
  <2> QED
    BY <1>1, <2>2
<1>5. Head(jobs[c]) = jobs[c][1] /\ Len(Tail(jobs[c])) = Len(jobs[c]) - 1
  BY <1>1, <1>3
<1>6. \A j \in 1..Len(Tail(jobs[c])) : Tail(jobs[c])[j] = jobs[c][j + 1]
  BY <1>1, <1>3
<1> QED
  BY <1>2, <1>3, <1>4, <1>5, <1>6, SMTT(30)

LEMMA TakeHanded ==
  ASSUME Base, Handed, NEW c \in Calls, NEW w \in Workers, Take(c, w)
  PROVE  HandedOf(c)'
<1>1. Working(c) /\ step' = step /\ what' = what /\ ran' = ran /\ cancelled' = cancelled
  BY WorkersAct DEF Take, Working, pool
<1>2. jobs[c] # <<>> /\ jobs'[c] = Tail(jobs[c])
  BY DEF Take, Base, Types
<1>3. /\ Given(c) \in Nat /\ Head(jobs[c]) = Given(c) + 1 /\ Given(c) + 1 \in Items(c)
      /\ Len(Tail(jobs[c])) = Len(jobs[c]) - 1
      /\ \A j \in 1..Len(Tail(jobs[c])) : Tail(jobs[c])[j] = Given(c) + 1 + j
  BY <1>1, <1>2, NextItem
<1>4. Len(jobs[c]) \in Nat /\ Len(what[c]) \in Nat
  BY CallOf, ItemsOf DEF Base
<1>5. Given(c)' = Given(c) + 1 /\ Tried(c)' = Tried(c)
  <2>1. Tried(c)' = Tried(c)
    BY <1>1 DEF Tried
  <2>2. Len(jobs'[c]) = Len(jobs[c]) - 1 /\ Len(what'[c]) = Len(what[c])
    BY <1>1, <1>2, <1>3
  <2>3. Given(c)' = Given(c) + 1
    BY <1>4, <2>2 DEF Given
  <2> QED
    BY <2>1, <2>3
<1>6. /\ Len(jobs'[c]) <= Len(what'[c])
      /\ \A j \in 1..Len(jobs'[c]) : jobs'[c][j] = Given(c)' + j
  <2>1. Len(jobs[c]) <= Len(what[c])
    BY <1>1 DEF Handed, HandedOf
  <2>2. jobs'[c] = Tail(jobs[c]) /\ what'[c] = what[c]
    BY <1>1, <1>2
  <2>3. Len(jobs'[c]) <= Len(what'[c])
    BY <1>3, <1>4, <2>1, <2>2
  <2>4. ASSUME NEW j \in 1..Len(jobs'[c]) PROVE jobs'[c][j] = Given(c)' + j
    BY <1>3, <1>5, <2>2
  <2> QED
    BY <2>3, <2>4
<1>7. Tried(c)' \subseteq 1..Given(c)'
  BY <1>1, <1>3, <1>5 DEF Handed, HandedOf
<1>8. HandedOf(c)
  BY DEF Handed
<1>9. CASE cancelled[c]
  <2>1. worker' = worker /\ item' = item
    BY <1>9 DEF Take
  <2>2. \A v \in Workers : worker'[c][v] = "busy" =>
         /\ item'[c][v] \in 1..Given(c)' /\ item'[c][v] \notin Tried(c)'
         /\ \A u \in Workers : worker'[c][u] = "busy" /\ item'[c][u] = item'[c][v] => u = v
    BY <1>1, <1>3, <1>5, <1>8, <2>1 DEF HandedOf
  <2> QED
    BY <1>1, <1>6, <1>7, <1>9, <2>2 DEF HandedOf, Workers
<1>10. CASE ~cancelled[c]
  <2>1. /\ worker'[c] = [worker[c] EXCEPT ![w] = "busy"]
        /\ item'[c] = [item[c] EXCEPT ![w] = Given(c) + 1]
    BY <1>3, <1>10 DEF Take, Base, Types
  <2>2. \A v \in Workers : /\ v = w => worker'[c][v] = "busy" /\ item'[c][v] = Given(c) + 1
                           /\ v # w => worker'[c][v] = worker[c][v] /\ item'[c][v] = item[c][v]
    BY <2>1, CallOf
  <2>3. \A v \in Workers : worker'[c][v] = "busy" =>
         /\ item'[c][v] \in 1..Given(c)' /\ item'[c][v] \notin Tried(c)'
         /\ \A u \in Workers : worker'[c][u] = "busy" /\ item'[c][u] = item'[c][v] => u = v
    BY <1>1, <1>3, <1>5, <1>8, <2>2, SMTT(30) DEF HandedOf
  <2>4. \A i \in 1..Given(c)' : i \in Tried(c)' \/ \E v \in Workers : worker'[c][v] = "busy" /\ item'[c][v] = i
    <3> SUFFICES ASSUME NEW i \in 1..Given(c)', i \notin Tried(c)'
                 PROVE  \E v \in Workers : worker'[c][v] = "busy" /\ item'[c][v] = i
      OBVIOUS
    <3>1. CASE i = Given(c) + 1
      BY <2>2, <3>1
    <3>2. CASE i # Given(c) + 1
      <4>1. i \in 1..Given(c)
        BY <1>3, <1>5, <3>2
      <4>2. PICK v \in Workers : worker[c][v] = "busy" /\ item[c][v] = i
        BY <1>1, <1>5, <1>8, <1>10, <4>1 DEF HandedOf
      <4>3. v # w
        BY <4>2 DEF Take
      <4> QED
        BY <2>2, <4>2, <4>3
    <3> QED
      BY <3>1, <3>2
  <2> QED
    BY <1>1, <1>6, <1>7, <2>3, <2>4 DEF HandedOf, Workers
<1> QED
  BY <1>9, <1>10

\* What is applied is added to what was.
LEMMA TriedMore ==
  ASSUME Base, NEW c \in Calls, NEW i, Applied(c, i)
  PROVE  /\ ran'[c] = Append(ran[c], i) /\ Len(ran'[c]) = Len(ran[c]) + 1
         /\ \A k \in 1..Len(ran[c]) : ran'[c][k] = ran[c][k]
         /\ ran'[c][Len(ran[c]) + 1] = i
         /\ Tried(c)' = Tried(c) \cup {i}
<1>1. ran'[c] = Append(ran[c], i) /\ ran[c] \in Seq(Nat)
  BY DEF Applied, Base, Types
<1>2. Len(ran[c]) \in Nat /\ DOMAIN ran[c] = 1..Len(ran[c])
  BY <1>1
<1>3. /\ Len(ran'[c]) = Len(ran[c]) + 1 /\ DOMAIN ran'[c] = 1..(Len(ran[c]) + 1)
      /\ \A k \in 1..Len(ran[c]) : ran'[c][k] = ran[c][k]
      /\ ran'[c][Len(ran[c]) + 1] = i
  BY <1>1, <1>2
<1>4. Tried(c)' = Tried(c) \cup {i}
  BY <1>2, <1>3, SMTT(30) DEF Tried
<1> QED
  BY <1>1, <1>3, <1>4

LEMMA ApplyHanded ==
  ASSUME Base, Handed, NEW c \in Calls, NEW w \in Workers, Apply(c, w)
  PROVE  HandedOf(c)'
<1>1. Working(c) /\ step' = step /\ what' = what /\ jobs' = jobs /\ HandedOf(c)
  BY WorkersAct DEF Apply, Working, pool, Handed
<1>2. Tried(c)' = Tried(c) \cup {item[c][w]} /\ Given(c)' = Given(c)
  BY <1>1, TriedMore DEF Apply, Given
<1>3. /\ worker'[c] = [worker[c] EXCEPT ![w] = "idle"] /\ worker[c][w] = "busy"
      /\ item'[c] = [item[c] EXCEPT ![w] = 0]
  BY DEF Apply, Base, Types
<1>4. \A v \in Workers : /\ v = w => worker'[c][v] = "idle"
                         /\ v # w => worker'[c][v] = worker[c][v] /\ item'[c][v] = item[c][v]
  BY <1>3, CallOf
<1>5. \A v \in Workers : worker'[c][v] = "busy" =>
         /\ item'[c][v] \in 1..Given(c)' /\ item'[c][v] \notin Tried(c)'
         /\ \A u \in Workers : worker'[c][u] = "busy" /\ item'[c][u] = item'[c][v] => u = v
  BY <1>1, <1>2, <1>3, <1>4 DEF HandedOf
<1>6. Tried(c)' \subseteq 1..Given(c)'
  BY <1>1, <1>2, <1>3 DEF HandedOf
<1>7. cancelled'[c] = cancelled[c] \/ cancelled'[c]
  BY DEF Apply, Record, Base, Types
<1>8. ~cancelled'[c] => \A i \in 1..Given(c)' :
        i \in Tried(c)' \/ \E v \in Workers : worker'[c][v] = "busy" /\ item'[c][v] = i
  BY <1>1, <1>2, <1>3, <1>4, <1>7 DEF HandedOf
<1>9. /\ Len(jobs'[c]) <= Len(what'[c])
      /\ \A j \in 1..Len(jobs'[c]) : jobs'[c][j] = Given(c)' + j
  BY <1>1, <1>2 DEF HandedOf
<1> QED
  BY <1>5, <1>6, <1>8, <1>9 DEF HandedOf, Workers

LEMMA HereHanded ==
  ASSUME Base, Handed, NEW c \in Calls, ApplyHere(c)
  PROVE  HandedOf(c)'
<1>1. Working(c) /\ step' = step /\ what' = what /\ worker' = worker /\ HandedOf(c)
  BY DEF ApplyHere, Working, pool, Handed
<1>2. jobs[c] # <<>> /\ jobs'[c] = Tail(jobs[c])
  BY DEF ApplyHere, Base, Types
<1>3. /\ Given(c) \in Nat /\ Head(jobs[c]) = Given(c) + 1 /\ Given(c) + 1 \in Items(c)
      /\ Len(Tail(jobs[c])) = Len(jobs[c]) - 1
      /\ \A j \in 1..Len(Tail(jobs[c])) : Tail(jobs[c])[j] = Given(c) + 1 + j
  BY <1>1, <1>2, NextItem
<1>4. Len(jobs[c]) \in Nat /\ Len(what[c]) \in Nat
  BY CallOf, ItemsOf DEF Base
<1>5. Given(c)' = Given(c) + 1 /\ Tried(c)' = Tried(c) \cup {Given(c) + 1}
  <2>1. Len(jobs'[c]) = Len(jobs[c]) - 1 /\ Len(what'[c]) = Len(what[c])
    BY <1>1, <1>2, <1>3
  <2>2. Given(c)' = Given(c) + 1
    BY <1>4, <2>1 DEF Given
  <2> QED
    BY <1>3, <2>2, TriedMore DEF ApplyHere
<1>6. /\ Len(jobs'[c]) <= Len(what'[c])
      /\ \A j \in 1..Len(jobs'[c]) : jobs'[c][j] = Given(c)' + j
  <2>1. Len(jobs[c]) <= Len(what[c])
    BY <1>1 DEF HandedOf
  <2> QED
    BY <1>1, <1>2, <1>3, <1>4, <1>5, <2>1
<1>7. Tried(c)' \subseteq 1..Given(c)'
  BY <1>1, <1>3, <1>5 DEF HandedOf
<1>8. \A w \in Workers : worker[c][w] = "none"
  BY CallOf DEF ApplyHere, StepOf
<1>9. \A i \in 1..Given(c)' : i \in Tried(c)'
  <2>1. \A i \in 1..Given(c) : i \in Tried(c)
    BY <1>1, <1>8 DEF HandedOf, ApplyHere
  <2> QED
    BY <1>3, <1>5, <2>1
<1> QED
  BY <1>1, <1>6, <1>7, <1>8, <1>9 DEF HandedOf, Workers

LEMMA HandedStep == Base /\ Handed /\ [PmapNext]_pmapVars => Handed'
<1> SUFFICES ASSUME Base, Handed, [PmapNext]_pmapVars, NEW c \in Calls PROVE HandedOf(c)'
  BY DEF Handed
<1>1. CASE UNCHANGED pmapVars
  BY <1>1, HandedAlone DEF pmapVars, pool, work, Working
<1>2. ASSUME NEW d \in Calls, Begin(d) \/ Acquire(d) \/ SnapshotFails(d) \/ Collect(d) \/ CollectHere(d) \/ Leave(d)
      PROVE  HandedOf(c)'
  <2>1. UNCHANGED <<what, jobs, worker, item, cancelled, ran>>
    BY <1>2 DEF Begin, Acquire, SnapshotFails, Collect, CollectHere, Leave, work
  <2>2. Working(c)' => Working(c)
    BY <1>2 DEF Begin, Acquire, SnapshotFails, Collect, CollectHere, Leave, pool, Answer, Working, Base, Types
  <2> QED
    BY <2>1, <2>2, HandedAlone
<1>3. ASSUME NEW d \in Calls, RunHere(d) \/ Launch(d), d # c
      PROVE  HandedOf(c)'
  <2>1. /\ what' = what /\ (Working(c)' => Working(c)) /\ jobs'[c] = jobs[c] /\ worker'[c] = worker[c]
        /\ item' = item /\ cancelled' = cancelled /\ ran' = ran
    BY <1>3 DEF RunHere, Launch, Working, Base, Types
  <2> QED
    BY <2>1, HandedAlone
<1>4. ASSUME NEW d \in Calls, ApplyHere(d), d # c
      PROVE  HandedOf(c)'
  <2>1. /\ what' = what /\ step' = step /\ jobs'[c] = jobs[c] /\ worker' = worker
        /\ item' = item /\ cancelled'[c] = cancelled[c] /\ ran'[c] = ran[c]
    BY <1>4 DEF ApplyHere, Record, Applied, pool, Base, Types
  <2> QED
    BY <2>1, HandedAlone DEF Working
<1>5. ASSUME NEW d \in Calls, NEW w \in Workers, Worker(d, w), d # c
      PROVE  HandedOf(c)'
  <2>1. what' = what /\ step' = step
    BY <1>5 DEF Worker, Take, Apply, Exit, Done, pool
  <2>2. jobs'[c] = jobs[c] /\ worker'[c] = worker[c] /\ item'[c] = item[c]
    BY <1>5, SMTT(30) DEF Worker, Take, Apply, Exit, Done, Base, Types
  <2>3. cancelled'[c] = cancelled[c] /\ ran'[c] = ran[c]
    BY <1>5, SMTT(30) DEF Worker, Take, Apply, Exit, Done, Record, Applied, Base, Types
  <2> QED
    BY <2>1, <2>2, <2>3, HandedAlone DEF Working
<1>6. ASSUME NEW w \in Workers, Exit(c, w) \/ Done(c, w)
      PROVE  HandedOf(c)'
  <2>1. /\ what' = what /\ step' = step /\ jobs' = jobs /\ item' = item
        /\ cancelled' = cancelled /\ ran' = ran
    BY <1>6 DEF Exit, Done, pool
  <2>2. \A v \in Workers : worker'[c][v] = "busy" <=> worker[c][v] = "busy"
    BY <1>6 DEF Exit, Done, Base, Types
  <2>3. Given(c)' = Given(c) /\ Tried(c)' = Tried(c) /\ HandedOf(c)
    BY <2>1 DEF Given, Tried, Handed
  <2> QED
    BY <2>1, <2>2, <2>3 DEF HandedOf, Working, Workers
<1> QED
  BY <1>1, <1>2, <1>3, <1>4, <1>5, <1>6, HandedAll, TakeHanded, ApplyHanded, HereHanded
     DEF PmapNext, Caller, Worker

-----------------------------------------------------------------------------
(* What the callbacks came to.                                                *)

\* A call answers once.
LEMMA ResultKept ==
  ASSUME Base, [PmapNext]_pmapVars, NEW c \in Calls, result[c] # Pending
  PROVE  result'[c] = result[c]
<1>1. step[c] = "ended"
  BY CallOf DEF StepOf
<1>2. \/ result' = result
      \/ \E d \in Calls, r \in {result'[x] : x \in Calls} : result' = [result EXCEPT ![d] = r] /\ step[d] # "ended"
  <2>1. CASE UNCHANGED pmapVars
    BY <2>1 DEF pmapVars
  <2>2. ASSUME NEW d \in Calls, Begin(d) \/ SnapshotFails(d) \/ Collect(d) \/ CollectHere(d)
        PROVE  result' = result \/ (step[d] # "ended" /\ \E r : result' = [result EXCEPT ![d] = r])
    BY <2>2 DEF Begin, SnapshotFails, Collect, CollectHere, Answer
  <2>3. ASSUME NEW d \in Calls, NEW r, result' = [result EXCEPT ![d] = r]
        PROVE  r \in {result'[x] : x \in Calls}
    BY <2>3 DEF Base, Types
  <2>4. ASSUME NEW d \in Calls, Caller(d), result' # result
        PROVE  Begin(d) \/ SnapshotFails(d) \/ Collect(d) \/ CollectHere(d)
    BY <2>4 DEF Caller, Acquire, RunHere, Launch, ApplyHere, Leave
  <2>5. ASSUME NEW d \in Calls, NEW w \in Workers, Worker(d, w)
        PROVE  result' = result
    BY <2>5 DEF Worker, Take, Apply, Exit, Done
  <2> QED
    BY <2>1, <2>2, <2>3, <2>4, <2>5 DEF PmapNext
<1> QED
  BY <1>1, <1>2 DEF Base, Types

\* What an item came to does not change.
LEMMA OutcomeKept ==
  ASSUME Base, [PmapNext]_pmapVars, NEW c \in Calls, NEW i, Ready(c, i)
  PROVE  Ready(c, i)' /\ Outcome(c, i)' = Outcome(c, i)
<1>1. what' = what
  BY DEF PmapNext, Caller, Worker, Begin, Acquire, RunHere, Launch, SnapshotFails, Collect, ApplyHere,
         CollectHere, Leave, Take, Apply, Exit, Done, pmapVars
<1> QED
  BY <1>1, ResultKept DEF Ready, Outcome

LEMMA RecordedStart == PmapInit => Recorded
  BY DEF PmapInit, Recorded, RecordedOf, Tried

\* A step that applies nothing of call c.
LEMMA RecordedAlone ==
  ASSUME Base, Recorded, [PmapNext]_pmapVars, NEW c \in Calls, what' = what, ran'[c] = ran[c],
         cancelled'[c] = cancelled[c], firstErr'[c] = firstErr[c], errVal'[c] = errVal[c], out'[c] = out[c]
  PROVE  RecordedOf(c)'
<1>1. RecordedOf(c)
  BY DEF Recorded
<1>2. Tried(c)' = Tried(c) /\ Items(c)' = Items(c)
  BY SameProgram DEF Tried
<1>3. \A i \in Tried(c) : Ready(c, i)' /\ Outcome(c, i)' = Outcome(c, i)
  BY <1>1, OutcomeKept DEF RecordedOf
<1> QED
  BY <1>1, <1>2, <1>3 DEF RecordedOf

\* A step that applies item i of call c.
LEMMA RecordedMore ==
  ASSUME Base, Recorded, [PmapNext]_pmapVars, NEW c \in Calls, NEW i \in Items(c), UNCHANGED <<what, result>>,
         Applied(c, i), Record(c, i, Outcome(c, i))
  PROVE  RecordedOf(c)'
<1>1. RecordedOf(c)
  BY DEF Recorded
<1>2. Tried(c)' = Tried(c) \cup {i} /\ Items(c)' = Items(c)
  BY TriedMore, SameProgram
<1>3. Ready(c, i) /\ Outcome(c, i) \in Ways
  BY OutcomeOf DEF Applied, Base
<1>4. \A j \in Tried(c) : Ready(c, j)
  BY <1>1 DEF RecordedOf
<1>5. \A j \in Tried(c)' : Ready(c, j)' /\ Outcome(c, j)' = Outcome(c, j)
  BY <1>2, <1>3, <1>4, OutcomeKept
<1>6. i \in Nat \ {0}
  BY ItemsOf DEF Base
<1>7. /\ cancelled'[c] = (cancelled[c] \/ Outcome(c, i) # "ok")
      /\ firstErr'[c] = IF Outcome(c, i) = "abort" /\ firstErr[c] = 0 THEN i ELSE firstErr[c]
      /\ errVal'[c] = IF Outcome(c, i) = "err" /\ errVal[c] = 0 THEN i ELSE errVal[c]
  BY DEF Record, Base, Types
<1>8. out[c] \in [Items(c) -> Nat]
        /\ out'[c] = IF Outcome(c, i) = "ok" THEN [out[c] EXCEPT ![i] = i] ELSE out[c]
  BY CallOf DEF Record, Base, Types
<1>9. \A j \in Tried(c)' : j \in Items(c) /\ (Outcome(c, j) = "ok" => out'[c][j] = j)
  BY <1>1, <1>2, <1>8 DEF RecordedOf
<1>10. \A j \in Tried(c)' :
         /\ Outcome(c, j) = "abort" => firstErr'[c] # 0
         /\ Outcome(c, j) = "err" => errVal'[c] # 0
         /\ Outcome(c, j) # "ok" => cancelled'[c]
  BY <1>1, <1>2, <1>6, <1>7 DEF RecordedOf
<1>11. /\ firstErr'[c] # 0 => firstErr'[c] \in Tried(c)' /\ Outcome(c, firstErr'[c]) = "abort"
       /\ errVal'[c] # 0 => errVal'[c] \in Tried(c)' /\ Outcome(c, errVal'[c]) = "err"
  BY <1>1, <1>2, <1>7 DEF RecordedOf
<1>12. cancelled'[c] => firstErr'[c] # 0 \/ errVal'[c] # 0
  BY <1>1, <1>3, <1>6, <1>7 DEF RecordedOf, Ways
<1>13. /\ (firstErr[c] # 0 => firstErr[c] \in Tried(c) /\ Outcome(c, firstErr[c]) = "abort")'
       /\ (errVal[c] # 0 => errVal[c] \in Tried(c) /\ Outcome(c, errVal[c]) = "err")'
  BY <1>11 DEF Outcome
<1> QED
  BY <1>2, <1>5, <1>9, <1>10, <1>12, <1>13 DEF RecordedOf

\* The item that is applied is one of the call's, and was not applied.
LEMMA FreshItem ==
  ASSUME Base, Handed, NEW c \in Calls
  PROVE  /\ ApplyHere(c) => /\ Head(jobs[c]) \in Items(c) \ Tried(c) /\ step[c] = "sequential"
                            /\ Working(c) /\ UNCHANGED <<what, result>>
         /\ \A w \in Workers : Apply(c, w) =>
              /\ item[c][w] \in Items(c) \ Tried(c) /\ step[c] = "parallel"
              /\ Working(c) /\ UNCHANGED <<what, result>>
<1>1. ASSUME ApplyHere(c)
      PROVE  /\ Head(jobs[c]) \in Items(c) \ Tried(c) /\ step[c] = "sequential"
             /\ Working(c) /\ UNCHANGED <<what, result>>
  <2>1. Working(c) /\ step[c] = "sequential" /\ jobs[c] # <<>> /\ UNCHANGED <<what, result>>
    BY <1>1 DEF ApplyHere, Working
  <2>2. Head(jobs[c]) = Given(c) + 1 /\ Given(c) \in Nat /\ Given(c) + 1 \in Items(c)
    BY <2>1, NextItem
  <2>3. Tried(c) \subseteq 1..Given(c)
    BY <2>1 DEF Handed, HandedOf
  <2> QED
    BY <2>1, <2>2, <2>3
<1>2. ASSUME NEW w \in Workers, Apply(c, w)
      PROVE  /\ item[c][w] \in Items(c) \ Tried(c) /\ step[c] = "parallel"
             /\ Working(c) /\ UNCHANGED <<what, result>>
  <2>1. Working(c) /\ step[c] = "parallel" /\ worker[c][w] = "busy" /\ UNCHANGED <<what, result>>
    BY <1>2, WorkersAct DEF Apply, Working
  <2>2. item[c][w] \in 1..Given(c) /\ item[c][w] \notin Tried(c) /\ Len(jobs[c]) <= Len(what[c])
    BY <2>1 DEF Handed, HandedOf
  <2>3. Len(what[c]) \in Nat /\ Items(c) = 1..Len(what[c]) /\ Len(jobs[c]) \in Nat
    BY ItemsOf, CallOf DEF Base
  <2>4. \A n, m \in Nat : m <= n => 1..(n - m) \subseteq 1..n
    OBVIOUS
  <2>5. 1..Given(c) \subseteq Items(c)
    BY <2>2, <2>3, <2>4 DEF Given
  <2> QED
    BY <2>1, <2>2, <2>5
<1> QED
  BY <1>1, <1>2

LEMMA RecordedStep == Base /\ Handed /\ Recorded /\ [PmapNext]_pmapVars => Recorded'
<1> SUFFICES ASSUME Base, Handed, Recorded, [PmapNext]_pmapVars, NEW c \in Calls PROVE RecordedOf(c)'
  BY DEF Recorded
<1>0. CASE UNCHANGED <<what, cancelled, firstErr, errVal, out, ran>>
  BY <1>0, RecordedAlone
<1>1. CASE UNCHANGED pmapVars
  BY <1>0, <1>1 DEF pmapVars, work
<1>2. ASSUME NEW d \in Calls, Caller(d), ~ApplyHere(d)
      PROVE  RecordedOf(c)'
  BY <1>0, <1>2 DEF Caller, Begin, Acquire, RunHere, Launch, SnapshotFails, Collect, CollectHere, Leave, work
<1>3. ASSUME NEW d \in Calls, NEW w \in Workers, Take(d, w) \/ Exit(d, w) \/ Done(d, w)
      PROVE  RecordedOf(c)'
  BY <1>0, <1>3 DEF Take, Exit, Done
<1>4. ASSUME NEW d \in Calls, NEW i, Applied(d, i), Record(d, i, Outcome(d, i)), UNCHANGED what, d # c
      PROVE  RecordedOf(c)'
  <2>1. /\ ran'[c] = ran[c] /\ cancelled'[c] = cancelled[c] /\ firstErr'[c] = firstErr[c]
        /\ errVal'[c] = errVal[c] /\ out'[c] = out[c]
    BY <1>4 DEF Applied, Record, Base, Types
  <2> QED
    BY <1>4, <2>1, RecordedAlone
<1>5. ASSUME NEW d \in Calls, ApplyHere(d)
      PROVE  RecordedOf(c)'
  <2>1. /\ Head(jobs[d]) \in Items(d) /\ UNCHANGED <<what, result>>
        /\ Applied(d, Head(jobs[d])) /\ Record(d, Head(jobs[d]), Outcome(d, Head(jobs[d])))
    BY <1>5, FreshItem DEF ApplyHere
  <2> QED
    BY <1>4, <2>1, RecordedMore
<1>6. ASSUME NEW d \in Calls, NEW w \in Workers, Apply(d, w)
      PROVE  RecordedOf(c)'
  <2>1. /\ item[d][w] \in Items(d) /\ UNCHANGED <<what, result>>
        /\ Applied(d, item[d][w]) /\ Record(d, item[d][w], Outcome(d, item[d][w]))
    BY <1>6, FreshItem DEF Apply
  <2> QED
    BY <1>4, <2>1, RecordedMore
<1> QED
  BY <1>1, <1>2, <1>3, <1>5, <1>6 DEF PmapNext, Worker

-----------------------------------------------------------------------------
(* How much is applied after a failure.                                       *)

LEMMA BusyFinite ==
  ASSUME NEW c
  PROVE  IsFiniteSet(Busy(c)) /\ Cardinality(Busy(c)) \in Nat /\ Cardinality(Busy(c)) <= Budget
<1>1. IsFiniteSet(Workers) /\ Cardinality(Workers) = Budget
  BY PmapAssumption, FS_Interval DEF Workers
<1>2. Busy(c) \in SUBSET Workers
  BY DEF Busy
<1> QED
  BY <1>1, <1>2, FS_Subset, FS_CardinalityType

LEMMA BoundedStart == PmapInit => Bounded
<1> SUFFICES ASSUME PmapInit, NEW c \in Calls PROVE BoundedOf(c)
  BY DEF Bounded
<1>1. ran[c] = <<>>
  BY DEF PmapInit
<1> QED
  BY <1>1 DEF BoundedOf

\* What was applied to no effect was recorded.
LEMMA TriedAt ==
  ASSUME Base, Recorded, NEW c \in Calls, NEW k \in 1..Len(ran[c])
  PROVE  /\ ran[c][k] \in Tried(c) /\ Ready(c, ran[c][k])
         /\ Outcome(c, ran[c][k]) # "ok" => cancelled[c]
<1>1. ran[c] \in Seq(Nat)
  BY CallOf
<1>2. ran[c][k] \in Tried(c)
  BY <1>1 DEF Tried
<1> QED
  BY <1>2 DEF Recorded, RecordedOf

\* A step that applies nothing of call c and, if c has failed, makes no worker busy.
LEMMA BoundedAlone ==
  ASSUME Base, Recorded, Bounded, [PmapNext]_pmapVars, NEW c \in Calls, ran'[c] = ran[c],
         cancelled[c] => Busy(c)' \subseteq Busy(c)
  PROVE  BoundedOf(c)'
<1> SUFFICES ASSUME NEW k \in 1..Len(ran[c]), Outcome(c, ran[c][k])' # "ok"
             PROVE  Len(ran[c]) - k + Cardinality(Busy(c)') < Budget
  BY DEF BoundedOf
<1>1. Outcome(c, ran[c][k])' = Outcome(c, ran[c][k])
  <2>1. \A i : Ready(c, i) => Outcome(c, i)' = Outcome(c, i)
    BY OutcomeKept
  <2> QED
    BY <2>1, TriedAt DEF Outcome
<1>2. Len(ran[c]) - k + Cardinality(Busy(c)) < Budget /\ Busy(c)' \in SUBSET Busy(c)
  BY <1>1, TriedAt DEF Bounded, BoundedOf
<1>3. Cardinality(Busy(c)') <= Cardinality(Busy(c)) /\ Cardinality(Busy(c)') \in Nat
  BY <1>2, BusyFinite, FS_Subset, FS_CardinalityType
<1>4. Len(ran[c]) \in Nat
  BY CallOf
<1> QED
  BY <1>2, <1>3, <1>4, BusyFinite, PmapAssumption

\* A step that applies an item of call c: before it nothing had failed, or the
\* worker that applies it was busy.
LEMMA BoundedMore ==
  ASSUME Base, Recorded, Bounded, [PmapNext]_pmapVars, NEW c \in Calls, NEW i, Applied(c, i),
         \/ ~cancelled[c] /\ Cardinality(Busy(c)') < Budget
         \/ Cardinality(Busy(c)') = Cardinality(Busy(c)) - 1
  PROVE  BoundedOf(c)'
<1>1. /\ Len(ran'[c]) = Len(ran[c]) + 1 /\ Len(ran[c]) \in Nat
      /\ \A k \in 1..Len(ran[c]) : ran'[c][k] = ran[c][k]
  BY TriedMore, CallOf
<1> SUFFICES ASSUME NEW k \in 1..(Len(ran[c]) + 1), Outcome(c, ran[c][k])' # "ok"
             PROVE  Len(ran[c]) + 1 - k + Cardinality(Busy(c)') < Budget
  BY <1>1 DEF BoundedOf
<1>2. /\ Cardinality(Busy(c)) \in Nat /\ Cardinality(Busy(c)) <= Budget
      /\ Cardinality(Busy(c)') \in Int /\ Cardinality(Busy(c)') < Budget
  <2>1. Cardinality(Busy(c)) \in Nat /\ Cardinality(Busy(c)) <= Budget
    BY BusyFinite
  <2>2. Cardinality(Busy(c)') \in Nat
    <3>1. IsFiniteSet(Workers)
      BY PmapAssumption, FS_Interval DEF Workers
    <3>2. Busy(c)' \in SUBSET Workers
      BY DEF Busy, Workers
    <3> QED
      BY <3>1, <3>2, FS_Subset, FS_CardinalityType
  <2> QED
    BY <2>1, <2>2, PmapAssumption
<1>3. CASE k = Len(ran[c]) + 1
  BY <1>1, <1>2, <1>3
<1>4. CASE k \in 1..Len(ran[c])
  <2>1. ran'[c][k] = ran[c][k] /\ Ready(c, ran[c][k])
    BY <1>1, <1>4, TriedAt
  <2>2. Outcome(c, ran[c][k]) # "ok"
    <3>1. \A j : Ready(c, j) => Outcome(c, j)' = Outcome(c, j)
      BY OutcomeKept
    <3> QED
      BY <2>1, <3>1 DEF Outcome
  <2>3. cancelled[c] /\ Len(ran[c]) - k + Cardinality(Busy(c)) < Budget
    BY <1>4, <2>2, TriedAt DEF Bounded, BoundedOf
  <2>4. Cardinality(Busy(c)') = Cardinality(Busy(c)) - 1
    BY <2>3
  <2> QED
    BY <1>1, <1>2, <2>3, <2>4, PmapAssumption
<1> QED
  BY <1>1, <1>3, <1>4

LEMMA BoundedStep == Base /\ Handed /\ Recorded /\ Bounded /\ [PmapNext]_pmapVars => Bounded'
<1> SUFFICES ASSUME Base, Handed, Recorded, Bounded, [PmapNext]_pmapVars, NEW c \in Calls PROVE BoundedOf(c)'
  BY DEF Bounded
<1>0. CASE ran'[c] = ran[c] /\ worker'[c] = worker[c]
  BY <1>0, BoundedAlone DEF Busy, Workers
<1>1. CASE UNCHANGED pmapVars
  BY <1>0, <1>1 DEF pmapVars, work
<1>2. ASSUME NEW d \in Calls, Caller(d), ~ApplyHere(d)
      PROVE  BoundedOf(c)'
  <2>1. CASE Launch(c)
    <3>1. ran'[c] = ran[c] /\ ~cancelled[c]
      BY <2>1, CallOf DEF Launch, StepOf
    <3> QED
      BY <3>1, BoundedAlone
  <2>2. CASE ~Launch(c)
    <3>1. ran' = ran /\ worker'[c] = worker[c]
      BY <1>2, <2>2, SMTT(30) DEF Caller, Begin, Acquire, RunHere, Launch, SnapshotFails, Collect, CollectHere, Leave,
                        work, Base, Types
    <3> QED
      BY <1>0, <3>1
  <2> QED
    BY <2>1, <2>2
<1>3. ASSUME NEW d \in Calls, NEW w \in Workers, Take(d, w) \/ Exit(d, w) \/ Done(d, w)
      PROVE  BoundedOf(c)'
  <2>1. ran' = ran
    BY <1>3 DEF Take, Exit, Done
  <2>2. cancelled[c] => Busy(c)' \subseteq Busy(c)
    <3>1. \/ worker' = worker
          \/ \E s \in {"exited", "done"} : worker' = [worker EXCEPT ![d][w] = s]
          \/ ~cancelled[d] /\ worker' = [worker EXCEPT ![d][w] = "busy"]
      BY <1>3 DEF Take, Exit, Done
    <3>2. worker \in [Calls -> [Workers -> {"none", "idle", "busy", "exited", "done"}]]
      BY DEF Base, Types
    <3>3. ASSUME NEW s \in {"exited", "done"}, worker' = [worker EXCEPT ![d][w] = s]
          PROVE  \A v \in Workers : worker'[c][v] = "busy" => worker[c][v] = "busy"
      BY <3>2, <3>3
    <3>4. cancelled[c] => \A v \in Workers : worker'[c][v] = "busy" => worker[c][v] = "busy"
      BY <3>1, <3>2, <3>3
    <3> QED
      BY <3>4 DEF Busy, Workers
  <2> QED
    BY <2>1, <2>2, BoundedAlone
<1>4. ASSUME NEW d \in Calls, ApplyHere(d)
      PROVE  BoundedOf(c)'
  <2>1. CASE d = c
    <3>1. worker' = worker /\ \A w \in Workers : worker[c][w] = "none"
      BY <1>4, <2>1, CallOf DEF ApplyHere, StepOf
    <3>2. Busy(c)' = {}
      BY <3>1 DEF Busy, Workers
    <3>3. Cardinality(Busy(c)') < Budget
      BY <3>2, FS_EmptySet, PmapAssumption
    <3> QED
      BY <1>4, <2>1, <3>3, BoundedMore DEF ApplyHere
  <2>2. CASE d # c
    BY <1>0, <1>4, <2>2 DEF ApplyHere, Applied, Base, Types
  <2> QED
    BY <2>1, <2>2
<1>5. ASSUME NEW d \in Calls, NEW w \in Workers, Apply(d, w)
      PROVE  BoundedOf(c)'
  <2>1. CASE d = c
    <3>1. Busy(c)' = Busy(c) \ {w} /\ w \in Busy(c)
      BY <1>5, <2>1, ZenonT(40) DEF Apply, Busy, Workers, Base, Types
    <3>2. Cardinality(Busy(c)') = Cardinality(Busy(c)) - 1
      BY <3>1, BusyFinite, FS_RemoveElement
    <3> QED
      BY <1>5, <2>1, <3>2, BoundedMore DEF Apply
  <2>2. CASE d # c
    BY <1>0, <1>5, <2>2 DEF Apply, Applied, Base, Types
  <2> QED
    BY <2>1, <2>2
<1> QED
  BY <1>1, <1>2, <1>3, <1>4, <1>5 DEF PmapNext, Worker

-----------------------------------------------------------------------------
(* The abstract map.                                                          *)

\* The abstract map reads the program the same way.
LEMMA SameReading ==
  /\ \A c, i : (Map!Outcome(c, i) = Outcome(c, i)) /\ (Map!Ready(c, i) <=> Ready(c, i))
  /\ \A c : Map!Applied(c) = Tried(c)
  BY DEF Map!Outcome, Map!Ready, Map!Applied, Outcome, Ready, Tried

\* An item is applied in a place where the abstract map may apply it.
LEMMA MapApplies ==
  ASSUME Base, Recorded, Bounded, NEW c \in Calls, NEW i \in Items(c) \ Tried(c), Working(c),
         Applied(c, i), UNCHANGED <<what, result>>,
         ~cancelled[c] \/ Cardinality(Busy(c)) > 0
  PROVE  Map!Next
<1>1. result[c] = Pending
  BY CallOf DEF StepOf, Working
<1>2. Map!Heeded(c)
  <2> SUFFICES ASSUME NEW k \in 1..Len(ran[c]), Outcome(c, ran[c][k]) # "ok"
               PROVE  Len(ran[c]) - k < Budget - 1
    <3>1. DOMAIN ran[c] = 1..Len(ran[c])
      BY CallOf
    <3> QED
      BY <3>1, SameReading DEF Map!Heeded
  <2>1. cancelled[c]
    BY TriedAt
  <2>2. Len(ran[c]) - k + Cardinality(Busy(c)) < Budget
    BY DEF Bounded, BoundedOf
  <2>3. Len(ran[c]) \in Nat
    BY CallOf
  <2> QED
    BY <2>1, <2>2, <2>3, BusyFinite, PmapAssumption
<1>3. Map!Apply(c, i)
  BY <1>1, <1>2, SameReading DEF Map!Apply, Applied
<1> QED
  BY <1>3 DEF Map!Next, Items

\* A call whose items are all handed out and come to an end answers what the
\* abstract map allows.
LEMMA VerdictAllowed ==
  ASSUME Base, Handed, Recorded, NEW c \in Calls, Working(c), jobs[c] = <<>> \/ cancelled[c],
         \A w \in Workers : worker[c][w] # "busy"
  PROVE  Verdict(c) \in Map!Answers(c)
<1>1. RecordedOf(c) /\ HandedOf(c)
  BY DEF Recorded, Handed
<1>2. \A how : Map!Failed(c, how) = {i \in Tried(c) : Outcome(c, i) = how}
  BY SameReading DEF Map!Failed
<1>3. CASE firstErr[c] # 0
  BY <1>1, <1>2, <1>3 DEF RecordedOf, Verdict, Map!Answers
<1>4. CASE firstErr[c] = 0 /\ errVal[c] # 0
  <2>1. Map!Failed(c, "abort") = {}
    BY <1>1, <1>2, <1>4 DEF RecordedOf
  <2> QED
    BY <1>1, <1>2, <1>4, <2>1 DEF RecordedOf, Verdict, Map!Answers
<1>5. CASE firstErr[c] = 0 /\ errVal[c] = 0
  <2>1. Map!Failed(c, "abort") = {} /\ Map!Failed(c, "err") = {}
    BY <1>1, <1>2, <1>5 DEF RecordedOf
  <2>2. ~cancelled[c] /\ jobs[c] = <<>>
    BY <1>1, <1>5 DEF RecordedOf
  <2>3. Given(c) = Len(what[c]) /\ Items(c) = 1..Len(what[c])
    <3>1. Len(jobs[c]) = 0 /\ Len(what[c]) \in Nat /\ Items(c) = 1..Len(what[c])
      BY <2>2, ItemsOf DEF Base
    <3> QED
      BY <3>1 DEF Given
  <2>4. Tried(c) = Items(c)
    BY <1>1, <2>2, <2>3 DEF HandedOf
  <2>5. \A i \in Items(c) : out[c][i] = i
    BY <1>1, <2>2, <2>4 DEF RecordedOf
  <2>6. out[c] = [i \in Items(c) |-> i]
    <3>1. out[c] \in [Items(c) -> Nat]
      BY CallOf
    <3> QED
      BY <2>5, <3>1
  <2> QED
    BY <1>5, <2>1, <2>4, <2>6, SameReading DEF Verdict, Map!Answers, Items
<1> QED
  BY <1>3, <1>4, <1>5

LEMMA MapAnswers ==
  ASSUME Base, Handed, Recorded, NEW c \in Calls,
         (Begin(c) /\ Items(c) = {}) \/ SnapshotFails(c) \/ Collect(c) \/ CollectHere(c)
  PROVE  Map!Next
<1>1. what' = what /\ ran' = ran /\ step[c] # "ended"
  BY DEF Begin, SnapshotFails, Collect, CollectHere, work
<1>2. result[c] = Pending
  BY <1>1, CallOf DEF StepOf
<1>3. \E r \in Map!Answers(c) \cup (IF ran[c] = <<>> THEN {<<"err", 0>>} ELSE {}) :
        result' = [result EXCEPT ![c] = r]
  <2>1. CASE Begin(c) /\ Items(c) = {}
    <3>1. ran[c] = <<>> /\ step[c] = "new"
      BY <2>1, CallOf DEF Begin, StepOf
    <3>2. Tried(c) = {}
      BY <3>1 DEF Tried
    <3>3. Map!Failed(c, "abort") = {} /\ Map!Failed(c, "err") = {}
      BY <3>2, SameReading DEF Map!Failed
    <3>4. [i \in Items(c) |-> i] = <<>>
      BY <2>1
    <3>5. <<"ok", <<>> >> \in Map!Answers(c)
      BY <2>1, <3>2, <3>3, <3>4, SameReading DEF Map!Answers, Items
    <3> QED
      BY <2>1, <3>5 DEF Begin
  <2>2. CASE SnapshotFails(c)
    <3>1. ran[c] = <<>>
      BY <2>2, CallOf DEF SnapshotFails, StepOf
    <3> QED
      BY <2>2, <3>1 DEF SnapshotFails, Answer
  <2>3. CASE Collect(c)
    <3>1. Working(c) /\ jobs[c] = <<>> /\ \A w \in Workers : worker[c][w] # "busy"
      BY <2>3, CallOf DEF Collect, Working, StepOf
    <3> QED
      BY <2>3, <3>1, VerdictAllowed DEF Collect, Answer
  <2>4. CASE CollectHere(c)
    <3>1. /\ Working(c) /\ (jobs[c] = <<>> \/ cancelled[c])
          /\ \A w \in Workers : worker[c][w] # "busy"
      BY <2>4, CallOf DEF CollectHere, Working, StepOf
    <3> QED
      BY <2>4, <3>1, VerdictAllowed DEF CollectHere, Answer
  <2> QED
    BY <2>1, <2>2, <2>3, <2>4
<1>4. Map!Answer(c)
  BY <1>1, <1>2, <1>3 DEF Map!Answer
<1> QED
  BY <1>4 DEF Map!Next

LEMMA MapStep ==
  Base /\ Handed /\ Recorded /\ Bounded /\ [PmapNext]_pmapVars => [Map!Next]_(Map!vars)
<1> SUFFICES ASSUME Base, Handed, Recorded, Bounded, [PmapNext]_pmapVars
             PROVE  Map!Next \/ UNCHANGED <<what, ran, result>>
  BY DEF Map!vars
<1>1. ASSUME NEW c \in Calls, ApplyHere(c)
      PROVE  Map!Next
  BY <1>1, FreshItem, MapApplies DEF ApplyHere
<1>2. ASSUME NEW c \in Calls, NEW w \in Workers, Apply(c, w)
      PROVE  Map!Next
  <2>1. w \in Busy(c)
    BY <1>2 DEF Apply, Busy
  <2>2. Cardinality(Busy(c)) > 0
    BY <2>1, BusyFinite, FS_EmptySet
  <2> QED
    BY <1>2, <2>2, FreshItem, MapApplies DEF Apply
<1>3. ASSUME NEW c \in Calls, Caller(c)
      PROVE  Map!Next \/ UNCHANGED <<what, ran, result>>
  BY <1>1, <1>3, MapAnswers DEF Caller, Begin, Acquire, RunHere, Launch, Leave, work
<1>4. ASSUME NEW c \in Calls, NEW w \in Workers, Worker(c, w)
      PROVE  Map!Next \/ UNCHANGED <<what, ran, result>>
  BY <1>2, <1>4 DEF Worker, Take, Exit, Done
<1> QED
  BY <1>3, <1>4 DEF PmapNext, pmapVars, work

\* However the workers share out the items, and however few of them there are,
\* every call answers what the abstract map allows: each item applied once, the
\* results in the order of the items, an abort never downgraded to an Err, and
\* after a failure only the callbacks that were under way.
THEOREM Implements == PmapSpec => ImplementsMap
<1>1. PmapInit => Base /\ Handed /\ Recorded /\ Bounded /\ Map!Init
  BY BaseStart, HandedStart, RecordedStart, BoundedStart DEF PmapInit, Map!Init
<1>2. Base /\ Handed /\ Recorded /\ Bounded /\ [PmapNext]_pmapVars => (Base /\ Handed /\ Recorded /\ Bounded)'
  BY BaseStep, HandedStep, RecordedStep, BoundedStep
<1> QED
  BY <1>1, <1>2, MapStep, PTL DEF PmapSpec, ImplementsMap, Map!Spec
-----------------------------------------------------------------------------
(* No call is stuck, and none goes on for ever.                               *)

\* What the guards of a call's own actions ask for, before its last one ...
CallerCan(c) ==
  \/ step[c] = "new" /\ Called(c)
  \/ /\ step[c] = "acquiring"
     /\ (got[c] < Wanted(c) /\ slots < Budget) \/ Saturated(c) \/ Acquired(c)
  \/ step[c] = "parallel" /\ \A w \in Workers : worker[c][w] \in {"none", "done"}
  \/ step[c] = "sequential" /\ jobs[c] # <<>> /\ ~cancelled[c] /\ Ready(c, Head(jobs[c]))
  \/ step[c] = "sequential" /\ (jobs[c] = <<>> \/ cancelled[c])

\* ... and those of its workers.
WorkerCan(c, w) ==
  \/ worker[c][w] \in {"idle", "exited"}
  \/ worker[c][w] = "busy" /\ Ready(c, item[c][w])

\* While a call is under way, a call or a worker of one can take a step.
NeverStuck ==
  (\E c \in Calls : Active(c)) =>
    \E c \in Calls : CallerCan(c) \/ \E w \in Workers : WorkerCan(c, w)

\* One callback makes a call, on one item, and a call that ended has answered.
Single ==
  \A c, d \in Calls : \A i \in Items(c), j \in Items(d) :
    what[c][i] \in Calls /\ what[c][i] = what[d][j] => c = d /\ i = j
Answered == \A c \in Calls : step[c] = "ended" => result[c] # Pending

\* A call that acquires has items, and no more slots than it wants.
Gathering == \A c \in Calls : step[c] = "acquiring" => Items(c) # {} /\ got[c] <= Wanted(c)

Going == Handed /\ Rooted /\ Single /\ Answered /\ Gathering

LEMMA SingleStart == PmapInit => Single /\ Answered /\ Gathering
<1> SUFFICES ASSUME PmapInit PROVE Single
  BY DEF PmapInit, Answered, Gathering
<1> QED
  BY PmapAssumption DEF PmapInit, Single, Items

\* An answer is no pending one.
LEMMA AnswerIsOne ==
  ASSUME Base, NEW c \in Calls
  PROVE  Verdict(c) # Pending /\ <<"err", 0>> # Pending /\ <<"ok", <<>> >> # Pending
<1>1. \A r \in Ways \X (Nat \cup Seq(Nat)) : r # Pending
  BY PmapAssumption DEF Ways
<1>2. <<"err", 0>> \in Ways \X (Nat \cup Seq(Nat))
  BY DEF Ways
<1>3. <<"ok", <<>> >> \in Ways \X (Nat \cup Seq(Nat))
  <2>1. <<>> \in Seq(Nat)
    OBVIOUS
  <2> QED
    BY <2>1 DEF Ways
<1>4. Verdict(c) \in Ways \X (Nat \cup Seq(Nat))
  BY VerdictOf
<1> QED
  BY <1>1, <1>2, <1>3, <1>4

LEMMA SingleStep == Base /\ Single /\ Answered /\ [PmapNext]_pmapVars => Single' /\ Answered'
<1> SUFFICES ASSUME Base, Single, Answered, [PmapNext]_pmapVars PROVE Single' /\ Answered'
  OBVIOUS
<1>1. what' = what
  BY DEF PmapNext, Caller, Worker, Begin, Acquire, RunHere, Launch, SnapshotFails, Collect, ApplyHere,
         CollectHere, Leave, Take, Apply, Exit, Done, pmapVars
<1>2. Single'
  BY <1>1 DEF Single, Items
<1>3. UNCHANGED <<step, result>> => Answered'
  BY DEF Answered
<1>4. ASSUME NEW c \in Calls, RunHere(c) \/ Launch(c)
      PROVE  Answered'
  BY <1>4 DEF RunHere, Launch, Answered, Base, Types
<1>5. ASSUME NEW c \in Calls, Begin(c) \/ SnapshotFails(c) \/ Collect(c) \/ CollectHere(c)
      PROVE  Answered'
  <2>1. \/ result' = result /\ step' = [step EXCEPT ![c] = "acquiring"]
        \/ /\ step' = [step EXCEPT ![c] = "ended"]
           /\ \/ result' = [result EXCEPT ![c] = Verdict(c)]
              \/ result' = [result EXCEPT ![c] = <<"err", 0>>]
              \/ result' = [result EXCEPT ![c] = <<"ok", <<>> >>]
    BY <1>5 DEF Begin, SnapshotFails, Collect, CollectHere, Answer
  <2> QED
    BY <2>1, AnswerIsOne DEF Answered, Base, Types
<1>6. \/ UNCHANGED <<step, result>>
      \/ \E c \in Calls : \/ RunHere(c) \/ Launch(c)
                          \/ Begin(c) \/ SnapshotFails(c) \/ Collect(c) \/ CollectHere(c)
  BY DEF PmapNext, Caller, Worker, Acquire, ApplyHere, Leave, Take, Apply, Exit, Done, pmapVars, pool
<1> QED
  BY <1>2, <1>3, <1>4, <1>5, <1>6

LEMMA GatheringStep == Base /\ Gathering /\ [PmapNext]_pmapVars => Gathering'
<1> SUFFICES ASSUME Base, Gathering, [PmapNext]_pmapVars, NEW c \in Calls, step'[c] = "acquiring"
             PROVE  Items(c)' # {} /\ got'[c] <= Wanted(c)'
  BY DEF Gathering
<1>1. what' = what
  BY DEF PmapNext, Caller, Worker, Begin, Acquire, RunHere, Launch, SnapshotFails, Collect, ApplyHere,
         CollectHere, Leave, Take, Apply, Exit, Done, pmapVars
<1>2. Items(c)' = Items(c) /\ Wanted(c)' = Wanted(c)
  BY <1>1 DEF Items, Wanted
<1>3. CASE step[c] = "acquiring" /\ got'[c] = got[c]
  BY <1>2, <1>3 DEF Gathering
<1>4. CASE Begin(c)
  <2>1. Items(c) # {} /\ got'[c] = 0
    BY <1>4, CallOf, SMTT(30) DEF Begin, StepOf, Base, Types
  <2>2. Wanted(c) \in Nat
    BY ItemsOf, PmapAssumption DEF Wanted, Base
  <2> QED
    BY <1>2, <2>1, <2>2
<1>5. CASE Acquire(c)
  <2>1. step[c] = "acquiring" /\ got'[c] = got[c] + 1 /\ got[c] < Wanted(c)
    BY <1>5 DEF Acquire, Base, Types
  <2>2. Wanted(c) \in Nat /\ got[c] \in Nat
    BY ItemsOf, CallOf, PmapAssumption DEF Wanted, Base
  <2> QED
    BY <1>2, <2>1, <2>2 DEF Gathering
<1>6. ASSUME NEW d \in Calls, d # c,
             Begin(d) \/ Acquire(d) \/ RunHere(d) \/ Launch(d) \/ \E r : Answer(d, r)
      PROVE  step'[c] = step[c] /\ got'[c] = got[c]
  BY <1>6 DEF Begin, Acquire, RunHere, Launch, Answer, Base, Types
<1>7. \/ UNCHANGED <<step, got>>
      \/ \E d \in Calls : Begin(d) \/ Acquire(d) \/ RunHere(d) \/ Launch(d) \/ \E r : Answer(d, r)
  BY DEF PmapNext, Caller, Worker, SnapshotFails, Collect, ApplyHere, CollectHere, Leave,
         Take, Apply, Exit, Done, pmapVars, pool
<1>8. ~RunHere(c) /\ ~Launch(c) /\ ~\E r : Answer(c, r)
  BY DEF RunHere, Launch, Answer, Base, Types
<1> QED
  BY <1>3, <1>4, <1>5, <1>6, <1>7, <1>8

\* A call that cannot step applies an item whose callback waits for a call.
LEMMA StuckWaits ==
  ASSUME Base, Handed, Gathering, slots <= Budget, NEW c \in Calls, Active(c), ~CallerCan(c),
         \A w \in Workers : ~WorkerCan(c, w)
  PROVE  \E i \in Items(c) : Applying(c, i) /\ ~Ready(c, i)
<1>1. /\ Len(what[c]) \in Nat /\ Items(c) = 1..Len(what[c]) /\ got[c] \in 0..Budget
      /\ step[c] \in {"new", "acquiring", "sequential", "parallel", "ended"}
  BY ItemsOf, CallOf DEF Base
<1>2. CASE step[c] = "acquiring"
  <2>1. ~(got[c] < Wanted(c) /\ slots < Budget) /\ ~Saturated(c) /\ ~Acquired(c)
    BY <1>2 DEF CallerCan
  <2>2. slots \in Int /\ Budget \in Nat
    BY PmapAssumption DEF Base, Types
  <2>3. Items(c) # {} /\ slots <= Budget /\ got[c] <= Wanted(c)
    BY <1>2 DEF Gathering
  <2>4. \A n, g, b, s \in Int :
          LET m == IF b > n THEN n ELSE b
          IN  n > 0 /\ b > 0 /\ g >= 0 /\ s <= b /\ g <= m /\ ~(g < m /\ s < b) /\ ~(g = 0 /\ s = b)
              => g > 0 /\ (g = m \/ s = b)
    OBVIOUS
  <2>5. Len(what[c]) > 0 /\ got[c] >= 0 /\ got[c] \in Int /\ Budget > 0
    BY <1>1, <2>3, PmapAssumption
  <2>6. got[c] > 0 /\ (got[c] = Wanted(c) \/ slots = Budget)
    BY <1>1, <2>1, <2>2, <2>3, <2>4, <2>5 DEF Saturated, Wanted
  <2> QED
    BY <2>1, <2>6 DEF Acquired
<1>3. CASE step[c] = "sequential"
  <2>1. jobs[c] # <<>> /\ ~cancelled[c] /\ ~Ready(c, Head(jobs[c]))
    BY <1>3 DEF CallerCan
  <2>2. Head(jobs[c]) \in Items(c)
    BY <1>3, <2>1, NextItem DEF Working
  <2> QED
    BY <1>3, <2>1, <2>2 DEF Applying
<1>4. CASE step[c] = "parallel"
  <2>1. PICK w \in Workers : worker[c][w] \notin {"none", "done"}
    BY <1>4 DEF CallerCan
  <2>2. worker[c][w] = "busy" /\ ~Ready(c, item[c][w])
    BY <2>1, CallOf DEF WorkerCan
  <2>3. item[c][w] \in Items(c)
    <3>1. item[c][w] \in 1..Given(c)
      BY <1>4, <2>2 DEF Handed, HandedOf, Working
    <3>2. Given(c) <= Len(what[c]) /\ Given(c) \in Int
      <4>1. Len(jobs[c]) \in Nat
        BY CallOf
      <4>2. \A n, m \in Nat : n - m <= n /\ n - m \in Int
        OBVIOUS
      <4> QED
        BY <1>1, <4>1, <4>2 DEF Given
    <3> QED
      BY <1>1, <3>1, <3>2
  <2> QED
    BY <2>2, <2>3 DEF Applying
<1> QED
  BY <1>1, <1>2, <1>3, <1>4 DEF Active

\* When nobody can step, every call under way waits for another one.
LEMMA StuckWaitsForCall ==
  ASSUME Base, Going, slots <= Budget, NEW c \in Calls, Active(c),
         \A b \in Calls : ~CallerCan(b) /\ \A w \in Workers : ~WorkerCan(b, w)
  PROVE  \E d \in Calls : Active(d) /\ \E i \in Items(c) : what[c][i] = d
<1>1. PICK i \in Items(c) : Applying(c, i) /\ ~Ready(c, i)
  BY StuckWaits DEF Going
<1>2. what[c][i] \in Calls /\ result[what[c][i]] = Pending
  BY <1>1 DEF Ready
<1>3. step[what[c][i]] # "ended"
  BY <1>2 DEF Going, Answered
<1>4. step[what[c][i]] # "new"
  <2>1. Called(what[c][i])
    BY <1>1 DEF Called
  <2> QED
    BY <1>2, <2>1 DEF CallerCan
<1>5. Active(what[c][i])
  BY <1>2, <1>3, <1>4, CallOf DEF Active
<1> QED
  BY <1>2, <1>5

\* Were nobody able to step, the calls under way would each be made by another
\* of them; but of any of them one was made from outside.
LEMMA SomeoneCan == Base /\ SlotsAreHeld /\ Going => NeverStuck
<1> SUFFICES ASSUME Base, SlotsAreHeld, Going, NEW a \in Calls, Active(a),
                    \A b \in Calls : ~CallerCan(b) /\ \A w \in Workers : ~WorkerCan(b, w)
             PROVE  FALSE
  BY DEF NeverStuck
<1> DEFINE S == {c \in Calls : Active(c)}
           Made(c, d) == \E i \in Items(c) : what[c][i] = d
           f == [c \in S |-> CHOOSE d \in S : Made(c, d)]
<1>1. \A c \in S : \E d \in S : Made(c, d)
  BY StuckWaitsForCall DEF SlotsAreHeld
<1>2. \A c \in S : f[c] \in S /\ Made(c, f[c])
  BY <1>1
<1>3. \A c \in Calls, e \in Calls, d \in Calls : Made(c, d) /\ Made(e, d) => c = e
  BY DEF Going, Single
<1> HIDE DEF Made
<1>4. f \in [S -> S] /\ \A c, e \in S : f[c] = f[e] => c = e
  BY <1>2, <1>3
<1>5. f \in Injection(S, S)
  BY <1>4, Fun_IsInj
<1>6. IsFiniteSet(S)
  BY PmapAssumption, FS_Subset
<1>7. f \in Surjection(S, S)
  BY <1>5, <1>6, FS_Injection
<1>8. \A d \in S : \E c \in S : f[c] = d
  BY <1>7 DEF Surjection
<1>9. \A d \in S : \E c \in S : Made(c, d)
  BY <1>2, <1>8
<1>10. PICK d \in S : \/ d \in TopCalls
                      \/ \E c \in Calls \ S : \E i \in Items(c) : what[c][i] = d /\ Applying(c, i)
  BY DEF Going, Rooted
<1>11. PICK c \in S : Made(c, d)
  BY <1>9
<1>12. d \notin TopCalls
  BY <1>11 DEF TopCalls, Nested, Made
<1>13. \A e \in Calls : Made(e, d) => e = c
  BY <1>3, <1>11
<1> QED
  BY <1>10, <1>11, <1>12, <1>13 DEF Made

\* "Without a nested semaphore deadlock" (hofPmapContext): whatever calls are
\* nested in which, and however small the budget they share, while a call is
\* under way one of the calls or workers can step.  Nobody waits for a slot, and
\* of the calls that wait for a nested one the innermost waits for none.
THEOREM PmapIsNeverStuck == PmapSpec => []NeverStuck
<1>1. PmapInit => Base /\ SlotsAreHeld /\ Going
  BY BaseStart, SlotsStart, HandedStart, RootedStart, SingleStart DEF Going
<1>2. Base /\ SlotsAreHeld /\ Going /\ [PmapNext]_pmapVars => (Base /\ SlotsAreHeld /\ Going)'
  BY BaseStep, SlotsStep, HandedStep, RootedStep, SingleStep, GatheringStep DEF Going
<1> QED
  BY <1>1, <1>2, SomeoneCan, PTL DEF PmapSpec

\* The steps a call has left: to begin, to take each slot, to start, to hand out
\* each item and have it applied, to end each worker twice over, to return, and
\* to leave.
Stages == {"begin", "slot", "start", "hand", "apply", "exit", "done", "return", "leave"}
Waiting(c) == step[c] \in {"new", "acquiring"}
Left(c, stage, n) ==
  \/ stage = "begin" /\ n = 0 /\ step[c] = "new"
  \/ stage = "start" /\ n = 0 /\ Waiting(c)
  \/ stage = "slot" /\ n \in Workers /\ n > got[c] /\ Waiting(c)
  \/ stage = "hand" /\ n \in Items(c) /\ step[c] # "ended" /\ (Working(c) => n > Given(c))
  \/ stage = "apply" /\ n \in Items(c) /\ step[c] # "ended" /\ n \notin Tried(c)
  \/ stage = "exit" /\ n \in Workers /\ step[c] # "ended" /\ worker[c][n] \notin {"exited", "done"}
  \/ stage = "done" /\ n \in Workers /\ step[c] # "ended" /\ worker[c][n] # "done"
  \/ stage = "return" /\ n = 0 /\ step[c] # "ended"
  \/ stage = "leave" /\ n = 0 /\ c \notin gone

Places == {0} \cup Workers \cup UNION {Items(c) : c \in Calls}
Ahead == {p \in Calls \X Stages \X Places : Left(p[1], p[2], p[3])}

\* Every step uses up one of the steps ahead and adds none.
StepsRunOut == [][Ahead' \subseteq Ahead /\ Ahead' # Ahead]_pmapVars

LEMMA AheadFinite ==
  ASSUME Base
  PROVE  IsFiniteSet(Ahead)
<1> DEFINE R == {Items(c) : c \in Calls}
           f == [c \in Calls |-> Items(c)]
<1>1. f \in Surjection(Calls, R)
  BY DEF Surjection
<1>2. IsFiniteSet(R)
  BY <1>1, PmapAssumption, FS_Surjection
<1>3. \A T \in R : IsFiniteSet(T)
  <2> SUFFICES ASSUME NEW c \in Calls PROVE IsFiniteSet(Items(c))
    OBVIOUS
  <2> QED
    BY ItemsOf, FS_Interval DEF Base
<1>4. IsFiniteSet(UNION R)
  BY <1>2, <1>3, FS_UNION
<1>5. IsFiniteSet(Workers) /\ IsFiniteSet({0})
  <2>1. Budget \in Int
    BY PmapAssumption
  <2>2. IsFiniteSet(1..Budget)
    BY <2>1, FS_Interval
  <2>3. IsFiniteSet({0})
    BY FS_Singleton
  <2> QED
    BY <2>2, <2>3 DEF Workers
<1>6. IsFiniteSet(Places)
  BY <1>4, <1>5, FS_Union DEF Places
<1>7. IsFiniteSet(Stages)
  <2>1. IsFiniteSet({"begin", "slot", "start"}) /\ IsFiniteSet({"hand", "apply", "exit"})
        /\ IsFiniteSet({"done", "return", "leave"})
    <3>1. \A x, y, z : IsFiniteSet({x, y, z})
      <4> TAKE x, y, z
      <4>1. IsFiniteSet({x} \cup {y} \cup {z})
        BY FS_Singleton, FS_Union
      <4> QED
        BY <4>1
    <3> QED
      BY <3>1
  <2>2. Stages = {"begin", "slot", "start"} \cup {"hand", "apply", "exit"} \cup {"done", "return", "leave"}
    BY DEF Stages
  <2> QED
    BY <2>1, <2>2, FS_Union
<1>8. IsFiniteSet(Stages \X Places)
  BY <1>6, <1>7, FS_Product
<1>9. IsFiniteSet(Calls \X (Stages \X Places))
  BY <1>8, PmapAssumption, FS_Product
<1>10. IsFiniteSet(Calls \X Stages \X Places)
  <2> DEFINE U == Calls \X Stages \X Places
             V == Calls \X (Stages \X Places)
             g == [p \in U |-> <<p[1], <<p[2], p[3]>> >>]
  <2>1. g \in [U -> V] /\ \A p, q \in U : g[p] = g[q] => p = q
    OBVIOUS
  <2>2. g \in Injection(U, V)
    BY <2>1, Fun_IsInj
  <2> QED
    BY <1>9, <2>2, FS_Injection
<1> QED
  BY <1>10, FS_Subset DEF Ahead

\* A call goes forward only.
Onward(c) ==
  /\ step'[c] = "new" => step[c] = "new"
  /\ step'[c] \in {"new", "acquiring"} => Waiting(c) /\ got[c] <= got'[c]
  /\ step'[c] # "ended" => step[c] # "ended"
  /\ Working(c) /\ step'[c] # "ended" => Working(c)' /\ Given(c) <= Given(c)'
  /\ Tried(c) \subseteq Tried(c)'
  /\ \A w \in Workers :
       /\ worker'[c][w] \notin {"exited", "done"} => worker[c][w] \notin {"exited", "done"}
       /\ worker'[c][w] # "done" => worker[c][w] # "done"
  /\ c \in gone => c \in gone'

LEMMA LeftBefore ==
  ASSUME what' = what, NEW c \in Calls, Onward(c), Base, Base', NEW s \in Stages, NEW n \in Places, Left(c, s, n)'
  PROVE  Left(c, s, n)
<1>1. Items(c)' = Items(c) /\ Workers' = Workers
  BY DEF Items, Workers
<1>2. /\ step[c] \in {"new", "acquiring", "sequential", "parallel", "ended"}
      /\ step'[c] \in {"new", "acquiring", "sequential", "parallel", "ended"}
  BY DEF Base, Types
<1>3. ASSUME s = "slot", n \in Workers, n > got'[c], Waiting(c)'
      PROVE  n > got[c]
  <2>1. got[c] <= got'[c] /\ got[c] \in Int /\ got'[c] \in Int /\ n \in Int
    BY <1>3 DEF Onward, Waiting, Base, Types, Workers
  <2> QED
    BY <1>3, <2>1
<1>4. ASSUME s = "hand", n \in Items(c), step'[c] # "ended", Working(c)' => n > Given(c)', Working(c)
      PROVE  n > Given(c)
  <2>1. n > Given(c)' /\ Given(c) <= Given(c)'
    BY <1>4 DEF Onward
  <2>2. Len(what[c]) \in Nat /\ Len(jobs[c]) \in Nat
    BY ItemsOf, CallOf DEF Base
  <2>3. Len(jobs'[c]) \in Nat
    <3>1. jobs'[c] \in Seq(Nat)
      BY DEF Base, Types
    <3> QED
      BY <3>1
  <2>5. Given(c) \in Int /\ Given(c)' \in Int
    BY <2>2, <2>3 DEF Given
  <2>4. n \in Int
    BY <1>4, ItemsOf DEF Base
  <2> QED
    BY <2>1, <2>4, <2>5
<1> QED
  BY <1>1, <1>2, <1>3, <1>4 DEF Left, Onward, Waiting, Working

\* What a step leaves of a call that is not the one it is a step of.
LEMMA OthersStay ==
  ASSUME Base, NEW c \in Calls, Caller(c) \/ \E w \in Workers : Worker(c, w), NEW d \in Calls, d # c
  PROVE  /\ step'[d] = step[d] /\ got'[d] = got[d] /\ jobs'[d] = jobs[d] /\ worker'[d] = worker[d]
         /\ ran'[d] = ran[d] /\ gone \subseteq gone'
<1>1. ASSUME Caller(c)
      PROVE  /\ step'[d] = step[d] /\ got'[d] = got[d] /\ jobs'[d] = jobs[d] /\ worker'[d] = worker[d]
             /\ ran'[d] = ran[d] /\ gone \subseteq gone'
  <2>1. /\ step' = step \/ \E x : step' = [step EXCEPT ![c] = x]
        /\ got' = got \/ \E x : got' = [got EXCEPT ![c] = x]
        /\ jobs' = jobs \/ \E x : jobs' = [jobs EXCEPT ![c] = x]
        /\ worker' = worker \/ \E x : worker' = [worker EXCEPT ![c] = x]
        /\ ran' = ran \/ \E x : ran' = [ran EXCEPT ![c] = x]
        /\ gone \subseteq gone'
    BY <1>1 DEF Caller, Begin, Acquire, RunHere, Launch, SnapshotFails, Collect, ApplyHere, Applied,
                CollectHere, Leave, Answer, pool, work
  <2>2. /\ DOMAIN step = Calls /\ DOMAIN got = Calls /\ DOMAIN jobs = Calls
        /\ DOMAIN worker = Calls /\ DOMAIN ran = Calls
    BY DEF Base, Types
  <2>3. \A g, h : DOMAIN g = Calls /\ (h = g \/ \E x : h = [g EXCEPT ![c] = x]) => h[d] = g[d]
    OBVIOUS
  <2> QED
    BY <2>1, <2>2, <2>3
<1>2. ASSUME NEW w \in Workers, Worker(c, w)
      PROVE  /\ step'[d] = step[d] /\ got'[d] = got[d] /\ jobs'[d] = jobs[d] /\ worker'[d] = worker[d]
             /\ ran'[d] = ran[d] /\ gone \subseteq gone'
  <2>1. /\ step' = step /\ got' = got /\ gone' = gone
        /\ jobs' = jobs \/ \E x : jobs' = [jobs EXCEPT ![c] = x]
        /\ worker' = worker \/ \E x : worker' = [worker EXCEPT ![c][w] = x]
        /\ ran' = ran \/ \E x : ran' = [ran EXCEPT ![c] = x]
    BY <1>2 DEF Worker, Take, Apply, Exit, Done, Applied, pool
  <2> QED
    BY <2>1 DEF Base, Types
<1> QED
  BY <1>1, <1>2

\* The call a step belongs to goes forward, and has one step less to go.
OneLess(c) ==
  Onward(c) /\ \E s \in Stages, n \in Places : Left(c, s, n) /\ ~Left(c, s, n)'

LEMMA CallerUses ==
  ASSUME Base, NEW c \in Calls,
         Begin(c) \/ Acquire(c) \/ RunHere(c) \/ Launch(c) \/ SnapshotFails(c) \/ Collect(c)
         \/ CollectHere(c) \/ Leave(c)
  PROVE  OneLess(c)
<1>1. 0 \in Places /\ Workers \subseteq Places /\ Workers' = Workers
  BY DEF Places, Workers
<1>2. StepOf(c) /\ got[c] \in 0..Budget
  BY CallOf
<1>3. CASE Begin(c)
  <2>1. /\ step[c] = "new" /\ step'[c] \in {"ended", "acquiring"} /\ got' = got /\ worker' = worker
        /\ ran' = ran /\ gone' = gone
    BY <1>3 DEF Begin, work, Base, Types
  <2>2. Onward(c)
    BY <2>1, <1>2 DEF Onward, Working, Waiting, Tried
  <2>3. Left(c, "begin", 0) /\ ~Left(c, "begin", 0)'
    BY <2>1 DEF Left
  <2> QED
    BY <1>1, <2>2, <2>3 DEF OneLess, Stages
<1>4. CASE Acquire(c)
  <2>1. /\ step[c] = "acquiring" /\ step' = step /\ got'[c] = got[c] + 1 /\ worker' = worker
        /\ ran' = ran /\ gone' = gone /\ got[c] < Wanted(c)
    BY <1>4 DEF Acquire, work, Base, Types
  <2>2. Wanted(c) \in Nat /\ Wanted(c) <= Budget /\ Budget \in Nat
    BY ItemsOf, PmapAssumption DEF Wanted, Base
  <2>3. got[c] + 1 \in Workers /\ got[c] <= got'[c] /\ got[c] + 1 > got[c] /\ ~(got[c] + 1 > got'[c])
    BY <1>2, <2>1, <2>2 DEF Workers
  <2>4. Onward(c)
    BY <2>1, <2>3 DEF Onward, Working, Waiting, Tried
  <2>5. PICK k \in Workers : k = got[c] + 1
    BY <2>3
  <2>6. Left(c, "slot", k)
    BY <2>1, <2>3, <2>5 DEF Left, Waiting
  <2>7. ~Left(c, "slot", k)'
    BY <2>1, <2>3, <2>5 DEF Left
  <2> QED
    BY <1>1, <2>4, <2>6, <2>7 DEF OneLess, Stages
<1>5. CASE RunHere(c) \/ Launch(c)
  <2>1. /\ step[c] = "acquiring" /\ step'[c] \in {"sequential", "parallel"}
        /\ ran' = ran /\ gone' = gone
    BY <1>5 DEF RunHere, Launch, Base, Types
  <2>2. Onward(c)
    <3>1. \A w \in Workers : worker[c][w] = "none"
      BY <1>2, <2>1 DEF StepOf
    <3> QED
      BY <2>1, <3>1 DEF Onward, Working, Waiting, Tried
  <2>3. Left(c, "start", 0) /\ ~Left(c, "start", 0)'
    BY <2>1 DEF Left, Waiting
  <2> QED
    BY <1>1, <2>2, <2>3 DEF OneLess, Stages
<1>6. CASE SnapshotFails(c) \/ Collect(c) \/ CollectHere(c)
  <2>1. /\ step[c] # "ended" /\ step'[c] = "ended" /\ worker' = worker /\ ran' = ran /\ gone' = gone
    BY <1>6 DEF SnapshotFails, Collect, CollectHere, Answer, work, Base, Types
  <2>2. Onward(c)
    BY <2>1 DEF Onward, Tried
  <2>3. Left(c, "return", 0) /\ ~Left(c, "return", 0)'
    BY <2>1 DEF Left
  <2> QED
    BY <1>1, <2>2, <2>3 DEF OneLess, Stages
<1>7. CASE Leave(c)
  <2>1. /\ step[c] = "ended" /\ step' = step /\ worker' = worker /\ ran' = ran /\ c \notin gone
        /\ gone' = gone \cup {c}
    BY <1>7 DEF Leave, pool, work
  <2>2. Onward(c)
    BY <2>1 DEF Onward, Tried, Working
  <2>3. Left(c, "leave", 0) /\ ~Left(c, "leave", 0)'
    BY <2>1 DEF Left
  <2> QED
    BY <1>1, <2>2, <2>3 DEF OneLess, Stages
<1> QED
  BY <1>3, <1>4, <1>5, <1>6, <1>7

\* Taking the next item hands it out.
LEMMA HandsOut ==
  ASSUME Base, Handed, NEW c \in Calls, Working(c), jobs[c] # <<>>, jobs'[c] = Tail(jobs[c]), what' = what
  PROVE  /\ Given(c)' = Given(c) + 1 /\ Given(c) \in Nat /\ Given(c) + 1 \in Items(c)
         /\ Items(c) \subseteq Places
<1>1. /\ Given(c) \in Nat /\ Given(c) + 1 \in Items(c) /\ Len(Tail(jobs[c])) = Len(jobs[c]) - 1
  BY NextItem
<1>2. Len(jobs[c]) \in Nat /\ Len(what[c]) \in Nat
  BY CallOf, ItemsOf DEF Base
<1>3. Given(c)' = Given(c) + 1
  <2>1. Len(jobs'[c]) = Len(jobs[c]) - 1 /\ Len(what'[c]) = Len(what[c])
    BY <1>1
  <2>2. \A n, m \in Nat : n - (m - 1) = n - m + 1
    OBVIOUS
  <2> QED
    BY <1>2, <2>1, <2>2 DEF Given
<1> QED
  BY <1>1, <1>3 DEF Places

LEMMA WorkUses ==
  ASSUME Base, Handed, NEW c \in Calls, ApplyHere(c) \/ \E w \in Workers : Worker(c, w)
  PROVE  OneLess(c)
<1>1. Workers \subseteq Places /\ Workers' = Workers
  BY DEF Places, Workers
<1>2. CASE ApplyHere(c)
  <2>1. /\ step[c] = "sequential" /\ step' = step /\ worker' = worker /\ gone' = gone /\ got' = got
        /\ jobs[c] # <<>> /\ jobs'[c] = Tail(jobs[c]) /\ what' = what
    BY <1>2 DEF ApplyHere, pool, Base, Types
  <2>2. /\ Given(c)' = Given(c) + 1 /\ Given(c) \in Nat /\ Given(c) + 1 \in Items(c)
        /\ Items(c) \subseteq Places
    BY <2>1, HandsOut DEF Working
  <2>3. Tried(c) \subseteq Tried(c)'
    BY <1>2, TriedMore DEF ApplyHere
  <2>4. Onward(c)
    BY <2>1, <2>2, <2>3 DEF Onward, Working
  <2>5. PICK i \in Items(c) : i = Given(c) + 1
    BY <2>2
  <2>6. Left(c, "hand", i)
    BY <2>1, <2>2, <2>5 DEF Left
  <2>7. ~Left(c, "hand", i)'
    <3>1. Working(c)' /\ ~(i > Given(c)')
      BY <2>1, <2>2, <2>5 DEF Working
    <3> QED
      BY <3>1 DEF Left
  <2> QED
    BY <2>2, <2>4, <2>6, <2>7 DEF OneLess, Stages
<1>3. ASSUME NEW w \in Workers, Take(c, w)
      PROVE  OneLess(c)
  <2>1. /\ step[c] = "parallel" /\ step' = step /\ gone' = gone /\ got' = got /\ ran' = ran
        /\ jobs[c] # <<>> /\ jobs'[c] = Tail(jobs[c]) /\ what' = what /\ worker[c][w] = "idle"
        /\ worker' = worker \/ worker' = [worker EXCEPT ![c][w] = "busy"]
    BY <1>3, WorkersAct DEF Take, pool, Base, Types
  <2>2. /\ Given(c)' = Given(c) + 1 /\ Given(c) \in Nat /\ Given(c) + 1 \in Items(c)
        /\ Items(c) \subseteq Places
    BY <2>1, HandsOut DEF Working
  <2>3. \A v \in Workers : worker'[c][v] = worker[c][v] \/ (worker[c][v] = "idle" /\ worker'[c][v] = "busy")
    BY <2>1 DEF Base, Types
  <2>4. Onward(c)
    BY <2>1, <2>2, <2>3 DEF Onward, Working, Tried
  <2>5. PICK i \in Items(c) : i = Given(c) + 1
    BY <2>2
  <2>6. Left(c, "hand", i)
    BY <2>1, <2>2, <2>5 DEF Left
  <2>7. ~Left(c, "hand", i)'
    <3>1. Working(c)' /\ ~(i > Given(c)')
      BY <2>1, <2>2, <2>5 DEF Working
    <3> QED
      BY <3>1 DEF Left
  <2> QED
    BY <2>2, <2>4, <2>6, <2>7 DEF OneLess, Stages
<1>4. ASSUME NEW w \in Workers, Apply(c, w)
      PROVE  OneLess(c)
  <2>1. /\ step[c] = "parallel" /\ step' = step /\ gone' = gone /\ got' = got
        /\ jobs' = jobs /\ what' = what /\ worker[c][w] = "busy"
        /\ worker' = [worker EXCEPT ![c][w] = "idle"]
    BY <1>4, WorkersAct DEF Apply, pool
  <2>2. Tried(c)' = Tried(c) \cup {item[c][w]}
    BY <1>4, TriedMore DEF Apply
  <2>3. item[c][w] \notin Tried(c) /\ item[c][w] \in 1..Given(c)
    BY <2>1 DEF Handed, HandedOf, Working
  <2>4. item[c][w] \in Items(c) /\ Items(c) \subseteq Places
    <3>1. Len(what[c]) \in Nat /\ Len(jobs[c]) \in Nat /\ Items(c) = 1..Len(what[c])
      BY ItemsOf, CallOf DEF Base
    <3>2. \A n, m \in Nat : 1..(n - m) \subseteq 1..n
      OBVIOUS
    <3>3. 1..Given(c) \subseteq Items(c)
      BY <3>1, <3>2 DEF Given
    <3> QED
      BY <2>3, <3>3 DEF Places
  <2>5. \A v \in Workers : worker'[c][v] = worker[c][v] \/ (worker[c][v] = "busy" /\ worker'[c][v] = "idle")
    BY <2>1 DEF Base, Types
  <2>6. Onward(c)
    <3>1. Given(c)' = Given(c) /\ Given(c) \in Int
      <4>1. Len(what[c]) \in Nat /\ Len(jobs[c]) \in Nat
        BY ItemsOf, CallOf DEF Base
      <4> QED
        BY <2>1, <4>1 DEF Given
    <3> QED
      BY <2>1, <2>2, <2>5, <3>1 DEF Onward, Working
  <2>7. Left(c, "apply", item[c][w])
    BY <2>1, <2>3, <2>4 DEF Left
  <2>8. PICK i \in Items(c) : i = item[c][w]
    BY <2>4
  <2>9. Left(c, "apply", i) /\ ~Left(c, "apply", i)'
    BY <2>2, <2>7, <2>8 DEF Left
  <2> QED
    BY <2>4, <2>6, <2>9 DEF OneLess, Stages
<1>5. ASSUME NEW w \in Workers, Exit(c, w) \/ Done(c, w)
      PROVE  OneLess(c)
  <2>1. /\ step[c] = "parallel" /\ step' = step /\ gone' = gone /\ got' = got /\ ran' = ran
        /\ jobs' = jobs /\ what' = what
        /\ \/ worker[c][w] = "idle" /\ worker' = [worker EXCEPT ![c][w] = "exited"]
           \/ worker[c][w] = "exited" /\ worker' = [worker EXCEPT ![c][w] = "done"]
    BY <1>5, WorkersAct DEF Exit, Done, pool
  <2>2. /\ \A v \in Workers \ {w} : worker'[c][v] = worker[c][v]
        /\ \/ worker[c][w] = "idle" /\ worker'[c][w] = "exited"
           \/ worker[c][w] = "exited" /\ worker'[c][w] = "done"
    BY <2>1 DEF Base, Types
  <2>3. Onward(c)
    <3>1. Given(c)' = Given(c) /\ Given(c) \in Int
      <4>1. Len(what[c]) \in Nat /\ Len(jobs[c]) \in Nat
        BY ItemsOf, CallOf DEF Base
      <4> QED
        BY <2>1, <4>1 DEF Given
    <3> QED
      BY <2>1, <2>2, <3>1 DEF Onward, Working, Waiting, Tried
  <2>4. \/ Left(c, "exit", w) /\ ~Left(c, "exit", w)'
        \/ Left(c, "done", w) /\ ~Left(c, "done", w)'
    BY <2>1, <2>2 DEF Left
  <2> QED
    BY <1>1, <2>3, <2>4 DEF OneLess, Stages
<1> QED
  BY <1>2, <1>3, <1>4, <1>5 DEF Worker

LEMMA AheadShrinks ==
  ASSUME Base, Base', Handed, PmapNext
  PROVE  Ahead' \subseteq Ahead /\ Ahead' # Ahead
<1>1. PICK c \in Calls : Caller(c) \/ \E w \in Workers : Worker(c, w)
  BY DEF PmapNext
<1>2. what' = what
  BY DEF PmapNext, Caller, Worker, Begin, Acquire, RunHere, Launch, SnapshotFails, Collect, ApplyHere,
         CollectHere, Leave, Take, Apply, Exit, Done
<1>3. Places' = Places
  BY <1>2, SameProgram DEF Places, Workers
<1>4. OneLess(c)
  BY <1>1, CallerUses, WorkUses DEF Caller
<1>5. \A d \in Calls : Onward(d)
  <2> SUFFICES ASSUME NEW d \in Calls, d # c PROVE Onward(d)
    BY <1>4 DEF OneLess
  <2>1. /\ step'[d] = step[d] /\ got'[d] = got[d] /\ jobs'[d] = jobs[d] /\ worker'[d] = worker[d]
        /\ ran'[d] = ran[d] /\ gone \subseteq gone'
    BY <1>1, OthersStay
  <2>2. got[d] \in Int /\ Len(what[d]) \in Nat /\ Len(jobs[d]) \in Nat
    BY CallOf, ItemsOf DEF Base
  <2>3. Given(d)' = Given(d) /\ Given(d) \in Int /\ Tried(d)' = Tried(d)
    BY <1>2, <2>1, <2>2 DEF Given, Tried
  <2> QED
    BY <2>1, <2>2, <2>3 DEF Onward, Working, Waiting
<1>6. ASSUME NEW p \in Calls \X Stages \X Places, Left(p[1], p[2], p[3])'
      PROVE  Left(p[1], p[2], p[3])
  BY <1>2, <1>5, <1>6, LeftBefore
<1>7. Ahead' \subseteq Ahead
  BY <1>3, <1>6 DEF Ahead
<1>8. PICK s \in Stages, n \in Places : Left(c, s, n) /\ ~Left(c, s, n)'
  BY <1>4 DEF OneLess
<1>9. <<c, s, n>> \in Ahead /\ <<c, s, n>> \notin Ahead'
  BY <1>8 DEF Ahead
<1> QED
  BY <1>7, <1>9

\* Calls of pmap end ("every call returns", hofPmapContext): the steps ahead are
\* finitely many, and each step of a caller or a worker uses one up, so that with
\* PmapIsNeverStuck a strand that runs brings every call to its end.
THEOREM PmapRunsOut == PmapSpec => []IsFiniteSet(Ahead) /\ StepsRunOut
<1>1. PmapInit => Base /\ Handed
  BY BaseStart, HandedStart
<1>2. Base /\ Handed /\ [PmapNext]_pmapVars => (Base /\ Handed)'
  BY BaseStep, HandedStep
<1>3. Base => IsFiniteSet(Ahead)
  BY AheadFinite
<1>4. Base /\ Base' /\ Handed /\ [PmapNext]_pmapVars
        => [Ahead' \subseteq Ahead /\ Ahead' # Ahead]_pmapVars
  BY AheadShrinks
<1> QED
  BY <1>1, <1>2, <1>3, <1>4, PTL DEF PmapSpec, StepsRunOut
=============================================================================
