------------------------------ MODULE Scheduler ------------------------------
(***************************************************************************)
(* The strands of one drang session, the channels and tasks they block on, *)
(* and the runnable count that tells a wait from a deadlock                *)
(* (src/internal/eval/concurrency.go, and the pmap caller/worker lease of  *)
(* src/internal/eval/hof.go).                                              *)
(*                                                                         *)
(* A strand is Main (the submission being run) or a goroutine started by   *)
(* spawn or by pmap.  What the script does is left open: a running strand  *)
(* performs any operation, at most MaxOps of them.  An operation is split  *)
(* at every point where the code takes or releases a lock that another     *)
(* strand can observe: entering a channel (pending.Add), its critical      *)
(* section (c.mu, with the context lock nested), leaving it                *)
(* (finishPending), looking for its waiters, and the recheck.              *)
(*                                                                         *)
(* A strand has at most one channel waiter and one lease at a time, so     *)
(* each is identified with its strand.  The message of a send is           *)
(* <<strand, budget>>: distinct for every send of a submission.            *)
(***************************************************************************)
EXTENDS Integers, Sequences, FiniteSets

CONSTANTS
  Main,       (* the strand of the submission being run                     *)
  Pool,       (* goroutines that spawn and pmap may start, once each        *)
  Chans,      (* the channels                                               *)
  Capacity,   (* Capacity[c]: the buffer size given to chan(n)              *)
  MaxLive,    (* maxLiveSpawnTasks, the quota of live spawned tasks         *)
  MaxOps,     (* bound: operations one strand performs in a run             *)
  MaxRuns,    (* bound: submissions Main performs (1 is a script)           *)
  MaxWorkers, (* the slots of pmapWorkerBudget (NumCPU)                     *)
  None        (* a value that is no channel and no strand                   *)

Strands == Pool \cup {Main}

ASSUME ConstantsAssumption ==
  /\ Main \notin Pool
  /\ IsFiniteSet(Pool)
  /\ Capacity \in [Chans -> Nat]
  /\ MaxLive \in Nat /\ MaxOps \in Nat /\ MaxRuns \in Nat /\ MaxWorkers \in Nat
  /\ None \notin Strands \cup Chans
  /\ Strands \cap Chans = {}

VARIABLES
  \* executionContext
  runnable,   (* the number of strands that may make progress               *)
  mainActive, (* an outer run is in progress                                *)
  owned,      (* strands whose beginRun returned true                       *)
  waiters,    (* strands with an active channelWaiter                       *)
  uncounted,  (* the waiters that removed no runnable strand                *)
  awaiters,   (* strands with an active lease taken by await                *)
  parked,     (* strands with an active lease taken by pmap                 *)
  \* Chan
  queue, senders, receivers, closed, pending,
  \* Task and pmap
  tasks,      (* goroutines started by spawn                                *)
  completed,  (* tasks whose result is published                            *)
  liveTasks,  (* liveSpawnTasks                                             *)
  boss,       (* boss[w]: the strand whose pmap call worker w serves        *)
  remaining,  (* remaining[s]: workers of s's pmap call still working       *)
  \* the strands
  pc, op, reply, todo, budget, runs

ctxVars  == <<runnable, mainActive, owned, waiters, uncounted, awaiters, parked>>
chanVars == <<queue, senders, receivers, closed, pending>>
taskVars == <<tasks, completed, liveTasks, boss, remaining>>
strandVars == <<pc, op, reply, todo, budget, runs>>
vars == <<ctxVars, chanVars, taskVars, strandVars>>

-----------------------------------------------------------------------------
(* What a wait can be answered with. *)
NoReply == [out |-> "none", val |-> None]
Answer(out) == [out |-> out, val |-> None]
Received(m) == [out |-> "value", val |-> m]

Msg(s) == <<s, budget[s]>>
Messages == Strands \X (0..MaxOps)
NoOp == [kind |-> "none", on |-> None]

(* The strands the context should count: started, and not waiting.  Main's *)
(* submission and every accepted spawn or pmap worker are alive until they *)
(* give their slot back.                                                   *)
Live == {s \in Strands : pc[s] \notin {"off", "publish", "dead"}}
Blocked == waiters \cup awaiters \cup parked
Counted == Live \ Blocked

ContextOK ==
  /\ runnable \in Nat
  /\ mainActive \in BOOLEAN
  /\ owned \subseteq Strands
  /\ waiters \subseteq Strands /\ uncounted \subseteq waiters
  /\ awaiters \subseteq Strands /\ parked \subseteq Strands

ChannelsOK ==
  /\ queue \in [Chans -> Seq(Messages)]
  /\ senders \in [Chans -> Seq(Strands)]
  /\ receivers \in [Chans -> Seq(Strands)]
  /\ closed \in [Chans -> BOOLEAN]
  /\ pending \in [Chans -> Nat]

TasksOK ==
  /\ tasks \subseteq Pool /\ completed \subseteq tasks
  /\ liveTasks \in Nat
  /\ boss \in [Strands -> Strands \cup {None}]
  /\ remaining \in [Strands -> Nat]

Labels == {"off", "run", "enter", "finish", "collect", "recheck", "wait", "closing",
           "await", "pmap", "quit", "quitLast", "publish", "dead"}
Operations == [kind : {"none", "send", "recv", "close", "await"},
               on : Chans \cup Strands \cup {None}]
Replies == [out : {"none", "committed", "closed", "deadlock", "value"},
            val : Messages \cup {None}]

StrandsOK ==
  /\ pc \in [Strands -> Labels]
  /\ op \in [Strands -> Operations]
  /\ reply \in [Strands -> Replies]
  /\ todo \in [Strands -> Seq(Strands)]
  /\ budget \in [Strands -> 0..MaxOps]
  /\ runs \in 0..MaxRuns

TypeOK == ContextOK /\ ChannelsOK /\ TasksOK /\ StrandsOK

Init ==
  /\ runnable = 0 /\ mainActive = FALSE /\ owned = {}
  /\ waiters = {} /\ uncounted = {} /\ awaiters = {} /\ parked = {}
  /\ queue = [c \in Chans |-> <<>>]
  /\ senders = [c \in Chans |-> <<>>]
  /\ receivers = [c \in Chans |-> <<>>]
  /\ closed = [c \in Chans |-> FALSE]
  /\ pending = [c \in Chans |-> 0]
  /\ tasks = {} /\ completed = {} /\ liveTasks = 0
  /\ boss = [s \in Strands |-> None]
  /\ remaining = [s \in Strands |-> 0]
  /\ pc = [s \in Strands |-> "off"]
  /\ op = [s \in Strands |-> NoOp]
  /\ reply = [s \in Strands |-> NoReply]
  /\ todo = [s \in Strands |-> <<>>]
  /\ budget = [s \in Strands |-> MaxOps]
  /\ runs = 0

-----------------------------------------------------------------------------
(* The execution context. *)

(* The waits claimDeadlockedLocked turns into a deadlock answer, when r    *)
(* strands are runnable and W and A wait: every channel waiter into whose  *)
(* channel no caller is entering; else, when none is being entered, every  *)
(* task awaiter.                                                           *)
Claimed(r, W, A) ==
  LET free == {s \in W : pending[op[s].on] = 0}
  IN  IF r # 0 THEN {}
      ELSE IF free # {} THEN free
      ELSE IF W = {} THEN A ELSE {}

(* The end of a context critical section that leaves r strands runnable,   *)
(* W and A waiting and rep answered: claim the deadlocked waits, make each *)
(* counted one runnable, and answer them.                                  *)
ClaimDeadlocked(r, W, A, rep) ==
  LET claimed == Claimed(r, W, A)
  IN  /\ runnable' = r + Cardinality(claimed \ uncounted)
      /\ waiters' = W \ claimed
      /\ uncounted' = uncounted \ claimed
      /\ awaiters' = A \ claimed
      /\ reply' = [s \in Strands |-> IF s \in claimed THEN Answer("deadlock") ELSE rep[s]]

(* A slip: the woken strand is not made runnable again. *)
Wake_Uncounted(s, answer, caller, own) ==
  /\ waiters' = waiters \ {s}
  /\ uncounted' = uncounted \ {s}
  /\ runnable' = runnable
  /\ reply' = [reply EXCEPT ![s] = answer, ![caller] = own]

(* wakeChannel on the active waiter of s, with its answer; the caller's    *)
(* own answer is the second update.                                        *)
Wake(s, answer, caller, own) ==
  /\ waiters' = waiters \ {s}
  /\ uncounted' = uncounted \ {s}
  /\ runnable' = IF s \in uncounted THEN runnable ELSE runnable + 1
  /\ reply' = [reply EXCEPT ![s] = answer, ![caller] = own]

(* blockChannel for the calling strand. *)
BlockChannel(s) ==
  /\ waiters' = waiters \cup {s}
  /\ uncounted' = IF runnable > 0 THEN uncounted ELSE uncounted \cup {s}
  /\ runnable' = IF runnable > 0 THEN runnable - 1 ELSE runnable

Goto(s, label) == pc' = [pc EXCEPT ![s] = label]

(* One more operation of a running strand. *)
Starts(s, kind, on) ==
  /\ pc[s] = "run" /\ budget[s] > 0
  /\ op' = [op EXCEPT ![s] = [kind |-> kind, on |-> on]]

(* The operation of s is over. *)
Ends(s) ==
  /\ Goto(s, "run")
  /\ op' = [op EXCEPT ![s] = NoOp]
  /\ budget' = [budget EXCEPT ![s] = @ - 1]

-----------------------------------------------------------------------------
(* A submission: beginRun and endRun around the evaluation of a program. *)

BeginRun ==
  /\ pc[Main] = "off" /\ runs < MaxRuns
  /\ runs' = runs + 1
  /\ Goto(Main, "run")
  /\ IF mainActive
       THEN UNCHANGED <<mainActive, owned, runnable>>
       ELSE /\ mainActive' = TRUE
            /\ owned' = owned \cup {Main}
            /\ runnable' = runnable + 1
  /\ budget' = [budget EXCEPT ![Main] = MaxOps]
  /\ UNCHANGED <<waiters, uncounted, awaiters, parked, chanVars, taskVars, op, reply, todo>>

EndRun ==
  /\ pc[Main] = "run"
  /\ Goto(Main, "off")
  /\ owned' = owned \ {Main}
  /\ IF Main \in owned
       THEN /\ mainActive' = FALSE
            /\ ClaimDeadlocked(IF runnable > 0 THEN runnable - 1 ELSE 0, waiters, awaiters, reply)
       ELSE UNCHANGED <<mainActive, runnable, waiters, uncounted, awaiters, reply>>
  /\ UNCHANGED <<parked, chanVars, taskVars, op, todo, budget, runs>>

-----------------------------------------------------------------------------
(* send and recv.  Entering counts the caller in c.pending. *)

Enter(s, kind, c) ==
  /\ Starts(s, kind, c)
  /\ Goto(s, "enter")
  /\ pending' = [pending EXCEPT ![c] = @ + 1]
  /\ UNCHANGED <<ctxVars, queue, senders, receivers, closed, taskVars, reply, todo, budget, runs>>

InChannel(s, kind) == pc[s] = "enter" /\ op[s].kind = kind

(* The first i positions of a waiting line are popped; i is the first      *)
(* entry whose waiter is still active.                                     *)
FirstActive(line, i) ==
  /\ i \in 1..Len(line)
  /\ line[i] \in waiters
  /\ \A j \in 1..(i - 1) : line[j] \notin waiters

(* A slip: only the head of a line is looked at, answered or not. *)
NoneActive_HeadOnly(line) == IF line = <<>> THEN TRUE ELSE line[1] \notin waiters
NoneActive(line) == \A i \in 1..Len(line) : line[i] \notin waiters
After(line, i) == SubSeq(line, i + 1, Len(line))

(* The caller has its answer and is about to run the deferred finishPending. *)
Answered(s, answer) ==
  /\ reply' = [reply EXCEPT ![s] = answer]
  /\ UNCHANGED <<runnable, waiters, uncounted>>

Leaves(s) ==
  /\ Goto(s, "finish")
  /\ UNCHANGED <<mainActive, owned, awaiters, parked, closed, pending, taskVars,
                 op, todo, budget, runs>>

SendClosed(s) ==
  /\ InChannel(s, "send") /\ closed[op[s].on]
  /\ Answered(s, Answer("closed"))
  /\ Leaves(s) /\ UNCHANGED <<queue, senders, receivers>>

SendMatch(s) ==
  LET c == op[s].on
  IN  /\ InChannel(s, "send") /\ ~closed[c]
      /\ \E i \in 1..Len(receivers[c]) :
           /\ FirstActive(receivers[c], i)
           /\ Wake(receivers[c][i], Received(Msg(s)), s, Answer("committed"))
           /\ receivers' = [receivers EXCEPT ![c] = After(@, i)]
      /\ Leaves(s) /\ UNCHANGED <<queue, senders>>

(* A slip: a free slot is filled without a look at closed. *)
SendBuffer_AfterClose(s) ==
  LET c == op[s].on
  IN  /\ InChannel(s, "send")
      /\ NoneActive(receivers[c]) /\ Len(queue[c]) < Capacity[c]
      /\ queue' = [queue EXCEPT ![c] = Append(@, Msg(s))]
      /\ receivers' = [receivers EXCEPT ![c] = <<>>]
      /\ Answered(s, Answer("committed"))
      /\ Leaves(s) /\ UNCHANGED senders

SendBuffer(s) ==
  LET c == op[s].on
  IN  /\ InChannel(s, "send") /\ ~closed[c]
      /\ NoneActive(receivers[c]) /\ Len(queue[c]) < Capacity[c]
      /\ queue' = [queue EXCEPT ![c] = Append(@, Msg(s))]
      /\ receivers' = [receivers EXCEPT ![c] = <<>>]
      /\ Answered(s, Answer("committed"))
      /\ Leaves(s) /\ UNCHANGED senders

SendBlock(s) ==
  LET c == op[s].on
  IN  /\ InChannel(s, "send") /\ ~closed[c]
      /\ NoneActive(receivers[c]) /\ Len(queue[c]) >= Capacity[c]
      /\ receivers' = [receivers EXCEPT ![c] = <<>>]
      /\ senders' = [senders EXCEPT ![c] = Append(@, s)]
      /\ BlockChannel(s)
      /\ Leaves(s) /\ UNCHANGED <<queue, reply>>

(* A slip: the slot a receive frees is not offered to a blocked sender. *)
RecvBuffered_NoRefill(s) ==
  LET c == op[s].on
  IN  /\ InChannel(s, "recv") /\ queue[c] # <<>>
      /\ Answered(s, Received(Head(queue[c])))
      /\ queue' = [queue EXCEPT ![c] = Tail(@)]
      /\ Leaves(s) /\ UNCHANGED <<senders, receivers>>

(* A receive takes the oldest buffered value; the oldest blocked sender    *)
(* moves into the freed slot.                                              *)
RecvBuffered(s) ==
  LET c == op[s].on
      got == Received(Head(queue[c]))
  IN  /\ InChannel(s, "recv") /\ queue[c] # <<>>
      /\ \/ /\ ~closed[c]
            /\ \E i \in 1..Len(senders[c]) :
                 /\ FirstActive(senders[c], i)
                 /\ Wake(senders[c][i], Answer("committed"), s, got)
                 /\ senders' = [senders EXCEPT ![c] = After(@, i)]
                 /\ queue' = [queue EXCEPT ![c] = Append(Tail(@), Msg(senders[c][i]))]
         \/ /\ closed[c] \/ NoneActive(senders[c])
            /\ Answered(s, got)
            /\ senders' = [senders EXCEPT ![c] = IF closed[c] THEN @ ELSE <<>>]
            /\ queue' = [queue EXCEPT ![c] = Tail(@)]
      /\ Leaves(s) /\ UNCHANGED receivers

RecvMatch(s) ==
  LET c == op[s].on
  IN  /\ InChannel(s, "recv") /\ queue[c] = <<>> /\ ~closed[c]
      /\ \E i \in 1..Len(senders[c]) :
           /\ FirstActive(senders[c], i)
           /\ Wake(senders[c][i], Answer("committed"), s, Received(Msg(senders[c][i])))
           /\ senders' = [senders EXCEPT ![c] = After(@, i)]
      /\ Leaves(s) /\ UNCHANGED <<queue, receivers>>

RecvClosed(s) ==
  /\ InChannel(s, "recv") /\ queue[op[s].on] = <<>> /\ closed[op[s].on]
  /\ Answered(s, Answer("closed"))
  /\ Leaves(s) /\ UNCHANGED <<queue, senders, receivers>>

RecvBlock(s) ==
  LET c == op[s].on
  IN  /\ InChannel(s, "recv") /\ queue[c] = <<>> /\ ~closed[c] /\ NoneActive(senders[c])
      /\ senders' = [senders EXCEPT ![c] = <<>>]
      /\ receivers' = [receivers EXCEPT ![c] = Append(@, s)]
      /\ BlockChannel(s)
      /\ Leaves(s) /\ UNCHANGED <<queue, reply>>

(* A slip: nobody rechecks what was deferred while a caller was entering. *)
FinishPending_NoRecheck(s) ==
  /\ pc[s] = "finish"
  /\ pending' = [pending EXCEPT ![op[s].on] = @ - 1]
  /\ Goto(s, "wait")
  /\ UNCHANGED <<ctxVars, queue, senders, receivers, closed, taskVars,
                 op, reply, todo, budget, runs>>

(* finishPending: the last caller to leave the entry window collects the   *)
(* contexts of the channel's waiters and rechecks them.                    *)
FinishPending(s) ==
  LET c == op[s].on
  IN  /\ pc[s] = "finish"
      /\ pending' = [pending EXCEPT ![c] = @ - 1]
      /\ Goto(s, IF pending[c] = 1 THEN "collect" ELSE "wait")
      /\ UNCHANGED <<ctxVars, queue, senders, receivers, closed, taskVars,
                     op, reply, todo, budget, runs>>

(* A slip: only the contexts of blocked senders are collected. *)
CollectContexts_SendersOnly(s) ==
  /\ pc[s] = "collect"
  /\ Goto(s, IF senders[op[s].on] = <<>> THEN "wait" ELSE "recheck")
  /\ UNCHANGED <<ctxVars, chanVars, taskVars, op, reply, todo, budget, runs>>

CollectContexts(s) ==
  LET c == op[s].on
  IN  /\ pc[s] = "collect"
      /\ Goto(s, IF senders[c] = <<>> /\ receivers[c] = <<>> THEN "wait" ELSE "recheck")
      /\ UNCHANGED <<ctxVars, chanVars, taskVars, op, reply, todo, budget, runs>>

Recheck(s) ==
  /\ pc[s] = "recheck"
  /\ ClaimDeadlocked(runnable, waiters, awaiters, reply)
  /\ Goto(s, "wait")
  /\ UNCHANGED <<mainActive, owned, parked, chanVars, taskVars, op, todo, budget, runs>>

(* removeSender / removeReceiver: drop the first entry of s, if any. *)
FirstOf(s, line, i) == line[i] = s /\ \A j \in 1..(i - 1) : line[j] # s
Without(line, s) ==
  LET i == CHOOSE i \in 1..Len(line) : FirstOf(s, line, i)
  IN  IF \E j \in 1..Len(line) : FirstOf(s, line, j)
        THEN SubSeq(line, 1, i - 1) \o SubSeq(line, i + 1, Len(line))
        ELSE line

(* The operation returns its answer; a deadlocked one first takes its      *)
(* entry out of the channel.                                               *)
Return(s) ==
  LET c == op[s].on
  IN  /\ pc[s] = "wait" /\ reply[s] # NoReply
      /\ reply' = [reply EXCEPT ![s] = NoReply]
      /\ IF reply[s].out = "deadlock"
           THEN /\ senders' = [senders EXCEPT ![c] = Without(@, s)]
                /\ receivers' = [receivers EXCEPT ![c] = Without(@, s)]
           ELSE UNCHANGED <<senders, receivers>>
      /\ Ends(s)
      /\ UNCHANGED <<ctxVars, queue, closed, pending, taskVars, todo, runs>>

-----------------------------------------------------------------------------
(* close: the transition detaches the waiting lines under c.mu; the        *)
(* detached waiters are woken one by one after the unlock.  An entry whose *)
(* waiter was answered meanwhile is skipped: its strand may by now wait in *)
(* another channel, and never again in this one.                           *)

Close(s, c) ==
  /\ Starts(s, "close", c)
  /\ Goto(s, "closing")
  /\ closed' = [closed EXCEPT ![c] = TRUE]
  /\ todo' = [todo EXCEPT ![s] = IF closed[c] THEN <<>> ELSE senders[c] \o receivers[c]]
  /\ senders' = [senders EXCEPT ![c] = IF closed[c] THEN @ ELSE <<>>]
  /\ receivers' = [receivers EXCEPT ![c] = IF closed[c] THEN @ ELSE <<>>]
  /\ UNCHANGED <<ctxVars, queue, pending, taskVars, reply, budget, runs>>

CloseWake(s) ==
  LET w == Head(todo[s])
  IN  /\ pc[s] = "closing" /\ todo[s] # <<>>
      /\ todo' = [todo EXCEPT ![s] = Tail(@)]
      /\ IF w \in waiters /\ op[w].on = op[s].on
           THEN Wake(w, Answer("closed"), w, Answer("closed"))
           ELSE UNCHANGED <<waiters, uncounted, runnable, reply>>
      /\ UNCHANGED <<mainActive, owned, awaiters, parked, chanVars, taskVars,
                     pc, op, budget, runs>>

CloseDone(s) ==
  /\ pc[s] = "closing" /\ todo[s] = <<>>
  /\ Ends(s)
  /\ UNCHANGED <<ctxVars, chanVars, taskVars, reply, todo, runs>>

-----------------------------------------------------------------------------
(* spawn and await. *)

(* The quota slot is taken and the strand counted before the goroutine     *)
(* starts; a spawn beyond the quota returns an Err and starts nothing.     *)
Spawn(s, t) ==
  /\ pc[s] = "run" /\ budget[s] > 0
  /\ t \in Pool /\ pc[t] = "off"
  /\ liveTasks < MaxLive
  /\ liveTasks' = liveTasks + 1
  /\ tasks' = tasks \cup {t}
  /\ runnable' = runnable + 1
  /\ pc' = [pc EXCEPT ![t] = "run"]
  /\ budget' = [budget EXCEPT ![s] = @ - 1]
  /\ UNCHANGED <<mainActive, owned, waiters, uncounted, awaiters, parked, chanVars,
                 completed, boss, remaining, op, reply, todo, runs>>

SpawnRefused(s) ==
  /\ pc[s] = "run" /\ budget[s] > 0
  /\ liveTasks >= MaxLive
  /\ budget' = [budget EXCEPT ![s] = @ - 1]
  /\ UNCHANGED <<ctxVars, chanVars, taskVars, pc, op, reply, todo, runs>>

(* The worker function of task t returned: publish the result, give up the *)
(* runnable slot and resume every awaiter under one context lock.          *)
Complete(t) ==
  LET resumed == {s \in awaiters : op[s].on = t}
  IN  /\ t \in tasks /\ pc[t] = "run"
      /\ Goto(t, "publish")
      /\ completed' = completed \cup {t}
      /\ ClaimDeadlocked((IF runnable > 0 THEN runnable - 1 ELSE 0) + Cardinality(resumed),
                         waiters, awaiters \ resumed, reply)
      /\ UNCHANGED <<mainActive, owned, parked, chanVars, tasks, liveTasks, boss, remaining,
                     op, todo, budget, runs>>

(* A slip: the slot of a finished task stays taken. *)
ReleaseTask_Leaks(t) ==
  /\ pc[t] = "publish"
  /\ Goto(t, "dead")
  /\ UNCHANGED <<ctxVars, chanVars, taskVars, op, reply, todo, budget, runs>>

(* Only then is the quota slot released. *)
ReleaseTask(t) ==
  /\ pc[t] = "publish"
  /\ Goto(t, "dead")
  /\ liveTasks' = liveTasks - 1
  /\ UNCHANGED <<ctxVars, chanVars, tasks, completed, boss, remaining, op, reply,
                 todo, budget, runs>>

(* await of an unfinished task takes a lease, unless no strand is counted. *)
Await(s, t) ==
  /\ Starts(s, "await", t)
  /\ t \in tasks \ completed
  /\ Goto(s, "await")
  /\ IF runnable > 0
       THEN ClaimDeadlocked(runnable - 1, waiters, awaiters \cup {s}, reply)
       ELSE UNCHANGED <<runnable, waiters, uncounted, awaiters, reply>>
  /\ UNCHANGED <<mainActive, owned, parked, chanVars, taskVars, todo, budget, runs>>

AwaitDone(s, t) ==
  /\ pc[s] = "run" /\ budget[s] > 0 /\ t \in completed
  /\ budget' = [budget EXCEPT ![s] = @ - 1]
  /\ UNCHANGED <<ctxVars, chanVars, taskVars, pc, op, reply, todo, runs>>

(* A slip: the fallback resume ignores that completion consumed the lease. *)
AwaitResult_ResumesTwice(s) ==
  /\ pc[s] = "await" /\ op[s].on \in completed
  /\ awaiters' = awaiters \ {s}
  /\ runnable' = runnable + 1
  /\ reply' = [reply EXCEPT ![s] = NoReply]
  /\ Ends(s)
  /\ UNCHANGED <<mainActive, owned, waiters, uncounted, parked, chanVars, taskVars, todo, runs>>

(* The select in await: the task's done channel, or the deadlock notice;   *)
(* when both are ready Go picks either.                                    *)
AwaitResult(s) ==
  /\ pc[s] = "await" /\ op[s].on \in completed
  /\ awaiters' = awaiters \ {s}
  /\ runnable' = IF s \in awaiters THEN runnable + 1 ELSE runnable
  /\ reply' = [reply EXCEPT ![s] = NoReply]
  /\ Ends(s)
  /\ UNCHANGED <<mainActive, owned, waiters, uncounted, parked, chanVars, taskVars, todo, runs>>

AwaitDeadlock(s) ==
  /\ pc[s] = "await" /\ reply[s].out = "deadlock"
  /\ reply' = [reply EXCEPT ![s] = NoReply]
  /\ Ends(s)
  /\ UNCHANGED <<ctxVars, chanVars, taskVars, todo, runs>>

-----------------------------------------------------------------------------
(* pmap borrows the worker slots it can have at once (a call that gets none *)
(* runs its callbacks itself); they are counted before the caller parks.   *)

Pmap(s, W) ==
  /\ pc[s] = "run" /\ budget[s] > 0
  /\ W # {} /\ \A w \in W : pc[w] = "off"
  /\ Cardinality(W \cup {w \in Strands : boss[w] # None}) <= MaxWorkers
  /\ runnable' = runnable + Cardinality(W) - 1
  /\ parked' = parked \cup {s}
  /\ pc' = [w \in Strands |-> IF w \in W THEN "run" ELSE IF w = s THEN "pmap" ELSE pc[w]]
  /\ boss' = [w \in Strands |-> IF w \in W THEN s ELSE boss[w]]
  /\ remaining' = [remaining EXCEPT ![s] = Cardinality(W)]
  /\ UNCHANGED <<mainActive, owned, waiters, uncounted, awaiters, chanVars, tasks,
                 completed, liveTasks, op, reply, todo, budget, runs>>

WorkerDone(w) ==
  LET s == boss[w]
  IN  /\ pc[w] = "run" /\ s # None
      /\ remaining' = [remaining EXCEPT ![s] = @ - 1]
      /\ Goto(w, IF remaining[s] = 1 THEN "quitLast" ELSE "quit")
      /\ UNCHANGED <<ctxVars, chanVars, tasks, completed, liveTasks, boss, op,
                     reply, todo, budget, runs>>

(* exitRunnable; the worker that was last trades its slot for the lease of *)
(* the caller (exitRunnableAndResume).                                     *)
WorkerExit(w) ==
  LET resumed == IF pc[w] = "quitLast" THEN parked \cap {boss[w]} ELSE {}
  IN  /\ pc[w] \in {"quit", "quitLast"}
      /\ Goto(w, "dead")
      /\ parked' = parked \ resumed
      /\ ClaimDeadlocked((IF runnable > 0 THEN runnable - 1 ELSE 0) + Cardinality(resumed),
                         waiters, awaiters, reply)
      /\ UNCHANGED <<mainActive, owned, chanVars, taskVars, op, todo, budget, runs>>

(* wg.Wait returns when every worker is gone; resume is an idempotent      *)
(* fallback.                                                               *)
PmapReturn(s) ==
  /\ pc[s] = "pmap"
  /\ \A w \in Strands : boss[w] = s => pc[w] = "dead"
  /\ boss' = [w \in Strands |-> IF boss[w] = s THEN None ELSE boss[w]]
  /\ parked' = parked \ {s}
  /\ runnable' = IF s \in parked THEN runnable + 1 ELSE runnable
  /\ Goto(s, "run")
  /\ budget' = [budget EXCEPT ![s] = @ - 1]
  /\ UNCHANGED <<mainActive, owned, waiters, uncounted, awaiters, chanVars, tasks, completed,
                 liveTasks, remaining, op, reply, todo, runs>>

-----------------------------------------------------------------------------
ChannelStep(s) ==
  \/ \E kind \in {"send", "recv"}, c \in Chans : Enter(s, kind, c)
  \/ SendClosed(s) \/ SendMatch(s) \/ SendBuffer(s) \/ SendBlock(s)
  \/ RecvBuffered(s) \/ RecvMatch(s) \/ RecvClosed(s) \/ RecvBlock(s)
  \/ FinishPending(s) \/ CollectContexts(s) \/ Recheck(s) \/ Return(s)
  \/ \E c \in Chans : Close(s, c)
  \/ CloseWake(s) \/ CloseDone(s)

TaskStep(s) ==
  \/ \E t \in Pool : Spawn(s, t) \/ Await(s, t) \/ AwaitDone(s, t)
  \/ SpawnRefused(s) \/ Complete(s) \/ ReleaseTask(s)
  \/ AwaitResult(s) \/ AwaitDeadlock(s)

PmapStep(s) ==
  \/ \E W \in SUBSET Pool : Pmap(s, W)
  \/ WorkerDone(s) \/ WorkerExit(s) \/ PmapReturn(s)

Step(s) == ChannelStep(s) \/ TaskStep(s) \/ PmapStep(s)

Next == BeginRun \/ EndRun \/ \E s \in Strands : Step(s)

Spec == Init /\ [][Next]_vars

(* Goroutines are preemptively scheduled, a critical section is short, and *)
(* the operations of a script are finite here: a strand that can take a    *)
(* step takes one, and a submission ends.  Starting one is the user's      *)
(* choice.                                                                 *)
Fairness == \A s \in Strands : WF_vars(Step(s) \/ (s = Main /\ EndRun))
FairSpec == Spec /\ Fairness
-----------------------------------------------------------------------------
(* Properties.                                                             *)

(* The context counts exactly the strands that may make progress: every    *)
(* lease and counted waiter gives its slot back once, whoever of a match,  *)
(* a close, a completion or a deadlock claim gets to it first              *)
(* (executionSuspension.active, wakeChannel).                              *)
RunnableExact == runnable = Cardinality(Counted)

Active(line) == {i \in 1..Len(line) : line[i] \in waiters}
InLine(s, line) == \E i \in 1..Len(line) : line[i] = s

(* Nothing that could proceed is left waiting: a channel never has both an *)
(* active sender and an active receiver, an active receiver beside a       *)
(* buffered value, an active sender beside a free slot, or, once closed, a *)
(* waiting line.                                                           *)
NoMissedMatch ==
  \A c \in Chans :
    /\ Active(senders[c]) = {} \/ Active(receivers[c]) = {}
    /\ Active(receivers[c]) # {} => queue[c] = <<>>
    /\ Active(senders[c]) # {} => Len(queue[c]) = Capacity[c]
    /\ closed[c] => senders[c] = <<>> /\ receivers[c] = <<>>

(* A registered waiter can still be found by whoever must wake it: it is   *)
(* in the line of its channel, or in the list a closer detached.           *)
NoLostWaiter ==
  \A s \in waiters :
    LET c == op[s].on
    IN  \/ op[s].kind = "send" /\ InLine(s, senders[c])
        \/ op[s].kind = "recv" /\ InLine(s, receivers[c])
        \/ \E k \in Strands : pc[k] = "closing" /\ op[k].on = c /\ InLine(s, todo[k])

(* When no strand is runnable and some wait, a caller that is leaving a    *)
(* channel is still to recheck the context: the claim it deferred is not   *)
(* forgotten.                                                              *)
NoForgottenClaim ==
  runnable = 0 /\ waiters \cup awaiters # {} =>
    \E s \in Strands : pc[s] \in {"finish", "collect", "recheck"}

NewlyDeadlocked ==
  {s \in Strands : reply[s].out # "deadlock" /\ reply'[s].out = "deadlock"}

(* A wait is answered "would deadlock" only when no strand at all can make *)
(* progress: after the step the only countable strands are those it woke.  *)
DeadlockSound ==
  [][NewlyDeadlocked # {} => Counted' = NewlyDeadlocked]_vars

(* An await is broken as a cycle only when there is no channel wait to     *)
(* break instead (the comment in claimDeadlockedLocked).                   *)
ChannelFirst ==
  [][(\E s \in NewlyDeadlocked : op'[s].kind = "await") => waiters \cup waiters' = {}]_vars

(* The counters that are changed outside the context lock are exact too:   *)
(* c.pending is the number of callers between entering c and queueing or   *)
(* leaving; a pmap call's remaining is the number of its workers at work;  *)
(* liveSpawnTasks is the number of accepted tasks not yet finished with    *)
(* publishing, within the quota.                                           *)
Entering(c) == {s \in Strands : pc[s] \in {"enter", "finish"} /\ op[s].on = c}
WorkersOf(s) == {w \in Strands : boss[w] = s /\ pc[w] \notin {"quit", "quitLast", "dead"}}
Unreleased == {t \in tasks : pc[t] # "dead"}

CountersExact ==
  /\ \A c \in Chans : pending[c] = Cardinality(Entering(c))
  /\ \A s \in Strands : remaining[s] = Cardinality(WorkersOf(s))
  /\ liveTasks = Cardinality(Unreleased) /\ liveTasks <= MaxLive

(* The operations being finite, every strand finishes: each wait ends by a *)
(* counterpart, a close, a completion or a deadlock answer, and no claim   *)
(* that was deferred is lost.                                              *)
EveryStrandEnds == \A s \in Strands : <>[](pc[s] \in {"off", "dead"})
(* The channels implement AbsChannel: locks, lines, wake-ups and claims    *)
(* are invisible to the callers of send, recv and close.                   *)
InChannelOp(s) == op[s].kind \in {"send", "recv"}
CallOf(s) ==
  IF ~InChannelOp(s) THEN [kind |-> "none", on |-> None, msg |-> None]
  ELSE [kind |-> op[s].kind, on |-> op[s].on,
        msg |-> IF op[s].kind = "send" THEN Msg(s) ELSE None]

Promise == INSTANCE AbsChannel WITH
  buf <- queue,
  shut <- closed,
  call <- [s \in Strands |-> CallOf(s)],
  answer <- [s \in Strands |-> IF InChannelOp(s) THEN reply[s] ELSE NoReply]

(* Every behaviour of the channels is one their promise allows: at most    *)
(* one effect per send and receive, first in first out, none after close,  *)
(* and "would deadlock" only for an operation nobody could complete.       *)
ImplementsChannels == Promise!Spec
-----------------------------------------------------------------------------
(* The inductive invariant behind RunnableExact, CountersExact and         *)
(* DeadlockSound: what the kind of a wait says of the strand that waits,   *)
(* and which strand can be where.                                          *)

Waits ==
  /\ uncounted = {}
  /\ \A s \in waiters :
       /\ pc[s] \in {"finish", "collect", "recheck", "wait"}
       /\ op[s].kind \in {"send", "recv"} /\ reply[s] = NoReply
  /\ \A s \in awaiters : pc[s] = "await" /\ op[s].kind = "await" /\ reply[s] = NoReply
  /\ \A s \in parked : pc[s] = "pmap"
  /\ \A s \in Strands :
       reply[s] # NoReply => pc[s] \in {"finish", "collect", "recheck", "wait", "await"}

InChannelLabels == {"enter", "finish", "collect", "recheck", "wait", "closing"}

Roles ==
  /\ owned = IF mainActive THEN {Main} ELSE {}
  /\ mainActive <=> pc[Main] # "off"
  /\ \A w \in Strands : boss[w] # None => w \in Pool /\ pc[w] # "off" /\ pc[boss[w]] = "pmap"
  /\ \A t \in tasks : boss[t] = None /\ pc[t] # "off"
  /\ \A s \in Strands :
       /\ pc[s] \in {"quit", "quitLast"} => boss[s] # None
       /\ pc[s] = "publish" => s \in tasks
       /\ pc[s] = "dead" => s \in Pool
       /\ pc[s] \in InChannelLabels => op[s].on \in Chans
       /\ pc[s] \in InChannelLabels \cup {"await", "pmap"} => budget[s] > 0

IInv == TypeOK /\ Waits /\ Roles /\ CountersExact /\ RunnableExact
=============================================================================
