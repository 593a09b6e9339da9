--------------------------- MODULE SchedulerProofs ---------------------------
(***************************************************************************)
(* Proofs about Scheduler, for any finite pool of goroutines, any set of   *)
(* channels and any capacities, quotas and bounds.                         *)
(*                                                                         *)
(* The inductive invariant IInv couples the context's sets with the place  *)
(* of each strand (Waits, Roles); with it each action changes the set      *)
(* Counted by exactly the strands for which it changes runnable.           *)
(*                                                                         *)
(* A second one, LInv, says what the waiting lines of the channels hold    *)
(* (LinesExact, Served, CallsExact) and when a claim is deferred           *)
(* (Deferred); with it no match, waiter or claim is lost, and every step   *)
(* is one of AbsChannel or changes nothing that AbsChannel sees.           *)
(*                                                                         *)
(* A third, Leases, says who can step when somebody waits: strands are     *)
(* never all stuck, and every step takes one nearer to its end.            *)
(***************************************************************************)
EXTENDS Scheduler, FiniteSetTheorems, TLAPS

-----------------------------------------------------------------------------
(* Sets of strands are finite; adding or removing one changes the count by *)
(* one.                                                                    *)

LEMMA StrandsFinite == IsFiniteSet(Strands)
  BY ConstantsAssumption, FS_AddElement DEF Strands

LEMMA Finite ==
  ASSUME NEW S \in SUBSET Strands
  PROVE  IsFiniteSet(S) /\ Cardinality(S) \in Nat /\ (Cardinality(S) = 0 <=> S = {})
  BY StrandsFinite, FS_Subset, FS_CardinalityType, FS_EmptySet

LEMMA CardAdd ==
  ASSUME NEW S \in SUBSET Strands, NEW x \in Strands \ S
  PROVE  Cardinality(S \cup {x}) = Cardinality(S) + 1
  BY Finite, FS_AddElement

LEMMA CardRemove ==
  ASSUME NEW S \in SUBSET Strands, NEW x \in S
  PROVE  Cardinality(S \ {x}) = Cardinality(S) - 1 /\ Cardinality(S) > 0
  BY Finite, FS_RemoveElement

LEMMA CardUnion ==
  ASSUME NEW S \in SUBSET Strands, NEW T \in SUBSET Strands, S \cap T = {}
  PROVE  Cardinality(S \cup T) = Cardinality(S) + Cardinality(T)
<1>1. /\ IsFiniteSet(S) /\ Cardinality(S) \in Nat
      /\ IsFiniteSet(T) /\ Cardinality(T) \in Nat
  BY Finite
<1>2. Cardinality(S \cup T) = Cardinality(S) + Cardinality(T) - Cardinality(S \cap T)
  BY <1>1, FS_Union
<1>3. Cardinality(S \cap T) = 0
  BY FS_EmptySet
<1> QED
  BY <1>1, <1>2, <1>3

-----------------------------------------------------------------------------
(* What a context critical section that ends in a claim does: it answers a *)
(* set K of waits, none of them while a strand is runnable, and awaiters   *)
(* only when there is no channel waiter.                                   *)
LEMMA ClaimEffect ==
  ASSUME uncounted = {}, NEW r \in Nat,
         NEW W \in SUBSET Strands, NEW A \in SUBSET Strands,
         ClaimDeadlocked(r, W, A, reply)
  PROVE  \E K \in SUBSET (W \cup A) :
           /\ r # 0 => K = {}
           /\ K \subseteq W \/ W = {}
           /\ waiters' = W \ K /\ awaiters' = A \ K /\ uncounted' = {}
           /\ runnable' = r + Cardinality(K)
           /\ reply' = [s \in Strands |-> IF s \in K THEN Answer("deadlock") ELSE reply[s]]
<1> DEFINE K == Claimed(r, W, A)
<1>1. K \in SUBSET (W \cup A) /\ (r # 0 => K = {}) /\ (K \subseteq W \/ W = {})
  BY DEF Claimed
<1>2. K \ uncounted = K
  OBVIOUS
<1>3. /\ waiters' = W \ K /\ awaiters' = A \ K /\ uncounted' = {}
      /\ runnable' = r + Cardinality(K)
      /\ reply' = [s \in Strands |-> IF s \in K THEN Answer("deadlock") ELSE reply[s]]
  BY <1>2 DEF ClaimDeadlocked
<1> QED
  BY <1>1, <1>3

-----------------------------------------------------------------------------
(* What a step may do to the deadlock answers: an answer is given only     *)
(* when the strands it wakes are the only ones that can go on, and to an   *)
(* await only when no channel waiter is left.                              *)
ClaimsRightly ==
  /\ NewlyDeadlocked # {} => Counted' = NewlyDeadlocked
  /\ (\E s \in NewlyDeadlocked : op'[s].kind = "await") => waiters \cup waiters' = {}

(* A strand that is counted makes the count positive.                      *)
LEMMA CountedPositive ==
  ASSUME IInv, NEW s \in Counted
  PROVE  runnable > 0 /\ runnable \in Nat
<1>1. Counted \in SUBSET Strands
  BY DEF Counted, Live
<1> QED
  BY <1>1, Finite DEF IInv, RunnableExact

(* The pending counters stay exact if nobody enters or leaves a channel,   *)
(* the others if no goroutine starts or finishes its work.                 *)
LEMMA PendingStays ==
  ASSUME CountersExact, pending' = pending,
         \A s \in Strands : (pc[s] \in {"enter", "finish"} <=> pc'[s] \in {"enter", "finish"})
                            /\ (pc[s] \in {"enter", "finish"} => op'[s].on = op[s].on)
  PROVE  \A c \in Chans : pending'[c] = Cardinality(Entering(c)')
<1> TAKE c \in Chans
<1>1. Entering(c)' = Entering(c)
  BY DEF Entering
<1> QED
  BY <1>1 DEF CountersExact

LEMMA WorkStays ==
  ASSUME CountersExact, UNCHANGED <<tasks, liveTasks, boss, remaining>>,
         \A s \in Strands : pc[s] \in {"quit", "quitLast", "dead"} <=> pc'[s] \in {"quit", "quitLast", "dead"},
         \A s \in Strands : pc[s] = "dead" <=> pc'[s] = "dead", tasks \subseteq Strands
  PROVE  /\ \A s \in Strands : remaining'[s] = Cardinality(WorkersOf(s)')
         /\ liveTasks' = Cardinality(Unreleased') /\ liveTasks' <= MaxLive
<1>1. ASSUME NEW s \in Strands
      PROVE  remaining'[s] = Cardinality(WorkersOf(s)')
  <2>1. WorkersOf(s)' = WorkersOf(s)
    BY DEF WorkersOf
  <2> QED
    BY <2>1 DEF CountersExact
<1>2. Unreleased' = Unreleased
  BY DEF Unreleased
<1> QED
  BY <1>1, <1>2 DEF CountersExact


(* A step of one strand s that is counted before and after it, or is a     *)
(* channel waiter on its way to its wait, and that wakes and blocks        *)
(* nobody: s goes to label l, its operation becomes o and its answer a.    *)
LEMMA LocalStep ==
  ASSUME IInv, NEW s \in Strands, NEW l \in Labels, NEW o \in Operations, NEW a \in Replies,
         pc' = [pc EXCEPT ![s] = l], op' = [op EXCEPT ![s] = o],
         reply' = [reply EXCEPT ![s] = a],
         UNCHANGED ctxVars, UNCHANGED <<tasks, boss>>, budget' \in [Strands -> 0..MaxOps],
         \A x \in Strands \ {s} : budget'[x] = budget[x],
         pc[s] \notin {"off", "publish", "dead", "pmap"}, l \notin {"off", "publish", "dead", "pmap"},
         l \in {"quit", "quitLast"} => boss[s] # None,
         s \in waiters => o = op[s] /\ a = reply[s] /\ l \in {"finish", "collect", "recheck", "wait"},
         s \notin awaiters,
         a # NoReply => l \in {"finish", "collect", "recheck", "wait", "await"},
         a.out = "deadlock" => a = reply[s],
         l \in InChannelLabels => o.on \in Chans,
         l \in InChannelLabels \cup {"await"} => budget'[s] > 0
  PROVE  /\ ContextOK' /\ Waits' /\ Roles' /\ RunnableExact' /\ ClaimsRightly
         /\ pc' \in [Strands -> Labels] /\ op' \in [Strands -> Operations]
         /\ reply' \in [Strands -> Replies]
<1>t. ContextOK /\ TasksOK /\ StrandsOK /\ Waits /\ Roles /\ RunnableExact
  BY DEF IInv, TypeOK
<1>1. \A x \in Strands : /\ pc'[x] = IF x = s THEN l ELSE pc[x]
                         /\ op'[x] = IF x = s THEN o ELSE op[x]
                         /\ reply'[x] = IF x = s THEN a ELSE reply[x]
  BY <1>t DEF StrandsOK
<1>2. ContextOK' /\ pc' \in [Strands -> Labels] /\ op' \in [Strands -> Operations]
      /\ reply' \in [Strands -> Replies]
  BY <1>t DEF ContextOK, StrandsOK, ctxVars
<1>3. Waits'
  BY <1>t, <1>1 DEF Waits, ContextOK, ctxVars
<1>4. Roles'
  BY <1>t, <1>1 DEF Roles, ctxVars, TasksOK
<1>5. Live' = Live
  BY <1>1 DEF Live
<1>6. RunnableExact'
  BY <1>t, <1>5 DEF RunnableExact, Counted, Blocked, ctxVars
<1>7. NewlyDeadlocked = {}
  BY <1>1 DEF NewlyDeadlocked
<1> QED
  BY <1>2, <1>3, <1>4, <1>6, <1>7 DEF ClaimsRightly

(* The three ways a send or a receive leaves its channel: with its own     *)
(* answer, with an answer for the waiter w as well, or blocked.            *)
LEMMA LeavesStep ==
  ASSUME IInv, NEW s \in Strands, pc[s] = "enter", op[s].kind \in {"send", "recv"}, Leaves(s),
         queue' \in [Chans -> Seq(Messages)], senders' \in [Chans -> Seq(Strands)],
         receivers' \in [Chans -> Seq(Strands)],
         \/ \E a \in Replies : Answered(s, a) /\ a.out # "deadlock"
         \/ \E w \in waiters, a \in Replies, b \in Replies :
              Wake(w, a, s, b) /\ a.out # "deadlock" /\ b.out # "deadlock"
         \/ BlockChannel(s) /\ reply' = reply
  PROVE  IInv' /\ ClaimsRightly
<1>t. ContextOK /\ ChannelsOK /\ TasksOK /\ StrandsOK /\ Waits /\ Roles /\ CountersExact
      /\ RunnableExact
  BY DEF IInv, TypeOK
<1>1. /\ pc' = [pc EXCEPT ![s] = "finish"]
      /\ UNCHANGED <<mainActive, owned, awaiters, parked, closed, pending, taskVars,
                     op, todo, budget, runs>>
  BY DEF Leaves, Goto
<1>2. \A x \in Strands : pc'[x] = IF x = s THEN "finish" ELSE pc[x]
  BY <1>1, <1>t DEF StrandsOK
<1>3. s \notin Blocked /\ s \in Counted /\ Live' = Live /\ reply[s] = NoReply
  <2>1. s \notin Blocked /\ s \in Live /\ reply[s] = NoReply
    BY <1>t DEF Blocked, Waits, Live
  <2>2. Live' = Live
    BY <1>2 DEF Live
  <2> QED
    BY <2>1, <2>2 DEF Counted
<1>4. Roles'
  BY <1>1, <1>2, <1>t DEF Roles, taskVars, InChannelLabels
<1>5. CountersExact'
  <2>1. tasks \subseteq Strands
    BY <1>t DEF TasksOK, Strands
  <2> QED
    BY <1>t, <1>1, <1>2, <2>1, PendingStays, WorkStays DEF CountersExact, taskVars
<1>6. ChannelsOK' /\ TasksOK' /\ pc' \in [Strands -> Labels]
  BY <1>t, <1>1 DEF ChannelsOK, TasksOK, taskVars, StrandsOK, Labels
<1>7. SUFFICES ContextOK' /\ reply' \in [Strands -> Replies] /\ Waits' /\ RunnableExact'
               /\ NewlyDeadlocked = {}
  BY <1>t, <1>1, <1>4, <1>5, <1>6 DEF IInv, TypeOK, StrandsOK, ClaimsRightly
<1>8. CASE \E a \in Replies : Answered(s, a) /\ a.out # "deadlock"
  <2> PICK a \in Replies : Answered(s, a) /\ a.out # "deadlock"
    BY <1>8
  <2>1. /\ UNCHANGED <<runnable, waiters, uncounted>>
        /\ reply' = [reply EXCEPT ![s] = a]
    BY DEF Answered
  <2>2. \A x \in Strands : reply'[x] = IF x = s THEN a ELSE reply[x]
    BY <2>1, <1>t DEF StrandsOK
  <2>3. ContextOK' /\ reply' \in [Strands -> Replies]
    BY <2>1, <1>1, <1>t DEF ContextOK, StrandsOK
  <2>4. Waits'
    BY <2>1, <2>2, <1>1, <1>2, <1>3, <1>t DEF Waits, ContextOK, Blocked
  <2>5. RunnableExact' /\ NewlyDeadlocked = {}
    BY <2>1, <2>2, <1>1, <1>3, <1>t DEF RunnableExact, Counted, Blocked, NewlyDeadlocked
  <2> QED
    BY <2>3, <2>4, <2>5
<1>9. CASE \E w \in waiters, a \in Replies, b \in Replies :
             Wake(w, a, s, b) /\ a.out # "deadlock" /\ b.out # "deadlock"
  <2> PICK w \in waiters, a \in Replies, b \in Replies :
             Wake(w, a, s, b) /\ a.out # "deadlock" /\ b.out # "deadlock"
    BY <1>9
  <2>1. w # s /\ w \in Strands /\ w \in Live /\ w \notin awaiters /\ w \notin parked
    BY <1>3, <1>t DEF Blocked, ContextOK, Waits, Live
  <2>2. /\ waiters' = waiters \ {w} /\ uncounted' = {} /\ runnable' = runnable + 1
        /\ reply' = [reply EXCEPT ![w] = a, ![s] = b]
    BY <1>t DEF Wake, Waits
  <2>3. \A x \in Strands : reply'[x] = IF x = s THEN b ELSE IF x = w THEN a ELSE reply[x]
    BY <2>1, <2>2, <1>t DEF StrandsOK
  <2>4. ContextOK' /\ reply' \in [Strands -> Replies]
    <3>1. ContextOK'
      BY <2>2, <1>1, <1>t DEF ContextOK
    <3>2. reply' \in [Strands -> Replies]
      BY <2>2, <1>t DEF StrandsOK
    <3> QED
      BY <3>1, <3>2
  <2>5. Waits'
    <3>1. \A x \in waiters' : x \in waiters /\ x # s /\ x # w
      BY <2>1, <2>2, <1>3 DEF Blocked
    <3>2. \A x \in awaiters \cup parked : x # s /\ x # w
      BY <2>1, <1>3 DEF Blocked
    <3>3. pc[w] \in {"finish", "collect", "recheck", "wait"}
      BY <1>t DEF Waits
    <3>4. \A x \in waiters' : /\ pc'[x] \in {"finish", "collect", "recheck", "wait"}
                             /\ op'[x].kind \in {"send", "recv"} /\ reply'[x] = NoReply
      BY <2>3, <3>1, <1>1, <1>2, <1>t DEF Waits, ContextOK
    <3>5. /\ \A x \in awaiters' : pc'[x] = "await" /\ op'[x].kind = "await" /\ reply'[x] = NoReply
          /\ \A x \in parked' : pc'[x] = "pmap"
      BY <2>3, <3>2, <1>1, <1>2, <1>t, SMTT(30) DEF Waits, ContextOK
    <3>6. \A x \in Strands :
            reply'[x] # NoReply => pc'[x] \in {"finish", "collect", "recheck", "wait", "await"}
      BY <2>3, <3>3, <1>2, <1>t DEF Waits
    <3> QED
      BY <2>2, <3>4, <3>5, <3>6 DEF Waits, NoReply
  <2>6. Counted' = Counted \cup {w} /\ w \in Strands \ Counted /\ Counted \in SUBSET Strands
    BY <2>1, <2>2, <1>1, <1>3 DEF Counted, Blocked, Live
  <2>7. RunnableExact'
    BY <2>2, <2>6, <1>t, CardAdd DEF RunnableExact
  <2>8. NewlyDeadlocked = {}
    BY <2>3 DEF NewlyDeadlocked
  <2> QED
    BY <2>4, <2>5, <2>7, <2>8
<1>10. CASE BlockChannel(s) /\ reply' = reply
  <2>1. /\ waiters' = waiters \cup {s} /\ uncounted' = {} /\ runnable' = runnable - 1
        /\ runnable > 0 /\ runnable \in Nat
    BY <1>10, <1>3, <1>t, CountedPositive DEF BlockChannel, Waits
  <2>2. ContextOK' /\ reply' \in [Strands -> Replies]
    BY <2>1, <1>10, <1>1, <1>t DEF ContextOK, StrandsOK
  <2>3. Waits'
    BY <2>1, <1>10, <1>1, <1>2, <1>3, <1>t DEF Waits, ContextOK, Blocked
  <2>4. Counted' = Counted \ {s} /\ Counted \in SUBSET Strands
    BY <2>1, <1>1, <1>3 DEF Counted, Blocked, Live
  <2>5. RunnableExact'
    BY <2>1, <2>4, <1>3, <1>t, CardRemove DEF RunnableExact
  <2>6. NewlyDeadlocked = {}
    BY <1>10 DEF NewlyDeadlocked
  <2> QED
    BY <2>2, <2>3, <2>5, <2>6
<1> QED
  BY <1>8, <1>9, <1>10
-----------------------------------------------------------------------------
(* Sends and receives.                                                     *)

LEMMA MessageTypes ==
  ASSUME StrandsOK, ConstantsAssumption
  PROVE  /\ \A s \in Strands : Msg(s) \in Messages /\ Received(Msg(s)) \in Replies
         /\ \A m \in Messages : Received(m) \in Replies /\ Received(m).out # "deadlock"
         /\ \A out \in {"none", "committed", "closed", "deadlock"} :
              Answer(out) \in Replies /\ (out # "deadlock" => Answer(out).out # "deadlock")
         /\ NoReply \in Replies /\ NoReply.out # "deadlock" /\ NoOp \in Operations
  BY DEF StrandsOK, Msg, Messages, Received, Answer, Replies, NoReply, NoOp, Operations

LEMMA AfterType ==
  ASSUME NEW S, NEW line \in Seq(S), NEW i \in 1..Len(line)
  PROVE  After(line, i) \in Seq(S) /\ line[i] \in S
  BY DEF After

LEMMA WithoutType ==
  ASSUME NEW line \in Seq(Strands), NEW s \in Strands
  PROVE  Without(line, s) \in Seq(Strands)
<1> DEFINE i == CHOOSE i \in 1..Len(line) : FirstOf(s, line, i)
<1>1. CASE \E j \in 1..Len(line) : FirstOf(s, line, j)
  <2>1. i \in 1..Len(line)
    BY <1>1
  <2> HIDE DEF i
  <2>2. SubSeq(line, 1, i - 1) \in Seq(Strands)
    BY <2>1
  <2>3. SubSeq(line, i + 1, Len(line)) \in Seq(Strands)
    BY <2>1
  <2>4. SubSeq(line, 1, i - 1) \o SubSeq(line, i + 1, Len(line)) \in Seq(Strands)
    BY <2>2, <2>3
  <2> USE DEF i
  <2> QED
    BY <1>1, <2>4 DEF Without
<1>2. CASE ~ \E j \in 1..Len(line) : FirstOf(s, line, j)
  BY <1>2 DEF Without
<1> QED
  BY <1>1, <1>2

LEMMA SendSteps ==
  ASSUME IInv, NEW s \in Strands, SendClosed(s) \/ SendMatch(s) \/ SendBuffer(s) \/ SendBlock(s)
  PROVE  IInv' /\ ClaimsRightly
<1> DEFINE c == op[s].on
<1>t. ChannelsOK /\ StrandsOK /\ Roles /\ pc[s] = "enter" /\ op[s].kind = "send" /\ Leaves(s)
  BY DEF IInv, TypeOK, SendClosed, SendMatch, SendBuffer, SendBlock, InChannel
<1>m. c \in Chans /\ Msg(s) \in Messages /\ Received(Msg(s)) \in Replies
      /\ Received(Msg(s)).out # "deadlock"
      /\ Answer("closed") \in Replies /\ Answer("closed").out # "deadlock"
      /\ Answer("committed") \in Replies /\ Answer("committed").out # "deadlock"
  BY <1>t, MessageTypes, ConstantsAssumption DEF Roles, InChannelLabels
<1> HIDE DEF c
<1>1. CASE SendClosed(s)
  <2>1. UNCHANGED <<queue, senders, receivers>> /\ Answered(s, Answer("closed"))
    BY <1>1 DEF SendClosed
  <2>2. /\ queue' \in [Chans -> Seq(Messages)] /\ senders' \in [Chans -> Seq(Strands)]
        /\ receivers' \in [Chans -> Seq(Strands)]
    BY <2>1, <1>t DEF ChannelsOK
  <2> QED
    BY <2>1, <2>2, <1>t, <1>m, LeavesStep
<1>2. CASE SendMatch(s)
  <2>1. PICK i \in 1..Len(receivers[c]) :
          /\ FirstActive(receivers[c], i)
          /\ Wake(receivers[c][i], Received(Msg(s)), s, Answer("committed"))
          /\ receivers' = [receivers EXCEPT ![c] = After(@, i)]
    BY <1>2 DEF SendMatch, c
  <2>2. /\ queue' \in [Chans -> Seq(Messages)] /\ senders' \in [Chans -> Seq(Strands)]
        /\ receivers' \in [Chans -> Seq(Strands)]
    BY <1>2, <2>1, <1>t, <1>m, AfterType DEF ChannelsOK, SendMatch
  <2>3. receivers[c][i] \in waiters
    BY <2>1 DEF FirstActive
  <2> QED
    BY <2>1, <2>2, <2>3, <1>t, <1>m, LeavesStep
<1>3. CASE SendBuffer(s)
  <2>1. /\ queue' = [queue EXCEPT ![c] = Append(@, Msg(s))]
        /\ receivers' = [receivers EXCEPT ![c] = <<>>]
        /\ Answered(s, Answer("committed")) /\ UNCHANGED senders
    BY <1>3 DEF SendBuffer, c
  <2>2. /\ queue' \in [Chans -> Seq(Messages)] /\ senders' \in [Chans -> Seq(Strands)]
        /\ receivers' \in [Chans -> Seq(Strands)]
    BY <2>1, <1>t, <1>m DEF ChannelsOK
  <2> QED
    BY <2>1, <2>2, <1>t, <1>m, LeavesStep
<1>4. CASE SendBlock(s)
  <2>1. /\ senders' = [senders EXCEPT ![c] = Append(@, s)]
        /\ receivers' = [receivers EXCEPT ![c] = <<>>]
        /\ BlockChannel(s) /\ UNCHANGED <<queue, reply>>
    BY <1>4 DEF SendBlock, c
  <2>2. /\ queue' \in [Chans -> Seq(Messages)] /\ senders' \in [Chans -> Seq(Strands)]
        /\ receivers' \in [Chans -> Seq(Strands)]
    BY <2>1, <1>t, <1>m DEF ChannelsOK
  <2> QED
    BY <2>1, <2>2, <1>t, LeavesStep
<1> QED
  BY <1>1, <1>2, <1>3, <1>4

LEMMA RecvSteps ==
  ASSUME IInv, NEW s \in Strands,
         RecvBuffered(s) \/ RecvMatch(s) \/ RecvClosed(s) \/ RecvBlock(s)
  PROVE  IInv' /\ ClaimsRightly
<1> DEFINE c == op[s].on
<1>t. ChannelsOK /\ StrandsOK /\ Roles /\ pc[s] = "enter" /\ op[s].kind = "recv" /\ Leaves(s)
  BY DEF IInv, TypeOK, RecvBuffered, RecvMatch, RecvClosed, RecvBlock, InChannel
<1>m. c \in Chans
      /\ Answer("closed") \in Replies /\ Answer("closed").out # "deadlock"
      /\ Answer("committed") \in Replies /\ Answer("committed").out # "deadlock"
  BY <1>t, MessageTypes, ConstantsAssumption DEF Roles, InChannelLabels
<1>n. \A w \in Strands : Msg(w) \in Messages
  BY <1>t, MessageTypes, ConstantsAssumption
<1>o. \A m \in Messages : Received(m) \in Replies /\ Received(m).out # "deadlock"
  BY <1>t, MessageTypes, ConstantsAssumption
<1> HIDE DEF c
<1>1. CASE RecvBuffered(s)
  <2> DEFINE got == Received(Head(queue[c]))
  <2>1. /\ UNCHANGED receivers /\ queue[c] \in Seq(Messages) /\ queue[c] # <<>>
    BY <1>1, <1>t, <1>m DEF RecvBuffered, c, ChannelsOK
  <2>2. got \in Replies /\ got.out # "deadlock" /\ Tail(queue[c]) \in Seq(Messages)
    BY <2>1, <1>o
  <2> HIDE DEF got
  <2>3. CASE \E i \in 1..Len(senders[c]) :
               /\ FirstActive(senders[c], i)
               /\ Wake(senders[c][i], Answer("committed"), s, got)
               /\ senders' = [senders EXCEPT ![c] = After(@, i)]
               /\ queue' = [queue EXCEPT ![c] = Append(Tail(@), Msg(senders[c][i]))]
    <3> PICK i \in 1..Len(senders[c]) :
               /\ FirstActive(senders[c], i)
               /\ Wake(senders[c][i], Answer("committed"), s, got)
               /\ senders' = [senders EXCEPT ![c] = After(@, i)]
               /\ queue' = [queue EXCEPT ![c] = Append(Tail(@), Msg(senders[c][i]))]
      BY <2>3
    <3>1. After(senders[c], i) \in Seq(Strands) /\ senders[c][i] \in Strands
      BY <1>t, <1>m, AfterType DEF ChannelsOK
    <3>2. /\ queue' \in [Chans -> Seq(Messages)] /\ senders' \in [Chans -> Seq(Strands)]
          /\ receivers' \in [Chans -> Seq(Strands)]
      BY <3>1, <2>1, <2>2, <1>t, <1>m, <1>n DEF ChannelsOK
    <3>3. senders[c][i] \in waiters
      BY DEF FirstActive
    <3> QED
      BY <3>2, <3>3, <2>2, <1>t, <1>m, LeavesStep
  <2>4. CASE /\ Answered(s, got)
             /\ senders' = [senders EXCEPT ![c] = IF closed[c] THEN @ ELSE <<>>]
             /\ queue' = [queue EXCEPT ![c] = Tail(@)]
    <3>1. /\ queue' \in [Chans -> Seq(Messages)] /\ senders' \in [Chans -> Seq(Strands)]
          /\ receivers' \in [Chans -> Seq(Strands)]
      BY <2>1, <2>2, <2>4, <1>t, <1>m DEF ChannelsOK
    <3> QED
      BY <3>1, <2>2, <2>4, <1>t, LeavesStep
  <2> QED
    BY <1>1, <2>3, <2>4 DEF RecvBuffered, c, got
<1>2. CASE RecvMatch(s)
  <2>1. PICK i \in 1..Len(senders[c]) :
          /\ FirstActive(senders[c], i)
          /\ Wake(senders[c][i], Answer("committed"), s, Received(Msg(senders[c][i])))
          /\ senders' = [senders EXCEPT ![c] = After(@, i)]
    BY <1>2 DEF RecvMatch, c
  <2>2. After(senders[c], i) \in Seq(Strands) /\ senders[c][i] \in Strands
    BY <1>t, <1>m, AfterType DEF ChannelsOK
  <2>3. /\ queue' \in [Chans -> Seq(Messages)] /\ senders' \in [Chans -> Seq(Strands)]
        /\ receivers' \in [Chans -> Seq(Strands)]
    BY <1>2, <2>1, <2>2, <1>t, <1>m DEF ChannelsOK, RecvMatch
  <2>4. senders[c][i] \in waiters
    BY <2>1 DEF FirstActive
  <2>5. Received(Msg(senders[c][i])) \in Replies
        /\ Received(Msg(senders[c][i])).out # "deadlock"
    BY <2>2, <1>n, <1>o
  <2> QED
    BY <2>1, <2>3, <2>4, <2>5, <1>t, <1>m, LeavesStep
<1>3. CASE RecvClosed(s)
  <2>1. UNCHANGED <<queue, senders, receivers>> /\ Answered(s, Answer("closed"))
    BY <1>3 DEF RecvClosed
  <2>2. /\ queue' \in [Chans -> Seq(Messages)] /\ senders' \in [Chans -> Seq(Strands)]
        /\ receivers' \in [Chans -> Seq(Strands)]
    BY <2>1, <1>t DEF ChannelsOK
  <2> QED
    BY <2>1, <2>2, <1>t, <1>m, LeavesStep
<1>4. CASE RecvBlock(s)
  <2>1. /\ receivers' = [receivers EXCEPT ![c] = Append(@, s)]
        /\ senders' = [senders EXCEPT ![c] = <<>>]
        /\ BlockChannel(s) /\ UNCHANGED <<queue, reply>>
    BY <1>4 DEF RecvBlock, c
  <2>2. /\ queue' \in [Chans -> Seq(Messages)] /\ senders' \in [Chans -> Seq(Strands)]
        /\ receivers' \in [Chans -> Seq(Strands)]
    BY <2>1, <1>t, <1>m DEF ChannelsOK
  <2> QED
    BY <2>1, <2>2, <1>t, LeavesStep
<1> QED
  BY <1>1, <1>2, <1>3, <1>4
LEMMA SameExcept ==
  ASSUME StrandsOK, NEW s \in Strands
  PROVE  /\ pc = [pc EXCEPT ![s] = pc[s]] /\ pc[s] \in Labels
         /\ op = [op EXCEPT ![s] = op[s]] /\ op[s] \in Operations
         /\ reply = [reply EXCEPT ![s] = reply[s]] /\ reply[s] \in Replies
         /\ budget[s] \in 0..MaxOps
  BY DEF StrandsOK

(* What every step of a strand that is at none of the labels of a wait     *)
(* starts from.                                                            *)
LEMMA AtWork ==
  ASSUME IInv, NEW s \in Strands, pc[s] \in {"run", "enter", "closing", "quit", "quitLast"}
  PROVE  /\ ContextOK /\ ChannelsOK /\ TasksOK /\ StrandsOK /\ Waits /\ Roles
         /\ CountersExact /\ RunnableExact
         /\ s \in Live /\ s \notin Blocked /\ s \in Counted /\ reply[s] = NoReply
         /\ tasks \subseteq Strands
<1>1. /\ ContextOK /\ ChannelsOK /\ TasksOK /\ StrandsOK /\ Waits /\ Roles
      /\ CountersExact /\ RunnableExact
  BY DEF IInv, TypeOK
<1>2. s \in Live /\ s \notin Blocked /\ s \in Counted /\ reply[s] = NoReply
  BY <1>1 DEF Waits, Live, Blocked, Counted
<1> QED
  BY <1>1, <1>2 DEF TasksOK, Strands

LEMMA BudgetSpent ==
  ASSUME budget \in [Strands -> 0..MaxOps], NEW s \in Strands, budget[s] > 0,
         budget' = [budget EXCEPT ![s] = @ - 1]
  PROVE  /\ budget' \in [Strands -> 0..MaxOps]
         /\ \A x \in Strands \ {s} : budget'[x] = budget[x]
  BY ConstantsAssumption

LEMMA EnterStep ==
  ASSUME IInv, NEW s \in Strands, NEW kind \in {"send", "recv"}, NEW c \in Chans,
         Enter(s, kind, c)
  PROVE  IInv' /\ ClaimsRightly
<1> DEFINE o == [kind |-> kind, on |-> c]
<1>1. /\ pc[s] = "run" /\ budget[s] > 0
      /\ op' = [op EXCEPT ![s] = o] /\ pc' = [pc EXCEPT ![s] = "enter"]
      /\ pending' = [pending EXCEPT ![c] = @ + 1]
      /\ UNCHANGED <<ctxVars, queue, senders, receivers, closed, taskVars, reply, todo,
                     budget, runs>>
  BY DEF Enter, Starts, Goto
<1>t. /\ ContextOK /\ ChannelsOK /\ TasksOK /\ StrandsOK /\ CountersExact
      /\ s \notin Blocked /\ reply[s] = NoReply /\ tasks \subseteq Strands
  BY <1>1, AtWork
<1>2. o \in Operations /\ o.on = c
  BY DEF Operations
<1> HIDE DEF o
<1>3. /\ ContextOK' /\ Waits' /\ Roles' /\ RunnableExact' /\ ClaimsRightly
      /\ pc' \in [Strands -> Labels] /\ op' \in [Strands -> Operations]
      /\ reply' \in [Strands -> Replies]
  <2>1. reply' = [reply EXCEPT ![s] = NoReply] /\ NoReply \in Replies /\ NoReply.out # "deadlock"
    BY <1>1, <1>t, SameExcept, MessageTypes, ConstantsAssumption
  <2>2. UNCHANGED <<tasks, boss>> /\ budget' \in [Strands -> 0..MaxOps]
    BY <1>1, <1>t DEF StrandsOK, taskVars
  <2> QED
    BY <1>1, <1>2, <1>t, <2>1, <2>2, LocalStep DEF Blocked, Labels
<1>4. ChannelsOK' /\ TasksOK' /\ StrandsOK'
  BY <1>1, <1>3, <1>t, SMTT(30) DEF ChannelsOK, TasksOK, StrandsOK, taskVars
<1>5. \A x \in Strands : /\ pc'[x] = IF x = s THEN "enter" ELSE pc[x]
                         /\ op'[x] = IF x = s THEN o ELSE op[x]
  BY <1>1, <1>t DEF StrandsOK
<1>6. \A d \in Chans : pending'[d] = Cardinality(Entering(d)')
  <2> TAKE d \in Chans
  <2>1. CASE d = c
    <3>1. Entering(c)' = Entering(c) \cup {s} /\ s \in Strands \ Entering(c)
      BY <1>1, <1>2, <1>5 DEF Entering
    <3>2. Entering(c) \in SUBSET Strands
      BY DEF Entering
    <3> QED
      BY <2>1, <3>1, <3>2, <1>1, <1>t, CardAdd DEF CountersExact, ChannelsOK
  <2>2. CASE d # c
    <3>1. Entering(d)' = Entering(d)
      BY <2>2, <1>1, <1>2, <1>5 DEF Entering
    <3> QED
      BY <2>2, <3>1, <1>1, <1>t DEF CountersExact, ChannelsOK
  <2> QED
    BY <2>1, <2>2
<1>7. CountersExact'
  BY <1>1, <1>5, <1>6, <1>t, WorkStays DEF CountersExact, taskVars
<1> QED
  BY <1>3, <1>4, <1>7 DEF IInv, TypeOK

LEMMA FinishPendingStep ==
  ASSUME IInv, NEW s \in Strands, FinishPending(s)
  PROVE  IInv' /\ ClaimsRightly
<1>t. /\ ContextOK /\ ChannelsOK /\ TasksOK /\ StrandsOK /\ CountersExact /\ Waits /\ Roles
      /\ tasks \subseteq Strands
  BY DEF IInv, TypeOK, TasksOK, Strands
<1>c. PICK c \in Chans : c = op[s].on /\ pc[s] = "finish" /\ budget[s] > 0
  BY <1>t DEF FinishPending, Roles, InChannelLabels
<1> DEFINE l == IF pending[c] = 1 THEN "collect" ELSE "wait"
<1>1. /\ pc[s] = "finish" /\ pc' = [pc EXCEPT ![s] = l]
      /\ pending' = [pending EXCEPT ![c] = @ - 1]
      /\ UNCHANGED <<ctxVars, queue, senders, receivers, closed, taskVars, op, reply, todo,
                     budget, runs>>
  BY <1>c DEF FinishPending, Goto
<1>2. c = op[s].on /\ l \in {"collect", "wait"} /\ budget[s] > 0
  BY <1>c
<1> HIDE DEF l
<1>3. /\ ContextOK' /\ Waits' /\ Roles' /\ RunnableExact' /\ ClaimsRightly
      /\ pc' \in [Strands -> Labels] /\ op' \in [Strands -> Operations]
      /\ reply' \in [Strands -> Replies]
  <2>1. /\ reply' = [reply EXCEPT ![s] = reply[s]] /\ reply[s] \in Replies
        /\ op' = [op EXCEPT ![s] = op[s]] /\ op[s] \in Operations
    BY <1>1, <1>t, SameExcept
  <2>2. UNCHANGED <<tasks, boss>> /\ budget' \in [Strands -> 0..MaxOps]
    BY <1>1, <1>t DEF StrandsOK, taskVars
  <2>3. s \notin awaiters
    BY <1>1, <1>t DEF Waits
  <2> QED
    BY <1>1, <1>2, <1>t, <2>1, <2>2, <2>3, LocalStep DEF Labels
<1>5. \A x \in Strands : pc'[x] = IF x = s THEN l ELSE pc[x]
  BY <1>1, <1>t DEF StrandsOK
<1>6. \A d \in Chans : pending'[d] = Cardinality(Entering(d)') /\ pending'[d] \in Nat
  <2> TAKE d \in Chans
  <2>1. CASE d = c
    <3>1. Entering(c)' = Entering(c) \ {s} /\ s \in Entering(c)
      BY <1>1, <1>2, <1>5 DEF Entering
    <3>2. Entering(c) \in SUBSET Strands
      BY DEF Entering
    <3>3. pending'[c] = pending[c] - 1 /\ pending[c] \in Nat /\ pending[c] = Cardinality(Entering(c))
      BY <1>1, <1>2, <1>t DEF CountersExact, ChannelsOK
    <3>4. Cardinality(Entering(c) \ {s}) = Cardinality(Entering(c)) - 1
          /\ Cardinality(Entering(c)) > 0
      BY <3>1, <3>2, CardRemove
    <3> QED
      BY <2>1, <3>1, <3>3, <3>4
  <2>2. CASE d # c
    <3>1. Entering(d)' = Entering(d)
      BY <2>2, <1>1, <1>2, <1>5 DEF Entering
    <3> QED
      BY <2>2, <3>1, <1>1, <1>t DEF CountersExact, ChannelsOK
  <2> QED
    BY <2>1, <2>2
<1>4. ChannelsOK' /\ TasksOK' /\ StrandsOK'
  <2>1. pending' \in [Chans -> Nat]
    BY <1>1, <1>6, <1>t DEF ChannelsOK
  <2> QED
    BY <2>1, <1>1, <1>3, <1>t DEF ChannelsOK, TasksOK, StrandsOK, taskVars
<1>7. CountersExact'
  BY <1>1, <1>2, <1>5, <1>6, <1>t, WorkStays DEF CountersExact, taskVars
<1> QED
  BY <1>3, <1>4, <1>7 DEF IInv, TypeOK
(* The counters after a step of s between labels that none of them looks   *)
(* at.                                                                     *)
LEMMA CountersStay ==
  ASSUME IInv, NEW s \in Strands, NEW l \in Labels, pc' = [pc EXCEPT ![s] = l],
         {pc[s], l} \cap {"enter", "finish", "quit", "quitLast", "dead"} = {},
         \A x \in Strands \ {s} : op'[x] = op[x],
         UNCHANGED <<pending, tasks, liveTasks, boss, remaining>>
  PROVE  CountersExact'
<1>t. StrandsOK /\ CountersExact /\ tasks \subseteq Strands
  BY DEF IInv, TypeOK, TasksOK, Strands
<1>1. \A x \in Strands : pc'[x] = IF x = s THEN l ELSE pc[x]
  BY <1>t DEF StrandsOK
<1> QED
  BY <1>1, <1>t, PendingStays, WorkStays DEF CountersExact

LEMMA CollectContextsStep ==
  ASSUME IInv, NEW s \in Strands, CollectContexts(s)
  PROVE  IInv' /\ ClaimsRightly
<1> DEFINE c == op[s].on
           l == IF senders[c] = <<>> /\ receivers[c] = <<>> THEN "wait" ELSE "recheck"
<1>t. ContextOK /\ ChannelsOK /\ TasksOK /\ StrandsOK /\ Waits /\ Roles
  BY DEF IInv, TypeOK
<1>1. /\ pc[s] = "collect" /\ pc' = [pc EXCEPT ![s] = l] /\ l \in {"wait", "recheck"}
      /\ UNCHANGED <<ctxVars, chanVars, taskVars, op, reply, todo, budget, runs>>
  BY DEF CollectContexts, Goto
<1> HIDE DEF c, l
<1>2. /\ s \notin awaiters /\ budget[s] > 0 /\ op[s].on \in Chans
      /\ op' = [op EXCEPT ![s] = op[s]] /\ reply' = [reply EXCEPT ![s] = reply[s]]
      /\ op[s] \in Operations /\ reply[s] \in Replies
  BY <1>1, <1>t, SameExcept DEF Waits, Roles, InChannelLabels
<1>3. /\ ContextOK' /\ Waits' /\ Roles' /\ RunnableExact' /\ ClaimsRightly
      /\ pc' \in [Strands -> Labels] /\ op' \in [Strands -> Operations]
      /\ reply' \in [Strands -> Replies]
  BY <1>1, <1>2, <1>t, LocalStep DEF Labels, StrandsOK, taskVars
<1>4. ChannelsOK' /\ TasksOK' /\ StrandsOK'
  BY <1>1, <1>3, <1>t DEF ChannelsOK, TasksOK, StrandsOK, taskVars, chanVars
<1>5. CountersExact'
  BY <1>1, CountersStay DEF Labels, taskVars, chanVars
<1> QED
  BY <1>3, <1>4, <1>5 DEF IInv, TypeOK

LEMMA ReturnStep ==
  ASSUME IInv, NEW s \in Strands, Return(s)
  PROVE  IInv' /\ ClaimsRightly
<1> DEFINE c == op[s].on
<1>t. ContextOK /\ ChannelsOK /\ TasksOK /\ StrandsOK /\ Waits /\ Roles
  BY DEF IInv, TypeOK
<1>1. /\ pc[s] = "wait" /\ reply[s] # NoReply
      /\ pc' = [pc EXCEPT ![s] = "run"] /\ op' = [op EXCEPT ![s] = NoOp]
      /\ reply' = [reply EXCEPT ![s] = NoReply]
      /\ budget' = [budget EXCEPT ![s] = @ - 1]
      /\ UNCHANGED <<ctxVars, queue, closed, pending, taskVars, todo, runs>>
  BY DEF Return, Ends, Goto
<1>2. \/ UNCHANGED <<senders, receivers>>
      \/ /\ senders' = [senders EXCEPT ![c] = Without(@, s)]
         /\ receivers' = [receivers EXCEPT ![c] = Without(@, s)]
  BY DEF Return
<1>3. s \notin Blocked /\ c \in Chans /\ budget[s] > 0 /\ budget' \in [Strands -> 0..MaxOps]
  <2>1. s \notin Blocked
    BY <1>1, <1>t DEF Waits, Blocked
  <2>2. c \in Chans /\ budget[s] > 0
    BY <1>1, <1>t DEF Roles, InChannelLabels
  <2>3. budget' \in [Strands -> 0..MaxOps]
    BY <1>1, <2>2, <1>t, BudgetSpent DEF StrandsOK
  <2> QED
    BY <2>1, <2>2, <2>3
<1> HIDE DEF c
<1>4. senders' \in [Chans -> Seq(Strands)] /\ receivers' \in [Chans -> Seq(Strands)]
  <2>1. /\ senders \in [Chans -> Seq(Strands)] /\ Without(senders[c], s) \in Seq(Strands)
        /\ receivers \in [Chans -> Seq(Strands)] /\ Without(receivers[c], s) \in Seq(Strands)
    BY <1>3, <1>t, WithoutType DEF ChannelsOK
  <2> QED
    BY <1>2, <2>1
<1>5. /\ ContextOK' /\ Waits' /\ Roles' /\ RunnableExact' /\ ClaimsRightly
      /\ pc' \in [Strands -> Labels] /\ op' \in [Strands -> Operations]
      /\ reply' \in [Strands -> Replies]
  <2>1. NoOp \in Operations /\ NoReply \in Replies /\ NoReply.out # "deadlock"
    BY <1>t, MessageTypes, ConstantsAssumption
  <2>2. \A x \in Strands \ {s} : budget'[x] = budget[x]
    BY <1>1, <1>t DEF StrandsOK
  <2> QED
    BY <1>1, <1>3, <1>t, <2>1, <2>2, LocalStep DEF Labels, taskVars, Blocked, InChannelLabels
<1>6. ChannelsOK' /\ TasksOK' /\ StrandsOK'
  BY <1>1, <1>3, <1>4, <1>5, <1>t DEF ChannelsOK, TasksOK, StrandsOK, taskVars
<1>7. CountersExact'
  BY <1>1, <1>t, CountersStay DEF Labels, taskVars, StrandsOK
<1> QED
  BY <1>5, <1>6, <1>7 DEF IInv, TypeOK
-----------------------------------------------------------------------------
(* close.                                                                  *)

LEMMA CloseStep ==
  ASSUME IInv, NEW s \in Strands, NEW c \in Chans, Close(s, c)
  PROVE  IInv' /\ ClaimsRightly
<1> DEFINE o == [kind |-> "close", on |-> c]
<1>1. /\ pc[s] = "run" /\ budget[s] > 0
      /\ pc' = [pc EXCEPT ![s] = "closing"] /\ op' = [op EXCEPT ![s] = o]
      /\ closed' = [closed EXCEPT ![c] = TRUE]
      /\ todo' = [todo EXCEPT ![s] = IF closed[c] THEN <<>> ELSE senders[c] \o receivers[c]]
      /\ senders' = [senders EXCEPT ![c] = IF closed[c] THEN @ ELSE <<>>]
      /\ receivers' = [receivers EXCEPT ![c] = IF closed[c] THEN @ ELSE <<>>]
      /\ UNCHANGED <<ctxVars, queue, pending, taskVars, reply, budget, runs>>
  BY DEF Close, Starts, Goto
<1>t. /\ ContextOK /\ ChannelsOK /\ TasksOK /\ StrandsOK
      /\ s \notin Blocked /\ reply[s] = NoReply
  BY <1>1, AtWork
<1>2. o \in Operations /\ o.on = c
  BY DEF Operations
<1> HIDE DEF o
<1>3. /\ ContextOK' /\ Waits' /\ Roles' /\ RunnableExact' /\ ClaimsRightly
      /\ pc' \in [Strands -> Labels] /\ op' \in [Strands -> Operations]
      /\ reply' \in [Strands -> Replies]
  <2>1. /\ reply' = [reply EXCEPT ![s] = NoReply] /\ NoReply \in Replies
        /\ NoReply.out # "deadlock"
    BY <1>1, <1>t, SameExcept, MessageTypes, ConstantsAssumption
  <2>2. UNCHANGED <<tasks, boss>> /\ budget' \in [Strands -> 0..MaxOps]
    BY <1>1, <1>t DEF StrandsOK, taskVars
  <2> QED
    BY <1>1, <1>2, <1>t, <2>1, <2>2, LocalStep DEF Blocked, Labels
<1>4. todo' \in [Strands -> Seq(Strands)]
  <2>1. senders[c] \in Seq(Strands) /\ receivers[c] \in Seq(Strands)
    BY <1>t DEF ChannelsOK
  <2>2. senders[c] \o receivers[c] \in Seq(Strands)
    BY <2>1
  <2> QED
    BY <2>2, <1>1, <1>t DEF StrandsOK
<1>5. ChannelsOK' /\ TasksOK' /\ StrandsOK'
  <2>1. ChannelsOK'
    BY <1>1, <1>t DEF ChannelsOK
  <2>2. TasksOK' /\ StrandsOK'
    BY <1>1, <1>3, <1>4, <1>t DEF TasksOK, StrandsOK, taskVars
  <2> QED
    BY <2>1, <2>2
<1>6. CountersExact'
  BY <1>1, <1>t, CountersStay DEF Labels, taskVars, StrandsOK
<1> QED
  BY <1>3, <1>5, <1>6 DEF IInv, TypeOK

LEMMA CloseWakeStep ==
  ASSUME IInv, NEW s \in Strands, CloseWake(s)
  PROVE  IInv' /\ ClaimsRightly
<1>1. /\ pc[s] = "closing" /\ todo[s] # <<>>
      /\ todo' = [todo EXCEPT ![s] = Tail(@)]
      /\ UNCHANGED <<mainActive, owned, awaiters, parked, chanVars, taskVars, pc, op,
                     budget, runs>>
  BY DEF CloseWake
<1>t. /\ ContextOK /\ ChannelsOK /\ TasksOK /\ StrandsOK /\ Waits /\ Roles /\ RunnableExact
      /\ reply[s] = NoReply
  BY <1>1, AtWork
<1>2. todo' \in [Strands -> Seq(Strands)]
  BY <1>1, <1>t DEF StrandsOK
<1>3. Roles' /\ ChannelsOK' /\ TasksOK' /\ Live' = Live
  BY <1>1, <1>t DEF Roles, ChannelsOK, TasksOK, chanVars, taskVars, Live
<1>4. CountersExact'
  BY <1>1 DEF IInv, CountersExact, Entering, WorkersOf, Unreleased, chanVars, taskVars
<1>5. SUFFICES ContextOK' /\ reply' \in [Strands -> Replies] /\ Waits' /\ RunnableExact'
               /\ NewlyDeadlocked = {}
  BY <1>1, <1>2, <1>3, <1>4, <1>t DEF IInv, TypeOK, StrandsOK, ClaimsRightly
<1>6. CASE UNCHANGED <<waiters, uncounted, runnable, reply>>
  <2>1. ContextOK' /\ reply' \in [Strands -> Replies]
    BY <1>6, <1>1, <1>t DEF ContextOK, StrandsOK
  <2>2. Waits'
    BY <1>6, <1>1, <1>t DEF Waits
  <2>3. RunnableExact' /\ NewlyDeadlocked = {}
    BY <1>6, <1>1, <1>3, <1>t DEF RunnableExact, Counted, Blocked, NewlyDeadlocked
  <2> QED
    BY <2>1, <2>2, <2>3
<1>7. CASE \E w \in waiters : Wake(w, Answer("closed"), w, Answer("closed"))
  <2> PICK w \in waiters : Wake(w, Answer("closed"), w, Answer("closed"))
    BY <1>7
  <2>1. /\ w \in Strands /\ w \in Live /\ w \notin awaiters /\ w \notin parked
        /\ pc[w] \in {"finish", "collect", "recheck", "wait"}
    BY <1>t DEF ContextOK, Waits, Live
  <2>2. /\ waiters' = waiters \ {w} /\ uncounted' = {} /\ runnable' = runnable + 1
        /\ reply' = [reply EXCEPT ![w] = Answer("closed"), ![w] = Answer("closed")]
    BY <1>t DEF Wake, Waits
  <2>3. Answer("closed") \in Replies /\ Answer("closed").out # "deadlock"
    BY <1>t, MessageTypes, ConstantsAssumption
  <2>4. /\ reply' \in [Strands -> Replies]
        /\ \A x \in Strands : reply'[x] = IF x = w THEN Answer("closed") ELSE reply[x]
    BY <2>1, <2>2, <2>3, <1>t DEF StrandsOK
  <2>5. ContextOK'
    BY <2>2, <1>1, <1>t DEF ContextOK
  <2>6. Waits'
    <3>1. \A x \in waiters' : /\ pc'[x] \in {"finish", "collect", "recheck", "wait"}
                             /\ op'[x].kind \in {"send", "recv"} /\ reply'[x] = NoReply
      BY <2>2, <2>4, <1>1, <1>t DEF Waits, ContextOK
    <3>2. /\ \A x \in awaiters' : pc'[x] = "await" /\ op'[x].kind = "await" /\ reply'[x] = NoReply
          /\ \A x \in parked' : pc'[x] = "pmap"
      BY <2>1, <2>4, <1>1, <1>t DEF Waits, ContextOK
    <3>3. \A x \in Strands :
            reply'[x] # NoReply => pc'[x] \in {"finish", "collect", "recheck", "wait", "await"}
      BY <2>1, <2>4, <1>1, <1>t DEF Waits
    <3> QED
      BY <2>2, <3>1, <3>2, <3>3 DEF Waits, NoReply
  <2>7. Counted' = Counted \cup {w} /\ w \in Strands \ Counted /\ Counted \in SUBSET Strands
    BY <2>1, <2>2, <1>1, <1>3 DEF Counted, Blocked, Live
  <2>8. RunnableExact'
    BY <2>2, <2>7, <1>t, CardAdd DEF RunnableExact
  <2>9. NewlyDeadlocked = {}
    BY <2>3, <2>4 DEF NewlyDeadlocked
  <2> QED
    BY <2>4, <2>5, <2>6, <2>8, <2>9
<1> QED
  BY <1>6, <1>7 DEF CloseWake

(* Steps that end an operation, or do it all at once, and touch neither    *)
(* channels nor tasks nor the context: the rest of close, a refused spawn, *)
(* an await of a finished task, and an await that is told of a deadlock.   *)
LEMMA SimpleEnds ==
  ASSUME IInv, NEW s \in Strands,
         \/ CloseDone(s) \/ SpawnRefused(s) \/ \E t \in Pool : AwaitDone(s, t)
         \/ AwaitDeadlock(s)
  PROVE  IInv' /\ ClaimsRightly
<1>t. ContextOK /\ ChannelsOK /\ TasksOK /\ StrandsOK /\ Waits /\ Roles
  BY DEF IInv, TypeOK
<1>r. NoReply \in Replies /\ NoReply.out # "deadlock" /\ NoOp \in Operations
  BY <1>t, MessageTypes, ConstantsAssumption
<1>1. /\ pc[s] \in {"run", "closing", "await"}
      /\ budget' = [budget EXCEPT ![s] = @ - 1] /\ budget[s] > 0
      /\ UNCHANGED <<ctxVars, chanVars, taskVars, todo, runs>>
      /\ s \notin waiters /\ s \notin awaiters
  <2>1. CASE CloseDone(s) \/ SpawnRefused(s) \/ \E t \in Pool : AwaitDone(s, t)
    BY <2>1, <1>t DEF CloseDone, SpawnRefused, AwaitDone, Ends, Waits, Roles, InChannelLabels
  <2>2. CASE AwaitDeadlock(s)
    BY <2>2, <1>t DEF AwaitDeadlock, Ends, Waits, Roles, NoReply
  <2> QED
    BY <2>1, <2>2
<1>2. /\ pc' = [pc EXCEPT ![s] = "run"] /\ reply' = [reply EXCEPT ![s] = NoReply]
      /\ \E o \in Operations : op' = [op EXCEPT ![s] = o]
  <2>1. CASE CloseDone(s)
    <3>1. reply = [reply EXCEPT ![s] = reply[s]] /\ reply[s] = NoReply
      BY <2>1, <1>t, SameExcept DEF CloseDone, Waits
    <3> QED
      BY <2>1, <3>1, <1>r DEF CloseDone, Ends, Goto
  <2>2. CASE SpawnRefused(s) \/ \E t \in Pool : AwaitDone(s, t)
    <3>1. /\ reply = [reply EXCEPT ![s] = reply[s]] /\ reply[s] = NoReply
          /\ pc = [pc EXCEPT ![s] = pc[s]] /\ pc[s] = "run" /\ op = [op EXCEPT ![s] = op[s]]
          /\ op[s] \in Operations
      BY <2>2, <1>t, SameExcept DEF SpawnRefused, AwaitDone, Waits
    <3>2. UNCHANGED <<pc, op, reply>>
      BY <2>2 DEF SpawnRefused, AwaitDone
    <3> QED
      BY <3>1, <3>2
  <2>3. CASE AwaitDeadlock(s)
    BY <2>3, <1>r DEF AwaitDeadlock, Ends, Goto
  <2> QED
    BY <2>1, <2>2, <2>3
<1> PICK o \in Operations : op' = [op EXCEPT ![s] = o]
  BY <1>2
<1>3. budget' \in [Strands -> 0..MaxOps] /\ \A x \in Strands \ {s} : budget'[x] = budget[x]
  BY <1>1, <1>t, BudgetSpent DEF StrandsOK
<1>4. /\ ContextOK' /\ Waits' /\ Roles' /\ RunnableExact' /\ ClaimsRightly
      /\ pc' \in [Strands -> Labels] /\ op' \in [Strands -> Operations]
      /\ reply' \in [Strands -> Replies]
  BY <1>1, <1>2, <1>3, <1>r, LocalStep DEF Labels, taskVars, InChannelLabels
<1>5. ChannelsOK' /\ TasksOK' /\ StrandsOK'
  BY <1>1, <1>3, <1>4, <1>t DEF ChannelsOK, TasksOK, StrandsOK, taskVars, chanVars
<1>6. CountersExact'
  <2>1. \A x \in Strands \ {s} : op'[x] = op[x]
    BY <1>t DEF StrandsOK
  <2>2. UNCHANGED <<pending, tasks, liveTasks, boss, remaining>>
    BY <1>1 DEF taskVars, chanVars
  <2> QED
    BY <1>1, <1>2, <2>1, <2>2, CountersStay DEF Labels
<1> QED
  BY <1>4, <1>5, <1>6 DEF IInv, TypeOK
-----------------------------------------------------------------------------
(* Strands that start, resume or stop being tracked.                       *)

(* NewlyDeadlocked is empty when no reply becomes a deadlock answer.       *)
LEMMA NoClaim ==
  ASSUME UNCHANGED reply
  PROVE  ClaimsRightly
  BY DEF ClaimsRightly, NewlyDeadlocked

LEMMA BeginRunStep ==
  ASSUME IInv, BeginRun
  PROVE  IInv' /\ ClaimsRightly
<1>t. /\ ContextOK /\ ChannelsOK /\ TasksOK /\ StrandsOK /\ Waits /\ Roles /\ CountersExact
      /\ RunnableExact /\ tasks \subseteq Strands /\ Main \in Strands
  BY DEF IInv, TypeOK, TasksOK, Strands
<1>1. /\ pc[Main] = "off" /\ runs < MaxRuns /\ runs' = runs + 1
      /\ pc' = [pc EXCEPT ![Main] = "run"]
      /\ budget' = [budget EXCEPT ![Main] = MaxOps]
      /\ mainActive' = TRUE /\ owned' = {Main} /\ runnable' = runnable + 1
      /\ UNCHANGED <<waiters, uncounted, awaiters, parked, chanVars, taskVars, op, reply, todo>>
  BY <1>t DEF BeginRun, Goto, Roles
<1>2. /\ \A x \in Strands : pc'[x] = IF x = Main THEN "run" ELSE pc[x]
      /\ \A x \in Strands \ {Main} : budget'[x] = budget[x]
      /\ budget' \in [Strands -> 0..MaxOps] /\ pc' \in [Strands -> Labels]
  BY <1>1, <1>t, ConstantsAssumption DEF StrandsOK, Labels
<1>3. ContextOK' /\ ChannelsOK' /\ TasksOK'
  BY <1>1, <1>t DEF ContextOK, ChannelsOK, TasksOK, chanVars, taskVars
<1>4. StrandsOK'
  BY <1>1, <1>2, <1>t, ConstantsAssumption DEF StrandsOK
<1>5. Waits'
  BY <1>1, <1>2, <1>t DEF Waits, ContextOK
<1>6. Roles'
  BY <1>1, <1>2, <1>t DEF Roles, taskVars, InChannelLabels
<1>7. CountersExact'
  BY <1>1, <1>t, CountersStay DEF Labels, chanVars, taskVars
<1>8. RunnableExact'
  <2>1. Live' = Live \cup {Main} /\ Main \notin Live
    BY <1>1, <1>2, <1>t DEF Live
  <2>2. Main \notin Blocked
    BY <1>1, <1>t DEF Waits, Blocked
  <2>3. Counted' = Counted \cup {Main} /\ Main \in Strands \ Counted /\ Counted \in SUBSET Strands
    BY <2>1, <2>2, <1>1, <1>t DEF Counted, Blocked, Live
  <2> QED
    BY <2>3, <1>1, <1>t, CardAdd DEF RunnableExact
<1> QED
  BY <1>1, <1>3, <1>4, <1>5, <1>6, <1>7, <1>8, NoClaim DEF IInv, TypeOK

LEMMA SpawnStep ==
  ASSUME IInv, NEW s \in Strands, NEW t \in Pool, Spawn(s, t)
  PROVE  IInv' /\ ClaimsRightly
<1>1. /\ pc[s] = "run" /\ budget[s] > 0 /\ pc[t] = "off"
      /\ liveTasks < MaxLive /\ liveTasks' = liveTasks + 1
      /\ tasks' = tasks \cup {t} /\ runnable' = runnable + 1
      /\ pc' = [pc EXCEPT ![t] = "run"] /\ budget' = [budget EXCEPT ![s] = @ - 1]
      /\ UNCHANGED <<mainActive, owned, waiters, uncounted, awaiters, parked, chanVars,
                     completed, boss, remaining, op, reply, todo, runs>>
  BY DEF Spawn
<1>t. /\ ContextOK /\ ChannelsOK /\ TasksOK /\ StrandsOK /\ Waits /\ Roles /\ CountersExact
      /\ RunnableExact /\ tasks \subseteq Strands /\ t \in Strands /\ t # Main /\ t # s
  BY <1>1, AtWork, ConstantsAssumption DEF Strands
<1>2. \A x \in Strands : pc'[x] = IF x = t THEN "run" ELSE pc[x]
  BY <1>1, <1>t DEF StrandsOK
<1>3. budget' \in [Strands -> 0..MaxOps] /\ \A x \in Strands \ {s} : budget'[x] = budget[x]
  BY <1>1, <1>t, BudgetSpent DEF StrandsOK
<1>4. ContextOK' /\ ChannelsOK' /\ TasksOK'
  BY <1>1, <1>t DEF ContextOK, ChannelsOK, TasksOK, chanVars
<1>5. StrandsOK'
  BY <1>1, <1>3, <1>t DEF StrandsOK, Labels
<1>6. Waits'
  BY <1>1, <1>2, <1>t DEF Waits, ContextOK
<1>7. t \notin tasks /\ boss[t] = None
  BY <1>1, <1>t DEF Roles
<1>8. Roles'
  BY <1>1, <1>2, <1>3, <1>7, <1>t DEF Roles, InChannelLabels
<1>9. CountersExact'
  <2>1. \A c \in Chans : pending'[c] = Cardinality(Entering(c)')
    BY <1>1, <1>2, <1>t, PendingStays DEF chanVars
  <2>2. ASSUME NEW x \in Strands
        PROVE  remaining'[x] = Cardinality(WorkersOf(x)')
    <3>1. WorkersOf(x)' = WorkersOf(x)
      BY <1>1, <1>2 DEF WorkersOf
    <3> QED
      BY <3>1, <1>1, <1>t DEF CountersExact
  <2>3. Unreleased' = Unreleased \cup {t} /\ t \in Strands \ Unreleased
        /\ Unreleased \in SUBSET Strands
    BY <1>1, <1>2, <1>7, <1>t DEF Unreleased
  <2>4. liveTasks' = Cardinality(Unreleased') /\ liveTasks' <= MaxLive
    BY <2>3, <1>1, <1>t, CardAdd, ConstantsAssumption DEF CountersExact, TasksOK
  <2> QED
    BY <2>1, <2>2, <2>4 DEF CountersExact
<1>10. RunnableExact'
  <2>1. Live' = Live \cup {t} /\ t \notin Live
    BY <1>1, <1>2, <1>t DEF Live
  <2>2. t \notin Blocked
    BY <1>1, <1>t DEF Waits, Blocked
  <2>3. Counted' = Counted \cup {t} /\ t \in Strands \ Counted /\ Counted \in SUBSET Strands
    BY <2>1, <2>2, <1>1, <1>t DEF Counted, Blocked, Live
  <2> QED
    BY <2>3, <1>1, <1>t, CardAdd DEF RunnableExact
<1> QED
  BY <1>1, <1>4, <1>5, <1>6, <1>8, <1>9, <1>10, NoClaim DEF IInv, TypeOK

LEMMA ReleaseTaskStep ==
  ASSUME IInv, NEW t \in Strands, ReleaseTask(t)
  PROVE  IInv' /\ ClaimsRightly
<1>1. /\ pc[t] = "publish" /\ pc' = [pc EXCEPT ![t] = "dead"] /\ liveTasks' = liveTasks - 1
      /\ UNCHANGED <<ctxVars, chanVars, tasks, completed, boss, remaining, op, reply, todo,
                     budget, runs>>
  BY DEF ReleaseTask, Goto
<1>t. /\ ContextOK /\ ChannelsOK /\ TasksOK /\ StrandsOK /\ Waits /\ Roles /\ CountersExact
      /\ RunnableExact /\ tasks \subseteq Strands /\ t \in tasks /\ t \in Pool /\ t # Main
      /\ boss[t] = None
  BY <1>1, ConstantsAssumption DEF IInv, TypeOK, TasksOK, Strands, Roles
<1>2. \A x \in Strands : pc'[x] = IF x = t THEN "dead" ELSE pc[x]
  BY <1>1, <1>t DEF StrandsOK
<1>3. Unreleased' = Unreleased \ {t} /\ t \in Unreleased /\ Unreleased \in SUBSET Strands
  BY <1>1, <1>2, <1>t DEF Unreleased
<1>4. liveTasks' = Cardinality(Unreleased') /\ liveTasks' \in Nat /\ liveTasks' <= MaxLive
  <2>1. Cardinality(Unreleased \ {t}) = Cardinality(Unreleased) - 1 /\ Cardinality(Unreleased) > 0
    BY <1>3, CardRemove
  <2>2. liveTasks = Cardinality(Unreleased) /\ liveTasks \in Nat /\ liveTasks <= MaxLive
    BY <1>t DEF CountersExact, TasksOK
  <2> QED
    BY <2>1, <2>2, <1>1, <1>3, ConstantsAssumption
<1>5. ContextOK' /\ ChannelsOK' /\ TasksOK'
  BY <1>1, <1>4, <1>t DEF ContextOK, ChannelsOK, TasksOK, ctxVars, chanVars
<1>6. StrandsOK'
  BY <1>1, <1>t DEF StrandsOK, Labels
<1>7. Waits'
  BY <1>1, <1>2, <1>t DEF Waits, ContextOK, ctxVars
<1>8. Roles'
  BY <1>1, <1>2, <1>t DEF Roles, ctxVars, InChannelLabels
<1>9. CountersExact'
  <2>1. \A c \in Chans : pending'[c] = Cardinality(Entering(c)')
    BY <1>1, <1>2, <1>t, PendingStays DEF chanVars
  <2>2. ASSUME NEW x \in Strands
        PROVE  remaining'[x] = Cardinality(WorkersOf(x)')
    <3>1. WorkersOf(x)' = WorkersOf(x)
      BY <1>1, <1>2, <1>t, ConstantsAssumption DEF WorkersOf
    <3> QED
      BY <3>1, <1>1, <1>t DEF CountersExact
  <2> QED
    BY <2>1, <2>2, <1>4 DEF CountersExact
<1>10. RunnableExact'
  <2>1. Live' = Live
    BY <1>1, <1>2 DEF Live
  <2> QED
    BY <2>1, <1>1, <1>t DEF RunnableExact, Counted, Blocked, ctxVars
<1> QED
  BY <1>1, <1>5, <1>6, <1>7, <1>8, <1>9, <1>10, NoClaim DEF IInv, TypeOK
LEMMA AwaitResultStep ==
  ASSUME IInv, NEW s \in Strands, AwaitResult(s)
  PROVE  IInv' /\ ClaimsRightly
<1>1. /\ pc[s] = "await" /\ awaiters' = awaiters \ {s}
      /\ runnable' = IF s \in awaiters THEN runnable + 1 ELSE runnable
      /\ reply' = [reply EXCEPT ![s] = NoReply]
      /\ pc' = [pc EXCEPT ![s] = "run"] /\ op' = [op EXCEPT ![s] = NoOp]
      /\ budget' = [budget EXCEPT ![s] = @ - 1]
      /\ UNCHANGED <<mainActive, owned, waiters, uncounted, parked, chanVars, taskVars,
                     todo, runs>>
  BY DEF AwaitResult, Ends, Goto
<1>t. /\ ContextOK /\ ChannelsOK /\ TasksOK /\ StrandsOK /\ Waits /\ Roles /\ CountersExact
      /\ RunnableExact /\ budget[s] > 0
  BY <1>1 DEF IInv, TypeOK, Roles
<1>r. NoReply \in Replies /\ NoReply.out # "deadlock" /\ NoOp \in Operations
  BY <1>t, MessageTypes, ConstantsAssumption
<1>2. \A x \in Strands : /\ pc'[x] = IF x = s THEN "run" ELSE pc[x]
                         /\ op'[x] = IF x = s THEN NoOp ELSE op[x]
                         /\ reply'[x] = IF x = s THEN NoReply ELSE reply[x]
  BY <1>1, <1>t DEF StrandsOK
<1>3. budget' \in [Strands -> 0..MaxOps] /\ \A x \in Strands \ {s} : budget'[x] = budget[x]
  BY <1>1, <1>t, BudgetSpent DEF StrandsOK
<1>4. ContextOK' /\ ChannelsOK' /\ TasksOK'
  BY <1>1, <1>t DEF ContextOK, ChannelsOK, TasksOK, chanVars, taskVars
<1>5. StrandsOK'
  BY <1>1, <1>3, <1>r, <1>t DEF StrandsOK, Labels
<1>6. s \notin waiters /\ s \notin parked
  BY <1>1, <1>t DEF Waits
<1>7. Waits'
  BY <1>1, <1>2, <1>6, <1>t DEF Waits, ContextOK
<1>8. Roles'
  BY <1>1, <1>2, <1>3, <1>t DEF Roles, taskVars, InChannelLabels
<1>9. CountersExact'
  <2>1. \A x \in Strands \ {s} : op'[x] = op[x]
    BY <1>2
  <2>2. UNCHANGED <<pending, tasks, liveTasks, boss, remaining>>
    BY <1>1 DEF taskVars, chanVars
  <2> QED
    BY <1>1, <2>1, <2>2, CountersStay DEF Labels
<1>10. RunnableExact'
  <2>1. Live' = Live /\ s \in Live
    BY <1>1, <1>2 DEF Live
  <2>2. CASE s \in awaiters
    <3>1. Counted' = Counted \cup {s} /\ s \in Strands \ Counted /\ Counted \in SUBSET Strands
      BY <2>1, <2>2, <1>1, <1>6 DEF Counted, Blocked, Live
    <3> QED
      BY <2>2, <3>1, <1>1, <1>t, CardAdd DEF RunnableExact
  <2>3. CASE s \notin awaiters
    BY <2>1, <2>3, <1>1, <1>t DEF RunnableExact, Counted, Blocked
  <2> QED
    BY <2>2, <2>3
<1>11. ClaimsRightly
  BY <1>2, <1>r DEF ClaimsRightly, NewlyDeadlocked
<1> QED
  BY <1>4, <1>5, <1>7, <1>8, <1>9, <1>10, <1>11 DEF IInv, TypeOK

LEMMA WorkerDoneStep ==
  ASSUME IInv, NEW w \in Strands, WorkerDone(w)
  PROVE  IInv' /\ ClaimsRightly
<1>b. PICK s \in Strands : boss[w] = s
  BY DEF IInv, TypeOK, TasksOK, WorkerDone
<1> DEFINE l == IF remaining[s] = 1 THEN "quitLast" ELSE "quit"
<1>1. /\ pc[w] = "run" /\ boss[w] = s /\ s # None
      /\ remaining' = [remaining EXCEPT ![s] = @ - 1] /\ pc' = [pc EXCEPT ![w] = l]
      /\ UNCHANGED <<ctxVars, chanVars, tasks, completed, liveTasks, boss, op, reply, todo,
                     budget, runs>>
  BY <1>b DEF WorkerDone, Goto
<1>l. l \in {"quit", "quitLast"}
  OBVIOUS
<1> HIDE DEF l
<1>t. /\ ContextOK /\ ChannelsOK /\ TasksOK /\ StrandsOK /\ Waits /\ Roles /\ CountersExact
      /\ w \notin Blocked /\ reply[w] = NoReply /\ tasks \subseteq Strands
  BY <1>1, AtWork
<1>2. \A x \in Strands : pc'[x] = IF x = w THEN l ELSE pc[x]
  BY <1>1, <1>t DEF StrandsOK
<1>3. /\ ContextOK' /\ Waits' /\ Roles' /\ RunnableExact' /\ ClaimsRightly
      /\ pc' \in [Strands -> Labels] /\ op' \in [Strands -> Operations]
      /\ reply' \in [Strands -> Replies]
  <2>1. /\ reply' = [reply EXCEPT ![w] = NoReply] /\ NoReply \in Replies
        /\ NoReply.out # "deadlock"
        /\ op' = [op EXCEPT ![w] = op[w]] /\ op[w] \in Operations
    BY <1>1, <1>t, SameExcept, MessageTypes, ConstantsAssumption
  <2>2. UNCHANGED <<tasks, boss>> /\ budget' \in [Strands -> 0..MaxOps]
        /\ \A x \in Strands \ {w} : budget'[x] = budget[x]
    BY <1>1, <1>t DEF StrandsOK
  <2>3. boss[w] # None /\ w \notin waiters /\ w \notin awaiters
    BY <1>1, <1>t DEF Blocked
  <2> QED
    BY <1>1, <1>l, <2>1, <2>2, <2>3, LocalStep DEF Labels, InChannelLabels
<1>4. /\ \A x \in Strands : remaining'[x] = Cardinality(WorkersOf(x)')
      /\ remaining' \in [Strands -> Nat]
  <2>1. ASSUME NEW x \in Strands
        PROVE  remaining'[x] = Cardinality(WorkersOf(x)') /\ remaining'[x] \in Nat
    <3>1. CASE x = s
      <4>1. /\ WorkersOf(s)' = WorkersOf(s) \ {w} /\ w \in WorkersOf(s)
            /\ WorkersOf(s) \in SUBSET Strands
        BY <1>1, <1>2, <1>l DEF WorkersOf
      <4>2. Cardinality(WorkersOf(s) \ {w}) = Cardinality(WorkersOf(s)) - 1
            /\ Cardinality(WorkersOf(s)) > 0
        BY <4>1, CardRemove
      <4>3. remaining[s] = Cardinality(WorkersOf(s)) /\ remaining[s] \in Nat
            /\ remaining'[s] = remaining[s] - 1
        BY <1>1, <1>t DEF CountersExact, TasksOK
      <4> QED
        BY <3>1, <4>1, <4>2, <4>3
    <3>2. CASE x # s
      <4>1. WorkersOf(x)' = WorkersOf(x)
        BY <3>2, <1>1, <1>2 DEF WorkersOf
      <4> QED
        BY <3>2, <4>1, <1>1, <1>t DEF CountersExact, TasksOK
    <3> QED
      BY <3>1, <3>2
  <2> QED
    BY <2>1, <1>1, <1>t DEF TasksOK
<1>5. CountersExact'
  <2>1. \A c \in Chans : pending'[c] = Cardinality(Entering(c)')
    BY <1>1, <1>2, <1>l, <1>t, PendingStays DEF chanVars
  <2>2. Unreleased' = Unreleased
    BY <1>1, <1>2, <1>l DEF Unreleased
  <2> QED
    BY <2>1, <2>2, <1>1, <1>4, <1>t DEF CountersExact
<1>6. ChannelsOK' /\ TasksOK' /\ StrandsOK'
  BY <1>1, <1>3, <1>4, <1>t DEF ChannelsOK, TasksOK, StrandsOK, chanVars
<1> QED
  BY <1>3, <1>5, <1>6 DEF IInv, TypeOK

LEMMA PmapReturnStep ==
  ASSUME IInv, NEW s \in Strands, PmapReturn(s)
  PROVE  IInv' /\ ClaimsRightly
<1>1. /\ pc[s] = "pmap" /\ \A w \in Strands : boss[w] = s => pc[w] = "dead"
      /\ boss' = [w \in Strands |-> IF boss[w] = s THEN None ELSE boss[w]]
      /\ parked' = parked \ {s}
      /\ runnable' = IF s \in parked THEN runnable + 1 ELSE runnable
      /\ pc' = [pc EXCEPT ![s] = "run"] /\ budget' = [budget EXCEPT ![s] = @ - 1]
      /\ UNCHANGED <<mainActive, owned, waiters, uncounted, awaiters, chanVars, tasks,
                     completed, liveTasks, remaining, op, reply, todo, runs>>
  BY DEF PmapReturn, Goto
<1>t. /\ ContextOK /\ ChannelsOK /\ TasksOK /\ StrandsOK /\ Waits /\ Roles /\ CountersExact
      /\ RunnableExact /\ budget[s] > 0 /\ tasks \subseteq Strands
  BY <1>1 DEF IInv, TypeOK, Roles, TasksOK, Strands
<1>2. \A x \in Strands : pc'[x] = IF x = s THEN "run" ELSE pc[x]
  BY <1>1, <1>t DEF StrandsOK
<1>3. budget' \in [Strands -> 0..MaxOps] /\ \A x \in Strands \ {s} : budget'[x] = budget[x]
  BY <1>1, <1>t, BudgetSpent DEF StrandsOK
<1>4. ContextOK' /\ ChannelsOK' /\ TasksOK'
  BY <1>1, <1>t DEF ContextOK, ChannelsOK, TasksOK, chanVars
<1>5. StrandsOK'
  BY <1>1, <1>3, <1>t DEF StrandsOK, Labels
<1>6. s \notin waiters /\ s \notin awaiters /\ reply[s] = NoReply
  BY <1>1, <1>t DEF Waits
<1>7. Waits'
  BY <1>1, <1>2, <1>6, <1>t DEF Waits, ContextOK
<1>8. Roles'
  <2>1. \A w \in Strands : boss'[w] # None => boss'[w] = boss[w] /\ boss[w] # s
    BY <1>1
  <2>2. \A w \in Strands : pc[w] \in {"quit", "quitLast"} => boss'[w] # None
    BY <1>1, <1>t DEF Roles
  <2>3. \A w \in Strands : boss'[w] # None =>
          w \in Pool /\ pc'[w] # "off" /\ pc'[boss'[w]] = "pmap"
    BY <2>1, <1>2, <1>t DEF Roles, TasksOK
  <2>4. \A t \in tasks' : boss'[t] = None /\ pc'[t] # "off"
    BY <1>1, <1>2, <1>t DEF Roles
  <2>5. owned' = (IF mainActive' THEN {Main} ELSE {}) /\ (mainActive' <=> pc'[Main] # "off")
    BY <1>1, <1>2, <1>t DEF Roles
  <2>6. \A x \in Strands :
          /\ pc'[x] \in {"quit", "quitLast"} => boss'[x] # None
          /\ pc'[x] = "publish" => x \in tasks'
          /\ pc'[x] = "dead" => x \in Pool
          /\ pc'[x] \in InChannelLabels => op'[x].on \in Chans
          /\ pc'[x] \in InChannelLabels \cup {"await", "pmap"} => budget'[x] > 0
    BY <2>2, <1>1, <1>2, <1>3, <1>t DEF Roles, InChannelLabels
  <2> QED
    BY <2>3, <2>4, <2>5, <2>6 DEF Roles
<1>9. CountersExact'
  <2>1. \A c \in Chans : pending'[c] = Cardinality(Entering(c)')
    BY <1>1, <1>2, <1>t, PendingStays DEF chanVars
  <2>2. ASSUME NEW x \in Strands
        PROVE  remaining'[x] = Cardinality(WorkersOf(x)')
    <3>1. WorkersOf(x)' = WorkersOf(x)
      <4>1. \A w \in Strands : boss'[w] = x <=> boss[w] = x /\ x # s
        BY <1>1, ConstantsAssumption
      <4>2. \A w \in Strands : pc'[w] \in {"quit", "quitLast", "dead"}
                             <=> pc[w] \in {"quit", "quitLast", "dead"}
        BY <1>1, <1>2
      <4> QED
        BY <4>1, <4>2, <1>1 DEF WorkersOf
    <3> QED
      BY <3>1, <1>1, <1>t DEF CountersExact
  <2>3. Unreleased' = Unreleased
    BY <1>1, <1>2 DEF Unreleased
  <2> QED
    BY <2>1, <2>2, <2>3, <1>1, <1>t DEF CountersExact
<1>10. RunnableExact'
  <2>1. Live' = Live /\ s \in Live
    BY <1>1, <1>2 DEF Live
  <2>2. CASE s \in parked
    <3>1. Counted' = Counted \cup {s} /\ s \in Strands \ Counted /\ Counted \in SUBSET Strands
      BY <2>1, <2>2, <1>1, <1>6 DEF Counted, Blocked, Live
    <3> QED
      BY <2>2, <3>1, <1>1, <1>t, CardAdd DEF RunnableExact
  <2>3. CASE s \notin parked
    BY <2>1, <2>3, <1>1, <1>t DEF RunnableExact, Counted, Blocked
  <2> QED
    BY <2>2, <2>3
<1> QED
  BY <1>1, <1>4, <1>5, <1>7, <1>8, <1>9, <1>10, NoClaim DEF IInv, TypeOK
LEMMA PmapStartStep ==
  ASSUME IInv, NEW s \in Strands, NEW W \in SUBSET Pool, Pmap(s, W)
  PROVE  IInv' /\ ClaimsRightly
<1>1. /\ pc[s] = "run" /\ budget[s] > 0 /\ W # {} /\ \A w \in W : pc[w] = "off"
      /\ runnable' = runnable + Cardinality(W) - 1
      /\ parked' = parked \cup {s}
      /\ pc' = [w \in Strands |-> IF w \in W THEN "run" ELSE IF w = s THEN "pmap" ELSE pc[w]]
      /\ boss' = [w \in Strands |-> IF w \in W THEN s ELSE boss[w]]
      /\ remaining' = [remaining EXCEPT ![s] = Cardinality(W)]
      /\ UNCHANGED <<mainActive, owned, waiters, uncounted, awaiters, chanVars, tasks,
                     completed, liveTasks, op, reply, todo, budget, runs>>
  BY DEF Pmap
<1>t. /\ ContextOK /\ ChannelsOK /\ TasksOK /\ StrandsOK /\ Waits /\ Roles /\ CountersExact
      /\ RunnableExact /\ s \in Counted /\ s \notin Blocked /\ tasks \subseteq Strands
  BY <1>1, AtWork
<1>2. /\ W \in SUBSET Strands /\ Main \notin W /\ s \notin W /\ Cardinality(W) \in Nat
      /\ W \cap Live = {} /\ W \cap Blocked = {} /\ W \cap tasks = {}
  <2>1. W \in SUBSET Strands /\ Main \notin W
    BY ConstantsAssumption DEF Strands
  <2>2. W \cap Live = {} /\ W \cap Blocked = {} /\ W \cap tasks = {} /\ s \notin W
    BY <1>1, <1>t DEF Live, Blocked, Waits, Roles
  <2> QED
    BY <2>1, <2>2, Finite
<1>3. runnable > 0 /\ runnable \in Nat
  BY <1>t, CountedPositive
<1>4. ContextOK'
  BY <1>1, <1>2, <1>3, <1>t DEF ContextOK
<1>5. ChannelsOK' /\ TasksOK' /\ StrandsOK'
  <2>1. ChannelsOK'
    BY <1>1, <1>t DEF ChannelsOK, chanVars
  <2>2. TasksOK'
    BY <1>1, <1>2, <1>t DEF TasksOK
  <2>3. StrandsOK'
    BY <1>1, <1>t DEF StrandsOK, Labels
  <2> QED
    BY <2>1, <2>2, <2>3
<1>6. Waits'
  BY <1>1, <1>2, <1>t DEF Waits, ContextOK, Blocked
<1>7. Roles'
  <2>1. \A x \in Strands : boss[x] # None => boss[x] # s /\ boss[x] \notin W
    BY <1>1, <1>t DEF Roles
  <2>2. \A w \in Strands : boss'[w] # None =>
          w \in Pool /\ pc'[w] # "off" /\ pc'[boss'[w]] = "pmap"
    BY <2>1, <1>1, <1>2, <1>t DEF Roles, TasksOK
  <2>3. \A t \in tasks' : boss'[t] = None /\ pc'[t] # "off"
    BY <1>1, <1>2, <1>t DEF Roles
  <2>4. owned' = (IF mainActive' THEN {Main} ELSE {}) /\ (mainActive' <=> pc'[Main] # "off")
    BY <1>1, <1>2, <1>t DEF Roles, Strands
  <2>5. \A x \in Strands :
          /\ pc'[x] \in {"quit", "quitLast"} => boss'[x] # None
          /\ pc'[x] = "publish" => x \in tasks'
          /\ pc'[x] = "dead" => x \in Pool
          /\ pc'[x] \in InChannelLabels => op'[x].on \in Chans
          /\ pc'[x] \in InChannelLabels \cup {"await", "pmap"} => budget'[x] > 0
    BY <1>1, <1>t DEF Roles, InChannelLabels
  <2> QED
    BY <2>2, <2>3, <2>4, <2>5 DEF Roles
<1>8. CountersExact'
  <2>1. \A c \in Chans : pending'[c] = Cardinality(Entering(c)')
    BY <1>1, <1>t, PendingStays DEF chanVars
  <2>2. ASSUME NEW x \in Strands
        PROVE  remaining'[x] = Cardinality(WorkersOf(x)')
    <3>1. CASE x = s
      <4>1. \A w \in Strands : boss'[w] = s <=> w \in W
        BY <1>1, <1>t, ConstantsAssumption DEF Roles
      <4>2. WorkersOf(s)' = W
        BY <4>1, <1>1, <1>2 DEF WorkersOf
      <4> QED
        BY <3>1, <4>2, <1>1, <1>t DEF TasksOK
    <3>2. CASE x # s
      <4>1. \A w \in Strands : boss'[w] = x <=> boss[w] = x
        BY <3>2, <1>1, <1>t, ConstantsAssumption DEF Roles
      <4>2. WorkersOf(x)' = WorkersOf(x)
        <5>1. \A w \in Strands : pc'[w] \in {"quit", "quitLast", "dead"}
                               <=> pc[w] \in {"quit", "quitLast", "dead"}
          BY <1>1
        <5> QED
          BY <4>1, <5>1 DEF WorkersOf
      <4> QED
        BY <3>2, <4>2, <1>1, <1>t DEF CountersExact, TasksOK
    <3> QED
      BY <3>1, <3>2
  <2>3. Unreleased' = Unreleased
    BY <1>1, <1>t DEF Unreleased
  <2> QED
    BY <2>1, <2>2, <2>3, <1>1, <1>t DEF CountersExact
<1>9. RunnableExact'
  <2>1. Live' = Live \cup W
    BY <1>1, <1>2 DEF Live
  <2>2. Counted' = (Counted \ {s}) \cup W /\ (Counted \ {s}) \cap W = {}
        /\ Counted \ {s} \in SUBSET Strands /\ Counted \in SUBSET Strands
    BY <2>1, <1>1, <1>2, <1>t DEF Counted, Blocked, Live
  <2>3. Cardinality(Counted') = Cardinality(Counted \ {s}) + Cardinality(W)
    BY <2>2, <1>2, CardUnion
  <2>4. Cardinality(Counted \ {s}) = Cardinality(Counted) - 1
    BY <2>2, <1>t, CardRemove
  <2> QED
    BY <2>3, <2>4, <1>1, <1>2, <1>3, <1>t DEF RunnableExact
<1> QED
  BY <1>1, <1>4, <1>5, <1>6, <1>7, <1>8, <1>9, NoClaim DEF IInv, TypeOK

-----------------------------------------------------------------------------
(* The critical sections that end in a claim.  Before it, W and A wait as  *)
(* waiters and awaiters, parked' parks, and r counts the other live        *)
(* strands.                                                                *)
LEMMA ClaimStep ==
  ASSUME IInv, NEW r \in Nat, NEW W \in SUBSET Strands, NEW A \in SUBSET Strands,
         ClaimDeadlocked(r, W, A, reply), waiters = W, parked' \in SUBSET Strands,
         r = Cardinality(Live' \ (W \cup A \cup parked')),
         \A x \in W : /\ pc'[x] \in {"finish", "collect", "recheck", "wait"}
                      /\ op'[x].kind \in {"send", "recv"} /\ reply[x] = NoReply,
         \A x \in A : pc'[x] = "await" /\ op'[x].kind = "await" /\ reply[x] = NoReply,
         \A x \in parked' : pc'[x] = "pmap",
         \A x \in Strands :
           reply[x] # NoReply => pc'[x] \in {"finish", "collect", "recheck", "wait", "await"}
  PROVE  /\ waiters' \in SUBSET Strands /\ awaiters' \in SUBSET Strands /\ uncounted' = {}
         /\ runnable' \in Nat /\ reply' \in [Strands -> Replies]
         /\ Waits' /\ RunnableExact' /\ ClaimsRightly
<1>t. uncounted = {} /\ StrandsOK
  BY DEF IInv, Waits, TypeOK
<1>1. PICK K \in SUBSET (W \cup A) :
           /\ r # 0 => K = {}
           /\ K \subseteq W \/ W = {}
           /\ waiters' = W \ K /\ awaiters' = A \ K /\ uncounted' = {}
           /\ runnable' = r + Cardinality(K)
           /\ reply' = [s \in Strands |-> IF s \in K THEN Answer("deadlock") ELSE reply[s]]
  BY <1>t, ClaimEffect
<1>2. Answer("deadlock") \in Replies /\ Answer("deadlock").out = "deadlock"
      /\ NoReply.out # "deadlock"
  BY <1>t, MessageTypes, ConstantsAssumption DEF Answer
<1>3. \A x \in Strands : reply'[x] = IF x \in K THEN Answer("deadlock") ELSE reply[x]
  BY <1>1
<1>4. reply' \in [Strands -> Replies]
  BY <1>1, <1>2, <1>t DEF StrandsOK
<1>5. runnable' \in Nat
  <2>1. Cardinality(K) \in Nat
    BY Finite
  <2> QED
    BY <2>1, <1>1
<1>6. Waits'
  BY <1>1, <1>3 DEF Waits
<1>7. /\ r + Cardinality(K) = Cardinality(Live' \ ((W \ K) \cup (A \ K) \cup parked'))
      /\ K # {} => Live' \ ((W \ K) \cup (A \ K) \cup parked') = K
  <2>1. CASE K = {}
    <3>1. Cardinality(K) = 0 /\ (W \ K) \cup (A \ K) \cup parked' = W \cup A \cup parked'
      BY <2>1, FS_EmptySet
    <3> QED
      BY <2>1, <3>1
  <2>2. CASE K # {}
    <3>1. Live' \ (W \cup A \cup parked') \in SUBSET Strands /\ W \cup A \subseteq Live'
          /\ parked' \cap (W \cup A) = {}
      BY DEF Live
    <3>2. r = 0 /\ Live' \ (W \cup A \cup parked') = {}
      BY <2>2, <3>1, <1>1, Finite
    <3>3. Live' \ ((W \ K) \cup (A \ K) \cup parked') = K
      BY <3>1, <3>2
    <3> QED
      <4> DEFINE X == Live' \ ((W \ K) \cup (A \ K) \cup parked')
      <4>1. Cardinality(K) \in Nat /\ X = K
        BY <3>3, Finite
      <4> HIDE DEF X
      <4>2. r + Cardinality(K) = Cardinality(X)
        BY <3>2, <4>1
      <4> USE DEF X
      <4> QED
        BY <4>1, <4>2
  <2> QED
    BY <2>1, <2>2
<1>8. Counted' = Live' \ ((W \ K) \cup (A \ K) \cup parked')
  BY <1>1 DEF Counted, Blocked
<1>9. NewlyDeadlocked = K
  BY <1>2, <1>3 DEF NewlyDeadlocked
<1>10. (\E x \in K : op'[x].kind = "await") => waiters \cup waiters' = {}
  BY <1>1
<1> QED
  BY <1>1, <1>4, <1>5, <1>6, <1>7, <1>8, <1>9, <1>10 DEF RunnableExact, ClaimsRightly
LEMMA EndRunStep ==
  ASSUME IInv, EndRun
  PROVE  IInv' /\ ClaimsRightly
<1>t. /\ ContextOK /\ ChannelsOK /\ TasksOK /\ StrandsOK /\ Waits /\ Roles /\ CountersExact
      /\ RunnableExact /\ Main \in Strands /\ Main \in Counted /\ Main \notin Blocked
      /\ reply[Main] = NoReply
  BY AtWork DEF EndRun, Strands
<1>1. /\ pc[Main] = "run" /\ pc' = [pc EXCEPT ![Main] = "off"] /\ owned' = {}
      /\ mainActive' = FALSE
      /\ ClaimDeadlocked(IF runnable > 0 THEN runnable - 1 ELSE 0, waiters, awaiters, reply)
      /\ UNCHANGED <<parked, chanVars, taskVars, op, todo, budget, runs>>
  BY <1>t DEF EndRun, Goto, Roles
<1>2. \A x \in Strands : pc'[x] = IF x = Main THEN "off" ELSE pc[x]
  BY <1>1, <1>t DEF StrandsOK
<1>3. PICK r \in Nat : r = runnable - 1 /\ ClaimDeadlocked(r, waiters, awaiters, reply)
  BY <1>1, <1>t, CountedPositive
<1>4. r = Cardinality(Live' \ (waiters \cup awaiters \cup parked'))
  <2>1. Live' \ (waiters \cup awaiters \cup parked') = Counted \ {Main}
        /\ Counted \in SUBSET Strands
    BY <1>1, <1>2, <1>t DEF Live, Counted, Blocked
  <2>2. Cardinality(Counted \ {Main}) = Cardinality(Counted) - 1
    BY <2>1, <1>t, CardRemove
  <2> QED
    BY <2>1, <2>2, <1>3, <1>t DEF RunnableExact
<1>5. /\ waiters' \in SUBSET Strands /\ awaiters' \in SUBSET Strands /\ uncounted' = {}
      /\ runnable' \in Nat /\ reply' \in [Strands -> Replies]
      /\ Waits' /\ RunnableExact' /\ ClaimsRightly
  <2>1. \A x \in waiters : /\ pc'[x] \in {"finish", "collect", "recheck", "wait"}
                           /\ op'[x].kind \in {"send", "recv"} /\ reply[x] = NoReply
    BY <1>1, <1>2, <1>t DEF Waits, ContextOK
  <2>2. /\ \A x \in awaiters : pc'[x] = "await" /\ op'[x].kind = "await" /\ reply[x] = NoReply
        /\ \A x \in parked' : pc'[x] = "pmap"
    BY <1>1, <1>2, <1>t DEF Waits, ContextOK
  <2>3. \A x \in Strands :
          reply[x] # NoReply => pc'[x] \in {"finish", "collect", "recheck", "wait", "await"}
    BY <1>2, <1>t DEF Waits
  <2>4. waiters \in SUBSET Strands /\ awaiters \in SUBSET Strands /\ parked' \in SUBSET Strands
    BY <1>1, <1>t DEF ContextOK
  <2> QED
    BY <1>3, <1>4, <2>1, <2>2, <2>3, <2>4, ClaimStep
<1>6. TypeOK'
  <2>1. ContextOK' /\ ChannelsOK' /\ TasksOK'
    BY <1>1, <1>5, <1>t DEF ContextOK, ChannelsOK, TasksOK, chanVars, taskVars
  <2>2. StrandsOK'
    BY <1>1, <1>5, <1>t DEF StrandsOK, Labels
  <2> QED
    BY <2>1, <2>2 DEF TypeOK
<1>7. Roles'
  BY <1>1, <1>2, <1>t, ConstantsAssumption DEF Roles, taskVars, InChannelLabels, TasksOK
<1>8. CountersExact'
  BY <1>1, <1>t, CountersStay DEF Labels, chanVars, taskVars
<1> QED
  BY <1>5, <1>6, <1>7, <1>8 DEF IInv

LEMMA RecheckStep ==
  ASSUME IInv, NEW s \in Strands, Recheck(s)
  PROVE  IInv' /\ ClaimsRightly
<1>t. /\ ContextOK /\ ChannelsOK /\ TasksOK /\ StrandsOK /\ Waits /\ Roles /\ CountersExact
      /\ RunnableExact
  BY DEF IInv, TypeOK
<1>1. /\ pc[s] = "recheck" /\ pc' = [pc EXCEPT ![s] = "wait"]
      /\ ClaimDeadlocked(runnable, waiters, awaiters, reply)
      /\ UNCHANGED <<mainActive, owned, parked, chanVars, taskVars, op, todo, budget, runs>>
  BY DEF Recheck, Goto
<1>2. \A x \in Strands : pc'[x] = IF x = s THEN "wait" ELSE pc[x]
  BY <1>1, <1>t DEF StrandsOK
<1>3. PICK r \in Nat : r = runnable /\ ClaimDeadlocked(r, waiters, awaiters, reply)
  BY <1>1, <1>t DEF ContextOK
<1>4. r = Cardinality(Live' \ (waiters \cup awaiters \cup parked'))
  <2>1. Live' = Live
    BY <1>1, <1>2 DEF Live
  <2> QED
    BY <2>1, <1>1, <1>3, <1>t DEF RunnableExact, Counted, Blocked
<1>5. /\ waiters' \in SUBSET Strands /\ awaiters' \in SUBSET Strands /\ uncounted' = {}
      /\ runnable' \in Nat /\ reply' \in [Strands -> Replies]
      /\ Waits' /\ RunnableExact' /\ ClaimsRightly
  <2>1. \A x \in waiters : /\ pc'[x] \in {"finish", "collect", "recheck", "wait"}
                           /\ op'[x].kind \in {"send", "recv"} /\ reply[x] = NoReply
    BY <1>1, <1>2, <1>t DEF Waits, ContextOK
  <2>2. /\ \A x \in awaiters : pc'[x] = "await" /\ op'[x].kind = "await" /\ reply[x] = NoReply
        /\ \A x \in parked' : pc'[x] = "pmap"
    BY <1>1, <1>2, <1>t DEF Waits, ContextOK
  <2>3. \A x \in Strands :
          reply[x] # NoReply => pc'[x] \in {"finish", "collect", "recheck", "wait", "await"}
    BY <1>2, <1>t DEF Waits
  <2>4. waiters \in SUBSET Strands /\ awaiters \in SUBSET Strands /\ parked' \in SUBSET Strands
    BY <1>1, <1>t DEF ContextOK
  <2> QED
    BY <1>3, <1>4, <2>1, <2>2, <2>3, <2>4, ClaimStep
<1>6. TypeOK'
  <2>1. ContextOK' /\ ChannelsOK' /\ TasksOK'
    BY <1>1, <1>5, <1>t DEF ContextOK, ChannelsOK, TasksOK, chanVars, taskVars
  <2>2. StrandsOK'
    BY <1>1, <1>5, <1>t DEF StrandsOK, Labels
  <2> QED
    BY <2>1, <2>2 DEF TypeOK
<1>7. Roles'
  BY <1>1, <1>2, <1>t DEF Roles, taskVars, InChannelLabels
<1>8. CountersExact'
  BY <1>1, <1>t, CountersStay DEF Labels, chanVars, taskVars
<1> QED
  BY <1>5, <1>6, <1>7, <1>8 DEF IInv
LEMMA CompleteStep ==
  ASSUME IInv, NEW t \in Strands, Complete(t)
  PROVE  IInv' /\ ClaimsRightly
<1>t. /\ ContextOK /\ ChannelsOK /\ TasksOK /\ StrandsOK /\ Waits /\ Roles /\ CountersExact
      /\ RunnableExact /\ t \in Counted /\ t \notin Blocked /\ reply[t] = NoReply
  BY AtWork DEF Complete
<1> DEFINE resumed == {s \in awaiters : op[s].on = t}
<1>1. /\ t \in tasks /\ pc[t] = "run" /\ pc' = [pc EXCEPT ![t] = "publish"]
      /\ completed' = completed \cup {t}
      /\ ClaimDeadlocked((IF runnable > 0 THEN runnable - 1 ELSE 0) + Cardinality(resumed),
                         waiters, awaiters \ resumed, reply)
      /\ UNCHANGED <<mainActive, owned, parked, chanVars, tasks, liveTasks, boss, remaining,
                     op, todo, budget, runs>>
  BY DEF Complete, Goto
<1>2. \A x \in Strands : pc'[x] = IF x = t THEN "publish" ELSE pc[x]
  BY <1>1, <1>t DEF StrandsOK
<1>k. PICK R \in SUBSET awaiters : R = resumed
  OBVIOUS
<1> HIDE DEF resumed
<1>3. PICK r \in Nat : r = runnable - 1 + Cardinality(R)
                       /\ ClaimDeadlocked(r, waiters, awaiters \ R, reply)
  <2>1. Cardinality(R) \in Nat /\ runnable > 0 /\ runnable \in Nat
    BY <1>t, Finite, CountedPositive DEF ContextOK
  <2> QED
    BY <2>1, <1>1, <1>k
<1>4. r = Cardinality(Live' \ (waiters \cup (awaiters \ R) \cup parked'))
  <2> DEFINE X == Live' \ (waiters \cup (awaiters \ R) \cup parked')
  <2>1. /\ X = (Counted \ {t}) \cup R /\ (Counted \ {t}) \cap R = {}
        /\ Counted \in SUBSET Strands /\ Counted \ {t} \in SUBSET Strands /\ R \in SUBSET Strands
    <3>1. \A x \in R : x # t /\ x \in Live /\ x \notin waiters /\ x \notin parked
      BY <1>t DEF Waits, Blocked, ContextOK, Live
    <3>2. Live' = Live \ {t}
      BY <1>1, <1>2 DEF Live
    <3> QED
      BY <3>1, <3>2, <1>1, <1>t DEF Counted, Blocked, ContextOK, Live
  <2> HIDE DEF X
  <2>2. Cardinality(Counted \ {t}) = Cardinality(Counted) - 1
    BY <2>1, <1>t, CardRemove
  <2>3. Cardinality(X) = Cardinality(Counted \ {t}) + Cardinality(R)
    BY <2>1, CardUnion
  <2>4. r = Cardinality(X)
    BY <2>2, <2>3, <1>3, <1>t DEF RunnableExact
  <2> QED
    BY <2>4 DEF X
<1>5. /\ waiters' \in SUBSET Strands /\ awaiters' \in SUBSET Strands /\ uncounted' = {}
      /\ runnable' \in Nat /\ reply' \in [Strands -> Replies]
      /\ Waits' /\ RunnableExact' /\ ClaimsRightly
  <2>1. \A x \in waiters : /\ pc'[x] \in {"finish", "collect", "recheck", "wait"}
                           /\ op'[x].kind \in {"send", "recv"} /\ reply[x] = NoReply
    BY <1>1, <1>2, <1>t DEF Waits, ContextOK
  <2>2. /\ \A x \in awaiters \ R :
             pc'[x] = "await" /\ op'[x].kind = "await" /\ reply[x] = NoReply
        /\ \A x \in parked' : pc'[x] = "pmap"
    BY <1>1, <1>2, <1>t DEF Waits, ContextOK
  <2>3. \A x \in Strands :
          reply[x] # NoReply => pc'[x] \in {"finish", "collect", "recheck", "wait", "await"}
    BY <1>2, <1>t DEF Waits
  <2>4. /\ waiters \in SUBSET Strands /\ awaiters \ R \in SUBSET Strands
        /\ parked' \in SUBSET Strands
    BY <1>1, <1>t DEF ContextOK
  <2> QED
    BY <1>3, <1>4, <2>1, <2>2, <2>3, <2>4, ClaimStep
<1>6. TypeOK'
  <2>1. ContextOK' /\ ChannelsOK' /\ TasksOK'
    BY <1>1, <1>5, <1>t DEF ContextOK, ChannelsOK, TasksOK, chanVars
  <2>2. StrandsOK'
    BY <1>1, <1>5, <1>t DEF StrandsOK, Labels
  <2> QED
    BY <2>1, <2>2 DEF TypeOK
<1>7. Roles'
  BY <1>1, <1>2, <1>t DEF Roles, InChannelLabels, TasksOK
<1>8. CountersExact'
  BY <1>1, <1>t, CountersStay DEF Labels, chanVars
<1> QED
  BY <1>5, <1>6, <1>7, <1>8 DEF IInv

LEMMA AwaitStep ==
  ASSUME IInv, NEW s \in Strands, NEW t \in Pool, Await(s, t)
  PROVE  IInv' /\ ClaimsRightly
<1> DEFINE o == [kind |-> "await", on |-> t]
<1>t. /\ ContextOK /\ ChannelsOK /\ TasksOK /\ StrandsOK /\ Waits /\ Roles /\ CountersExact
      /\ RunnableExact /\ s \in Counted /\ s \notin Blocked /\ reply[s] = NoReply
      /\ runnable > 0 /\ runnable \in Nat
  BY AtWork, CountedPositive DEF Await, Starts
<1>1. /\ pc[s] = "run" /\ budget[s] > 0 /\ pc' = [pc EXCEPT ![s] = "await"]
      /\ op' = [op EXCEPT ![s] = o]
      /\ ClaimDeadlocked(runnable - 1, waiters, awaiters \cup {s}, reply)
      /\ UNCHANGED <<mainActive, owned, parked, chanVars, taskVars, todo, budget, runs>>
  BY <1>t DEF Await, Starts, Goto
<1>o. o \in Operations /\ o.kind = "await"
  BY DEF Operations, Strands
<1> HIDE DEF o
<1>2. \A x \in Strands : /\ pc'[x] = IF x = s THEN "await" ELSE pc[x]
                         /\ op'[x] = IF x = s THEN o ELSE op[x]
  BY <1>1, <1>t DEF StrandsOK
<1>3. PICK r \in Nat : r = runnable - 1
                       /\ ClaimDeadlocked(r, waiters, awaiters \cup {s}, reply)
  BY <1>1, <1>t
<1>4. r = Cardinality(Live' \ (waiters \cup (awaiters \cup {s}) \cup parked'))
  <2>1. Live' \ (waiters \cup (awaiters \cup {s}) \cup parked') = Counted \ {s}
        /\ Counted \in SUBSET Strands
    <3>1. Live' = Live
      BY <1>1, <1>2 DEF Live
    <3> QED
      BY <3>1, <1>1, <1>t DEF Counted, Blocked, Live
  <2>2. Cardinality(Counted \ {s}) = Cardinality(Counted) - 1
    BY <2>1, <1>t, CardRemove
  <2> QED
    BY <2>1, <2>2, <1>3, <1>t DEF RunnableExact
<1>5. /\ waiters' \in SUBSET Strands /\ awaiters' \in SUBSET Strands /\ uncounted' = {}
      /\ runnable' \in Nat /\ reply' \in [Strands -> Replies]
      /\ Waits' /\ RunnableExact' /\ ClaimsRightly
  <2>1. \A x \in waiters : /\ pc'[x] \in {"finish", "collect", "recheck", "wait"}
                           /\ op'[x].kind \in {"send", "recv"} /\ reply[x] = NoReply
    BY <1>1, <1>2, <1>t DEF Waits, ContextOK
  <2>2. /\ \A x \in awaiters \cup {s} :
             pc'[x] = "await" /\ op'[x].kind = "await" /\ reply[x] = NoReply
        /\ \A x \in parked' : pc'[x] = "pmap"
    BY <1>1, <1>2, <1>o, <1>t DEF Waits, ContextOK
  <2>3. \A x \in Strands :
          reply[x] # NoReply => pc'[x] \in {"finish", "collect", "recheck", "wait", "await"}
    BY <1>2, <1>t DEF Waits
  <2>4. /\ waiters \in SUBSET Strands /\ awaiters \cup {s} \in SUBSET Strands
        /\ parked' \in SUBSET Strands
    BY <1>1, <1>t DEF ContextOK
  <2> QED
    BY <1>3, <1>4, <2>1, <2>2, <2>3, <2>4, ClaimStep
<1>6. TypeOK'
  <2>1. ContextOK' /\ ChannelsOK' /\ TasksOK'
    BY <1>1, <1>5, <1>t DEF ContextOK, ChannelsOK, TasksOK, chanVars, taskVars
  <2>2. StrandsOK'
    BY <1>1, <1>5, <1>o, <1>t DEF StrandsOK, Labels
  <2> QED
    BY <2>1, <2>2 DEF TypeOK
<1>7. Roles'
  BY <1>1, <1>2, <1>t DEF Roles, taskVars, InChannelLabels
<1>8. CountersExact'
  <2>1. \A x \in Strands \ {s} : op'[x] = op[x]
    BY <1>2
  <2> QED
    BY <2>1, <1>1, CountersStay DEF Labels, chanVars, taskVars
<1> QED
  BY <1>5, <1>6, <1>7, <1>8 DEF IInv

LEMMA WorkerExitStep ==
  ASSUME IInv, NEW w \in Strands, WorkerExit(w)
  PROVE  IInv' /\ ClaimsRightly
<1>t. /\ ContextOK /\ ChannelsOK /\ TasksOK /\ StrandsOK /\ Waits /\ Roles /\ CountersExact
      /\ RunnableExact /\ w \in Counted /\ w \notin Blocked /\ reply[w] = NoReply
      /\ tasks \subseteq Strands /\ pc[w] \in {"quit", "quitLast"}
  BY AtWork DEF WorkerExit
<1>k. PICK R \in SUBSET parked : R = IF pc[w] = "quitLast" THEN parked \cap {boss[w]} ELSE {}
  OBVIOUS
<1>1. /\ pc' = [pc EXCEPT ![w] = "dead"] /\ parked' = parked \ R
      /\ ClaimDeadlocked((IF runnable > 0 THEN runnable - 1 ELSE 0) + Cardinality(R),
                         waiters, awaiters, reply)
      /\ UNCHANGED <<mainActive, owned, chanVars, taskVars, op, todo, budget, runs>>
  BY <1>k DEF WorkerExit, Goto
<1>2. \A x \in Strands : pc'[x] = IF x = w THEN "dead" ELSE pc[x]
  BY <1>1, <1>t DEF StrandsOK
<1>3. PICK r \in Nat : r = runnable - 1 + Cardinality(R)
                       /\ ClaimDeadlocked(r, waiters, awaiters, reply)
  <2>1. Cardinality(R) \in Nat /\ runnable > 0 /\ runnable \in Nat
    BY <1>t, Finite, CountedPositive DEF ContextOK
  <2> QED
    BY <2>1, <1>1
<1>4. r = Cardinality(Live' \ (waiters \cup awaiters \cup parked'))
  <2> DEFINE X == Live' \ (waiters \cup awaiters \cup parked')
  <2>1. /\ X = (Counted \ {w}) \cup R /\ (Counted \ {w}) \cap R = {}
        /\ Counted \in SUBSET Strands /\ Counted \ {w} \in SUBSET Strands /\ R \in SUBSET Strands
    <3>1. \A x \in R : x # w /\ x \in Live /\ x \notin waiters /\ x \notin awaiters
      BY <1>t DEF Waits, Blocked, ContextOK, Live
    <3>2. Live' = Live \ {w}
      BY <1>1, <1>2, <1>t DEF Live
    <3> QED
      BY <3>1, <3>2, <1>1, <1>t DEF Counted, Blocked, ContextOK, Live
  <2> HIDE DEF X
  <2>2. Cardinality(Counted \ {w}) = Cardinality(Counted) - 1
    BY <2>1, <1>t, CardRemove
  <2>3. Cardinality(X) = Cardinality(Counted \ {w}) + Cardinality(R)
    BY <2>1, CardUnion
  <2>4. r = Cardinality(X)
    BY <2>2, <2>3, <1>3, <1>t DEF RunnableExact
  <2> QED
    BY <2>4 DEF X
<1>5. /\ waiters' \in SUBSET Strands /\ awaiters' \in SUBSET Strands /\ uncounted' = {}
      /\ runnable' \in Nat /\ reply' \in [Strands -> Replies]
      /\ Waits' /\ RunnableExact' /\ ClaimsRightly
  <2>1. \A x \in waiters : /\ pc'[x] \in {"finish", "collect", "recheck", "wait"}
                           /\ op'[x].kind \in {"send", "recv"} /\ reply[x] = NoReply
    BY <1>1, <1>2, <1>t DEF Waits, ContextOK
  <2>2. /\ \A x \in awaiters : pc'[x] = "await" /\ op'[x].kind = "await" /\ reply[x] = NoReply
        /\ \A x \in parked' : pc'[x] = "pmap"
    BY <1>1, <1>2, <1>t DEF Waits, ContextOK
  <2>3. \A x \in Strands :
          reply[x] # NoReply => pc'[x] \in {"finish", "collect", "recheck", "wait", "await"}
    BY <1>2, <1>t DEF Waits
  <2>4. waiters \in SUBSET Strands /\ awaiters \in SUBSET Strands /\ parked' \in SUBSET Strands
    BY <1>1, <1>t DEF ContextOK
  <2> QED
    BY <1>3, <1>4, <2>1, <2>2, <2>3, <2>4, ClaimStep
<1>6. TypeOK'
  <2>1. ContextOK' /\ ChannelsOK' /\ TasksOK'
    BY <1>1, <1>5, <1>t DEF ContextOK, ChannelsOK, TasksOK, chanVars, taskVars
  <2>2. StrandsOK'
    BY <1>1, <1>5, <1>t DEF StrandsOK, Labels
  <2> QED
    BY <2>1, <2>2 DEF TypeOK
<1>7. w \in Pool /\ w # Main /\ w \notin tasks
  BY <1>t, ConstantsAssumption DEF Roles
<1>8. Roles'
  BY <1>1, <1>2, <1>7, <1>t DEF Roles, taskVars, InChannelLabels
<1>9. CountersExact'
  <2>1. \A c \in Chans : pending'[c] = Cardinality(Entering(c)')
    BY <1>1, <1>2, <1>t, PendingStays DEF chanVars
  <2>2. ASSUME NEW x \in Strands
        PROVE  remaining'[x] = Cardinality(WorkersOf(x)')
    <3>1. WorkersOf(x)' = WorkersOf(x)
      BY <1>1, <1>2, <1>t DEF WorkersOf, taskVars
    <3> QED
      BY <3>1, <1>1, <1>t DEF CountersExact, taskVars
  <2>3. Unreleased' = Unreleased
    BY <1>1, <1>2, <1>7 DEF Unreleased, taskVars
  <2> QED
    BY <2>1, <2>2, <2>3, <1>1, <1>t DEF CountersExact, taskVars
<1> QED
  BY <1>5, <1>6, <1>8, <1>9 DEF IInv
-----------------------------------------------------------------------------
(* The theorems.                                                           *)

LEMMA InitIInv == Init => IInv
<1> SUFFICES ASSUME Init PROVE IInv
  OBVIOUS
<1>1. TypeOK
  <2>1. ContextOK /\ ChannelsOK /\ TasksOK
    <3>1. ContextOK
      BY DEF Init, ContextOK
    <3>2. ChannelsOK
      BY DEF Init, ChannelsOK
    <3>3. TasksOK
      BY DEF Init, TasksOK
    <3> QED
      BY <3>1, <3>2, <3>3
  <2>2. NoOp \in Operations /\ NoReply \in Replies
    BY DEF NoOp, NoReply, Operations, Replies
  <2>3. StrandsOK
    BY <2>2, ConstantsAssumption DEF Init, StrandsOK, Labels
  <2> QED
    BY <2>1, <2>3 DEF TypeOK
<1>2. Waits /\ Roles
  BY DEF Init, Waits, Roles, Strands, InChannelLabels
<1>3. Counted = {} /\ Unreleased = {}
  BY DEF Init, Counted, Live, Unreleased
<1>4. \A c \in Chans : Entering(c) = {}
  BY DEF Init, Entering
<1>5. \A s \in Strands : WorkersOf(s) = {}
  BY ConstantsAssumption DEF Init, WorkersOf
<1>6. CountersExact /\ RunnableExact
  <2>1. Cardinality({}) = 0
    BY FS_EmptySet
  <2>2. \A c \in Chans : pending[c] = Cardinality(Entering(c))
    BY <2>1, <1>4 DEF Init
  <2>3. \A s \in Strands : remaining[s] = Cardinality(WorkersOf(s))
    BY <2>1, <1>5 DEF Init
  <2>4. /\ liveTasks = Cardinality(Unreleased) /\ liveTasks <= MaxLive
        /\ runnable = Cardinality(Counted)
    BY <2>1, <1>3, ConstantsAssumption DEF Init
  <2> QED
    BY <2>2, <2>3, <2>4 DEF CountersExact, RunnableExact
<1> QED
  BY <1>1, <1>2, <1>6 DEF IInv

LEMMA NextIInv == IInv /\ [Next]_vars => IInv' /\ ClaimsRightly
<1> SUFFICES ASSUME IInv, [Next]_vars PROVE IInv' /\ ClaimsRightly
  OBVIOUS
<1>1. CASE BeginRun
  BY <1>1, BeginRunStep
<1>2. CASE EndRun
  BY <1>2, EndRunStep
<1>3. ASSUME NEW s \in Strands, ChannelStep(s)
      PROVE  IInv' /\ ClaimsRightly
  BY <1>3, EnterStep, SendSteps, RecvSteps, FinishPendingStep, CollectContextsStep,
     RecheckStep, ReturnStep, CloseStep, CloseWakeStep, SimpleEnds DEF ChannelStep
<1>4. ASSUME NEW s \in Strands, TaskStep(s)
      PROVE  IInv' /\ ClaimsRightly
  BY <1>4, SpawnStep, AwaitStep, SimpleEnds, CompleteStep, ReleaseTaskStep, AwaitResultStep
     DEF TaskStep
<1>5. ASSUME NEW s \in Strands, PmapStep(s)
      PROVE  IInv' /\ ClaimsRightly
  BY <1>5, PmapStartStep, WorkerDoneStep, WorkerExitStep, PmapReturnStep DEF PmapStep
<1>6. CASE UNCHANGED vars
  <2>1. IInv'
    BY <1>6 DEF vars, ctxVars, chanVars, taskVars, strandVars, IInv, TypeOK, ContextOK,
       ChannelsOK, TasksOK, StrandsOK, Waits, Roles, CountersExact, Entering, WorkersOf,
       Unreleased, RunnableExact, Counted, Live, Blocked
  <2>2. ClaimsRightly
    BY <1>6, NoClaim DEF vars, strandVars
  <2> QED
    BY <2>1, <2>2
<1> QED
  BY <1>1, <1>2, <1>3, <1>4, <1>5, <1>6 DEF Next, Step

(* The inductive invariant holds in every reachable state.                 *)
THEOREM Inductive == Spec => []IInv
<1>1. Init => IInv
  BY InitIInv
<1>2. IInv /\ [Next]_vars => IInv'
  BY NextIInv
<1> QED
  BY <1>1, <1>2, PTL DEF Spec

(* Every variable keeps its type: runnable and liveTasks, which the code   *)
(* decrements, never go below zero.                                        *)
THEOREM TypeCorrect == Spec => []TypeOK
<1>1. IInv => TypeOK
  BY DEF IInv
<1> QED
  BY <1>1, Inductive, PTL

(* The context counts exactly the strands that may make progress, for any  *)
(* number of goroutines, channels and operations.                          *)
THEOREM RunnableIsExact == Spec => []RunnableExact
<1>1. IInv => RunnableExact
  BY DEF IInv
<1> QED
  BY <1>1, Inductive, PTL

(* The callers entering a channel, the workers of a pmap call and the live *)
(* tasks are counted exactly, and the tasks stay within the quota.         *)
THEOREM CountersAreExact == Spec => []CountersExact
<1>1. IInv => CountersExact
  BY DEF IInv
<1> QED
  BY <1>1, Inductive, PTL

(* A wait is answered "would deadlock" only when no strand but those it    *)
(* wakes can make progress.                                                *)
THEOREM DeadlockIsSound == Spec => DeadlockSound
<1>1. IInv /\ [Next]_vars => [NewlyDeadlocked # {} => Counted' = NewlyDeadlocked]_vars
  BY NextIInv DEF ClaimsRightly
<1> QED
  BY <1>1, Inductive, PTL DEF Spec, DeadlockSound

(* An await is broken as a cycle only when no channel operation waits.     *)
THEOREM ChannelsAreBrokenFirst == Spec => ChannelFirst
<1>1. IInv /\ [Next]_vars =>
        [(\E s \in NewlyDeadlocked : op'[s].kind = "await") => waiters \cup waiters' = {}]_vars
  BY NextIInv DEF ClaimsRightly
<1> QED
  BY <1>1, Inductive, PTL DEF Spec, ChannelFirst

-----------------------------------------------------------------------------
(* The waiting lines.                                                      *)

Distinct(line) == \A i, j \in 1..Len(line) : line[i] = line[j] => i = j

(* Popping up to the entry i leaves the entries behind it, in their order. *)
LEMMA AfterLine ==
  ASSUME NEW line \in Seq(Strands), NEW i \in 1..Len(line)
  PROVE  /\ \A s : InLine(s, After(line, i)) <=> \E j \in (i + 1)..Len(line) : line[j] = s
         /\ Distinct(line) => Distinct(After(line, i))
<1>1. /\ Len(After(line, i)) = Len(line) - i
      /\ \A j \in 1..(Len(line) - i) : After(line, i)[j] = line[j + i]
  BY DEF After
<1>2. \A j \in (i + 1)..Len(line) : j - i \in 1..(Len(line) - i) /\ (j - i) + i = j
  OBVIOUS
<1>3. \A j \in 1..(Len(line) - i) : j + i \in (i + 1)..Len(line) /\ j + i \in 1..Len(line)
  OBVIOUS
<1>4. ASSUME NEW s PROVE InLine(s, After(line, i)) <=> \E j \in (i + 1)..Len(line) : line[j] = s
  <2>1. ASSUME InLine(s, After(line, i)) PROVE \E j \in (i + 1)..Len(line) : line[j] = s
    BY <2>1, <1>1, <1>3 DEF InLine
  <2>2. ASSUME NEW j \in (i + 1)..Len(line), line[j] = s PROVE InLine(s, After(line, i))
    BY <2>2, <1>1, <1>2 DEF InLine
  <2> QED
    BY <2>1, <2>2
<1>5. ASSUME Distinct(line) PROVE Distinct(After(line, i))
  <2> SUFFICES ASSUME NEW j \in 1..(Len(line) - i), NEW k \in 1..(Len(line) - i),
                      line[j + i] = line[k + i]
               PROVE  j = k
    BY <1>1 DEF Distinct
  <2>1. j + i \in 1..Len(line) /\ k + i \in 1..Len(line)
    OBVIOUS
  <2>2. j + i = k + i
    BY <2>1, <1>5 DEF Distinct
  <2> QED
    BY <2>2
<1> QED
  BY <1>4, <1>5

LEMMA AppendLine ==
  ASSUME NEW line \in Seq(Strands), NEW x \in Strands
  PROVE  /\ Append(line, x) \in Seq(Strands)
         /\ \A s : InLine(s, Append(line, x)) <=> InLine(s, line) \/ s = x
         /\ Distinct(line) /\ ~InLine(x, line) => Distinct(Append(line, x))
<1>1. /\ Len(Append(line, x)) = Len(line) + 1 /\ Append(line, x)[Len(line) + 1] = x
      /\ \A j \in 1..Len(line) : Append(line, x)[j] = line[j]
      /\ Append(line, x) \in Seq(Strands) /\ Len(line) \in Nat
  OBVIOUS
<1>2. 1..(Len(line) + 1) = 1..Len(line) \cup {Len(line) + 1}
  BY <1>1
<1> QED
  BY <1>1, <1>2 DEF InLine, Distinct

LEMMA JoinLine ==
  ASSUME NEW l1 \in Seq(Strands), NEW l2 \in Seq(Strands), NEW s, InLine(s, l1) \/ InLine(s, l2)
  PROVE  InLine(s, l1 \o l2)
<1>1. /\ Len(l1 \o l2) = Len(l1) + Len(l2)
      /\ \A j \in 1..Len(l1) : (l1 \o l2)[j] = l1[j] /\ j \in 1..(Len(l1) + Len(l2))
      /\ \A j \in 1..Len(l2) :
           (l1 \o l2)[Len(l1) + j] = l2[j] /\ Len(l1) + j \in 1..(Len(l1) + Len(l2))
  OBVIOUS
<1> QED
  BY <1>1 DEF InLine

(* Taking a strand out of a line it stands in once.                        *)
LEMMA WithoutLine ==
  ASSUME NEW line \in Seq(Strands), NEW x \in Strands, Distinct(line)
  PROVE  /\ \A s : InLine(s, Without(line, x)) <=> InLine(s, line) /\ s # x
         /\ Distinct(Without(line, x))
<1> DEFINE i == CHOOSE i \in 1..Len(line) : FirstOf(x, line, i)
           short == SubSeq(line, 1, i - 1) \o SubSeq(line, i + 1, Len(line))
<1>1. CASE \E j \in 1..Len(line) : FirstOf(x, line, j)
  <2>1. i \in 1..Len(line) /\ line[i] = x
    BY <1>1 DEF FirstOf
  <2>2. Without(line, x) = short
    BY <1>1 DEF Without
  <2> HIDE DEF i
  <2>3. /\ Len(short) = Len(line) - 1
        /\ \A j \in 1..(Len(line) - 1) : short[j] = IF j < i THEN line[j] ELSE line[j + 1]
    <3>1. /\ Len(SubSeq(line, 1, i - 1)) = i - 1
          /\ \A j \in 1..(i - 1) : SubSeq(line, 1, i - 1)[j] = line[j]
      BY <2>1
    <3>2. /\ Len(SubSeq(line, i + 1, Len(line))) = Len(line) - i
          /\ \A j \in 1..(Len(line) - i) : SubSeq(line, i + 1, Len(line))[j] = line[j + i]
      BY <2>1
    <3>3. /\ SubSeq(line, 1, i - 1) \in Seq(Strands)
          /\ SubSeq(line, i + 1, Len(line)) \in Seq(Strands)
      BY <2>1
    <3> DEFINE f == SubSeq(line, 1, i - 1)
               g == SubSeq(line, i + 1, Len(line))
    <3> HIDE DEF f, g
    <3>4. /\ Len(f \o g) = Len(f) + Len(g)
          /\ \A j \in 1..(Len(f) + Len(g)) : (f \o g)[j] = IF j <= Len(f) THEN f[j] ELSE g[j - Len(f)]
      BY <3>3 DEF f, g
    <3>5. Len(f) = i - 1 /\ Len(g) = Len(line) - i /\ i \in 1..Len(line) /\ Len(line) \in Nat
      BY <3>1, <3>2, <2>1 DEF f, g
    <3>6. ASSUME NEW j \in 1..(Len(line) - 1)
          PROVE  (f \o g)[j] = IF j < i THEN line[j] ELSE line[j + 1]
      <4>1. CASE j < i
        <5>1. j \in 1..(i - 1) /\ j \in 1..(Len(f) + Len(g)) /\ j <= Len(f)
          BY <4>1, <3>5
        <5> QED
          BY <5>1, <4>1, <3>4, <3>1 DEF f
      <4>2. CASE ~(j < i)
        <5>0. \A n, m \in Nat : m \in 1..n /\ j \in 1..(n - 1) /\ ~(j < m)
                => /\ j - (m - 1) \in 1..(n - m) /\ j \in 1..((m - 1) + (n - m))
                   /\ ~(j <= m - 1) /\ (j - (m - 1)) + m = j + 1
          OBVIOUS
        <5>1. /\ j - (i - 1) \in 1..(Len(line) - i) /\ j \in 1..(Len(f) + Len(g))
              /\ ~(j <= Len(f)) /\ (j - (i - 1)) + i = j + 1
          BY <5>0, <4>2, <3>5
        <5> DEFINE k == j - (i - 1)
        <5>2. (f \o g)[j] = g[k]
          BY <5>1, <3>4, <3>5
        <5>3. g[k] = line[k + i] /\ k + i = j + 1
          BY <5>1, <3>2 DEF g
        <5> HIDE DEF k
        <5>4. (f \o g)[j] = line[j + 1]
          BY <5>2, <5>3
        <5> QED
          BY <5>4, <4>2
      <4> QED
        BY <4>1, <4>2
    <3>7. Len(f \o g) = Len(line) - 1
      BY <3>4, <3>5
    <3>8. short = f \o g
      BY DEF f, g
    <3> HIDE DEF short
    <3> QED
      BY <3>6, <3>7, <3>8
  <2> HIDE DEF short
  <2>4. \A j \in 1..(Len(line) - 1) :
          /\ j < i => j \in 1..Len(line)
          /\ ~(j < i) => j + 1 \in 1..Len(line)
    BY <2>1
  <2>5. \A j \in 1..Len(line) :
          /\ j < i => j \in 1..(Len(line) - 1)
          /\ j > i => j - 1 \in 1..(Len(line) - 1) /\ ~(j - 1 < i) /\ (j - 1) + 1 = j
          /\ j < i \/ j = i \/ j > i
    BY <2>1
  <2>6. ASSUME NEW s, InLine(s, short) PROVE InLine(s, line) /\ s # x
    <3>1. PICK j \in 1..(Len(line) - 1) : short[j] = s
      BY <2>6, <2>3 DEF InLine
    <3>2. PICK k \in 1..Len(line) : line[k] = s /\ k # i
      BY <3>1, <2>3, <2>4, <2>1
    <3> QED
      BY <3>2, <2>1 DEF InLine, Distinct
  <2>7. ASSUME NEW s, InLine(s, line), s # x PROVE InLine(s, short)
    <3>1. PICK j \in 1..Len(line) : line[j] = s /\ j # i
      BY <2>7, <2>1 DEF InLine
    <3>2. CASE j < i
      BY <3>1, <3>2, <2>3, <2>5 DEF InLine
    <3>3. CASE j > i
      BY <3>1, <3>3, <2>3, <2>5 DEF InLine
    <3> QED
      BY <3>1, <3>2, <3>3, <2>5
  <2>8. Distinct(short)
    <3> SUFFICES ASSUME NEW j \in 1..(Len(line) - 1), NEW k \in 1..(Len(line) - 1),
                        short[j] = short[k]
                 PROVE  j = k
      BY <2>3 DEF Distinct
    <3> DEFINE at(n) == IF n < i THEN n ELSE n + 1
    <3>1. at(j) \in 1..Len(line) /\ at(k) \in 1..Len(line)
      BY <2>4
    <3>2. line[at(j)] = line[at(k)]
      BY <2>3
    <3>3. at(j) = at(k)
      BY <3>1, <3>2 DEF Distinct
    <3> QED
      BY <3>3, <2>1
  <2> QED
    BY <2>2, <2>6, <2>7, <2>8
<1>2. CASE ~ \E j \in 1..Len(line) : FirstOf(x, line, j)
  <2>1. Without(line, x) = line
    BY <1>2 DEF Without
  <2>2. ~InLine(x, line)
    <3> SUFFICES ASSUME NEW j \in 1..Len(line), line[j] = x PROVE FALSE
      BY DEF InLine
    <3>1. \A k \in 1..(j - 1) : k \in 1..Len(line) /\ k # j
      OBVIOUS
    <3>2. FirstOf(x, line, j)
      BY <3>1 DEF FirstOf, Distinct
    <3> QED
      BY <3>2, <1>2
  <2> QED
    BY <2>1, <2>2
<1> QED
  BY <1>1, <1>2

-----------------------------------------------------------------------------
(* What the waiting lines, the waiters and the channels have to do with    *)
(* one another.  A line holds, once each, exactly the strands whose        *)
(* operation has not returned and that are not matched yet; stated of the  *)
(* waiters and not of the lines, what NoMissedMatch promises is kept even  *)
(* while a closer is at work; a send or receive under way whose answer is  *)
(* open is a waiter; and a claim nobody could make yet is still to come.   *)

InWait == {"finish", "collect", "recheck", "wait"}
Busy == InWait \cup {"enter", "closing"}

At(s, kind, c) == op[s].kind = kind /\ op[s].on = c
Waiting(kind, c) == {s \in waiters : At(s, kind, c)}

Stand(kind, c, line) ==
  /\ Distinct(line)
  /\ \A s \in Strands : InLine(s, line) =>
       At(s, kind, c) /\ pc[s] \in InWait /\ (s \in waiters \/ reply[s] = Answer("deadlock"))

LinesExact == \A c \in Chans : Stand("send", c, senders[c]) /\ Stand("recv", c, receivers[c])

Served(c) ==
  /\ Len(queue[c]) <= Capacity[c]
  /\ Waiting("recv", c) # {} => queue[c] = <<>>
  /\ Waiting("send", c) # {} => closed[c] \/ Len(queue[c]) = Capacity[c]
  /\ Waiting("send", c) = {} \/ Waiting("recv", c) = {}
  /\ closed[c] => senders[c] = <<>> /\ receivers[c] = <<>>

CallsExact ==
  \A s \in Strands :
    /\ op[s].kind \in {"send", "recv"} <=> pc[s] \in InWait \cup {"enter"}
    /\ pc[s] \in InWait /\ reply[s] = NoReply => s \in waiters
    /\ pc[s] = "closing" => closed[op[s].on]

(* With nobody runnable, some strand is about to recheck, or is leaving a  *)
(* channel in which another waits.                                         *)
Deferred ==
  runnable = 0 =>
    /\ waiters = {} => awaiters = {}
    /\ waiters # {} =>
         \E s \in Strands :
           \/ pc[s] = "recheck"
           \/ \E w \in waiters : pc[s] \in {"finish", "collect"} /\ op[s].on = op[w].on

Lines == LinesExact /\ NoLostWaiter /\ (\A c \in Chans : Served(c)) /\ CallsExact
LInv == Lines /\ Deferred

LEMMA LInvSuffices == IInv /\ LInv => NoMissedMatch /\ NoForgottenClaim
<1> SUFFICES ASSUME IInv, LInv PROVE NoMissedMatch /\ NoForgottenClaim
  OBVIOUS
<1>t. /\ waiters \subseteq Strands
      /\ \A c \in Chans : senders[c] \in Seq(Strands) /\ receivers[c] \in Seq(Strands)
  BY DEF IInv, TypeOK, ContextOK, ChannelsOK
<1>1. ASSUME NEW c \in Chans
      PROVE  /\ Active(senders[c]) # {} => Waiting("send", c) # {} /\ ~closed[c]
             /\ Active(receivers[c]) # {} => Waiting("recv", c) # {} /\ ~closed[c]
  <2>1. ASSUME NEW i \in Active(senders[c])
        PROVE  senders[c][i] \in Waiting("send", c) /\ senders[c] # <<>>
    BY <1>t DEF Active, InLine, LInv, Lines, LinesExact, Stand, Waiting
  <2>2. ASSUME NEW i \in Active(receivers[c])
        PROVE  receivers[c][i] \in Waiting("recv", c) /\ receivers[c] # <<>>
    BY <1>t DEF Active, InLine, LInv, Lines, LinesExact, Stand, Waiting
  <2> QED
    BY <2>1, <2>2 DEF LInv, Lines, Served
<1>2. NoMissedMatch
  BY <1>1 DEF NoMissedMatch, LInv, Lines, Served
<1>3. NoForgottenClaim
  BY DEF LInv, Deferred, NoForgottenClaim
<1> QED
  BY <1>2, <1>3

(* A step that leaves the channels alone, and every send and receive where *)
(* it is, except that a waiter may get a deadlock answer.                  *)
Quiet ==
  /\ UNCHANGED <<queue, senders, receivers, closed, todo>>
  /\ waiters' \subseteq waiters
  /\ \A x \in Strands :
       /\ pc[x] \in InWait <=> pc'[x] \in InWait
       /\ pc[x] = "enter" <=> pc'[x] = "enter"
       /\ pc[x] = "closing" <=> pc'[x] = "closing"
       /\ pc[x] \in Busy => op'[x] = op[x] /\ budget'[x] = budget[x]
       /\ op'[x] # op[x] => op'[x].kind \notin {"send", "recv"}
       /\ x \in waiters \ waiters' => reply'[x] = Answer("deadlock")
       /\ pc[x] \in InWait /\ x \notin waiters => reply'[x] = reply[x]

LEMMA QuietStep ==
  ASSUME IInv, LInv, Quiet
  PROVE  Lines'
<1>t. /\ waiters \subseteq Strands
      /\ \A x \in waiters : pc[x] \in InWait /\ pc[x] \in Busy /\ op'[x] = op[x]
  BY DEF IInv, TypeOK, ContextOK, Waits, InWait, Busy, Quiet
<1>1. LinesExact'
  <2> SUFFICES ASSUME NEW c \in Chans
               PROVE  Stand("send", c, senders[c])' /\ Stand("recv", c, receivers[c])'
    BY DEF LinesExact
  <2>1. ASSUME NEW s \in Strands, NEW kind, NEW line, Stand(kind, c, line), InLine(s, line)
        PROVE  /\ op'[s].kind = kind /\ op'[s].on = c /\ pc'[s] \in InWait
               /\ s \in waiters' \/ reply'[s] = Answer("deadlock")
    BY <2>1 DEF Quiet, Busy, Stand, At
  <2>2. ASSUME NEW kind, NEW line, Stand(kind, c, line)
        PROVE  /\ Distinct(line)
               /\ \A s \in Strands : InLine(s, line) =>
                    /\ op'[s].kind = kind /\ op'[s].on = c /\ pc'[s] \in InWait
                    /\ s \in waiters' \/ reply'[s] = Answer("deadlock")
    BY <2>1, <2>2 DEF Stand
  <2>3. senders' = senders /\ receivers' = receivers
    BY DEF Quiet
  <2>4. Stand("send", c, senders[c]) /\ Stand("recv", c, receivers[c])
    BY DEF LInv, Lines, LinesExact
  <2>5. /\ Distinct(senders[c]) /\ Distinct(receivers[c])
        /\ \A s \in Strands : InLine(s, senders[c]) =>
             /\ op'[s].kind = "send" /\ op'[s].on = c /\ pc'[s] \in InWait
             /\ s \in waiters' \/ reply'[s] = Answer("deadlock")
        /\ \A s \in Strands : InLine(s, receivers[c]) =>
             /\ op'[s].kind = "recv" /\ op'[s].on = c /\ pc'[s] \in InWait
             /\ s \in waiters' \/ reply'[s] = Answer("deadlock")
    BY <2>2, <2>4
  <2> QED
    BY <2>3, <2>5 DEF Stand, At, InLine, Distinct
<1>2. NoLostWaiter'
  <2> SUFFICES ASSUME NEW s \in waiters'
               PROVE  LET c == op'[s].on
                      IN  \/ op'[s].kind = "send" /\ InLine(s, senders'[c])
                          \/ op'[s].kind = "recv" /\ InLine(s, receivers'[c])
                          \/ \E k \in Strands : pc'[k] = "closing" /\ op'[k].on = c
                                                 /\ InLine(s, todo'[k])
    BY DEF NoLostWaiter, InLine
  <2>1. s \in waiters /\ op'[s] = op[s]
    BY <1>t DEF Quiet
  <2>2. \A k \in Strands : pc[k] = "closing" => pc'[k] = "closing" /\ op'[k] = op[k]
    BY DEF Quiet, Busy
  <2>3. UNCHANGED <<senders, receivers, todo>>
    BY DEF Quiet
  <2> QED
    BY <2>1, <2>2, <2>3 DEF LInv, Lines, NoLostWaiter
<1>3. ASSUME NEW c \in Chans PROVE Served(c)'
  <2>1. \A kind : Waiting(kind, c)' \subseteq Waiting(kind, c)
    BY <1>t DEF Waiting, At, Quiet
  <2> QED
    BY <2>1 DEF LInv, Lines, Served, Quiet
<1>4. CallsExact'
  <2> SUFFICES ASSUME NEW s \in Strands
               PROVE  /\ op'[s].kind \in {"send", "recv"} <=> pc'[s] \in InWait \cup {"enter"}
                      /\ pc'[s] \in InWait /\ reply'[s] = NoReply => s \in waiters'
                      /\ pc'[s] = "closing" => closed'[op'[s].on]
    BY DEF CallsExact
  <2>1. op'[s].kind \in {"send", "recv"} <=> pc'[s] \in InWait \cup {"enter"}
    BY DEF LInv, Lines, CallsExact, Quiet, Busy
  <2>2. pc'[s] \in InWait /\ reply'[s] = NoReply => s \in waiters'
    BY DEF LInv, Lines, CallsExact, Quiet, NoReply, Answer
  <2>3. pc'[s] = "closing" => closed'[op'[s].on]
    BY DEF LInv, Lines, CallsExact, Quiet, Busy
  <2> QED
    BY <2>1, <2>2, <2>3
<1> QED
  BY <1>1, <1>2, <1>3, <1>4 DEF Lines

(* What a claim does to the waiters and the answers.                       *)
LEMMA ClaimQuiet ==
  ASSUME uncounted = {}, waiters \subseteq Strands, NEW r \in Nat, NEW A \in SUBSET Strands,
         \A x \in A : pc[x] \notin InWait,
         ClaimDeadlocked(r, waiters, A, reply)
  PROVE  /\ waiters' \subseteq waiters
         /\ \A x \in Strands :
              /\ x \in waiters \ waiters' => reply'[x] = Answer("deadlock")
              /\ pc[x] \in InWait /\ x \notin waiters => reply'[x] = reply[x]
<1>0. waiters \in SUBSET Strands
  OBVIOUS
<1>1. \E K \in SUBSET (waiters \cup A) :
        /\ r # 0 => K = {}
        /\ K \subseteq waiters \/ waiters = {}
        /\ waiters' = waiters \ K /\ awaiters' = A \ K /\ uncounted' = {}
        /\ runnable' = r + Cardinality(K)
        /\ reply' = [s \in Strands |-> IF s \in K THEN Answer("deadlock") ELSE reply[s]]
  BY <1>0, ClaimEffect
<1>2. PICK K \in SUBSET (waiters \cup A) :
        /\ waiters' = waiters \ K
        /\ reply' = [s \in Strands |-> IF s \in K THEN Answer("deadlock") ELSE reply[s]]
  BY <1>1
<1> QED
  BY <1>2

QuietActions(s) ==
  \/ s = Main /\ (BeginRun \/ EndRun)
  \/ FinishPending(s) \/ CollectContexts(s) \/ Recheck(s)
  \/ TaskStep(s) \/ PmapStep(s)

LEMMA IsQuiet ==
  ASSUME IInv, NEW s \in Strands, QuietActions(s)
  PROVE  Quiet
<1>t. /\ pc \in [Strands -> Labels] /\ op \in [Strands -> Operations]
      /\ reply \in [Strands -> Replies] /\ budget \in [Strands -> 0..MaxOps]
      /\ waiters \in SUBSET Strands /\ awaiters \in SUBSET Strands /\ uncounted = {}
      /\ runnable \in Nat /\ parked \in SUBSET Strands
      /\ \A x \in waiters : pc[x] \in InWait
      /\ \A x \in awaiters : pc[x] = "await" /\ pc[x] \notin InWait
      /\ Main \in Strands /\ Pool \subseteq Strands
  BY DEF IInv, TypeOK, ContextOK, StrandsOK, Waits, InWait, Strands
<1>c. ASSUME NEW r \in Nat, NEW A \in SUBSET Strands, \A x \in A : pc[x] \notin InWait,
             ClaimDeadlocked(r, waiters, A, reply)
      PROVE  /\ waiters' \subseteq waiters
             /\ \A x \in Strands :
                  /\ x \in waiters \ waiters' => reply'[x] = Answer("deadlock")
                  /\ pc[x] \in InWait /\ x \notin waiters => reply'[x] = reply[x]
  BY <1>c, <1>t, ClaimQuiet
<1>d. (IF runnable > 0 THEN runnable - 1 ELSE 0) \in Nat
  BY <1>t
<1>1. CASE s = Main /\ BeginRun
  BY <1>1, <1>t DEF BeginRun, Quiet, Goto, chanVars, InWait, Busy
<1>2. CASE s = Main /\ EndRun
  <2>1. /\ waiters' \subseteq waiters
        /\ \A x \in Strands :
             /\ x \in waiters \ waiters' => reply'[x] = Answer("deadlock")
             /\ pc[x] \in InWait /\ x \notin waiters => reply'[x] = reply[x]
    BY <1>2, <1>t, <1>c, <1>d DEF EndRun
  <2> QED
    BY <1>2, <2>1, <1>t DEF EndRun, Quiet, Goto, chanVars, InWait, Busy
<1>3. CASE FinishPending(s) \/ CollectContexts(s)
  BY <1>3, <1>t DEF FinishPending, CollectContexts, Quiet, Goto, chanVars, ctxVars, InWait, Busy
<1>4. CASE Recheck(s)
  <2>1. /\ waiters' \subseteq waiters
        /\ \A x \in Strands :
             /\ x \in waiters \ waiters' => reply'[x] = Answer("deadlock")
             /\ pc[x] \in InWait /\ x \notin waiters => reply'[x] = reply[x]
    BY <1>4, <1>t, <1>c DEF Recheck
  <2> QED
    BY <1>4, <2>1, <1>t DEF Recheck, Quiet, Goto, chanVars, InWait, Busy
<1>5. CASE TaskStep(s)
  <2>1. ASSUME NEW t \in Pool, Spawn(s, t) \/ AwaitDone(s, t) PROVE Quiet
    BY <2>1, <1>t DEF Spawn, AwaitDone, Quiet, chanVars, ctxVars, InWait, Busy
  <2>2. ASSUME NEW t \in Pool, Await(s, t) PROVE Quiet
    <3>1. pc[s] = "run" /\ op' = [op EXCEPT ![s] = [kind |-> "await", on |-> t]]
      BY <2>2 DEF Await, Starts
    <3>2. \A x \in awaiters \cup {s} : pc[x] \notin InWait
      BY <3>1, <1>t DEF InWait
    <3>3. CASE runnable > 0
      <4>1. runnable - 1 \in Nat /\ ClaimDeadlocked(runnable - 1, waiters, awaiters \cup {s}, reply)
        BY <2>2, <3>3, <1>t DEF Await
      <4>2. /\ waiters' \subseteq waiters
            /\ \A x \in Strands :
                 /\ x \in waiters \ waiters' => reply'[x] = Answer("deadlock")
                 /\ pc[x] \in InWait /\ x \notin waiters => reply'[x] = reply[x]
        BY <4>1, <3>2, <1>t, <1>c
      <4> QED
        BY <2>2, <4>2, <3>1, <1>t DEF Await, Quiet, Goto, chanVars, InWait, Busy
    <3>4. CASE ~(runnable > 0)
      BY <2>2, <3>1, <3>4, <1>t DEF Await, Quiet, Goto, chanVars, InWait, Busy
    <3> QED
      BY <3>3, <3>4
  <2>3. CASE SpawnRefused(s) \/ ReleaseTask(s)
    BY <2>3, <1>t DEF SpawnRefused, ReleaseTask, Quiet, Goto, chanVars, ctxVars, InWait, Busy
  <2>4. CASE AwaitResult(s) \/ AwaitDeadlock(s)
    BY <2>4, <1>t DEF AwaitResult, AwaitDeadlock, Ends, Quiet, Goto, chanVars, ctxVars, InWait,
                      Busy, NoOp
  <2>5. CASE Complete(s)
    <3> DEFINE resumed == {x \in awaiters : op[x].on = s}
    <3>1. resumed \in SUBSET Strands
      BY <1>t
    <3>2. Cardinality(resumed) \in Nat
      BY <3>1, Finite
    <3>3. /\ ClaimDeadlocked((IF runnable > 0 THEN runnable - 1 ELSE 0) + Cardinality(resumed),
                             waiters, awaiters \ resumed, reply)
          /\ awaiters \ resumed \in SUBSET Strands
      BY <2>5, <1>t DEF Complete
    <3> HIDE DEF resumed
    <3>4. (IF runnable > 0 THEN runnable - 1 ELSE 0) + Cardinality(resumed) \in Nat
      BY <3>2, <1>d
    <3>5. /\ waiters' \subseteq waiters
          /\ \A x \in Strands :
               /\ x \in waiters \ waiters' => reply'[x] = Answer("deadlock")
               /\ pc[x] \in InWait /\ x \notin waiters => reply'[x] = reply[x]
      BY <3>3, <3>4, <1>t, <1>c
    <3> QED
      BY <2>5, <3>5, <1>t DEF Complete, Quiet, Goto, chanVars, InWait, Busy
  <2> QED
    BY <1>5, <2>1, <2>2, <2>3, <2>4, <2>5 DEF TaskStep
<1>6. CASE PmapStep(s)
  <2>1. ASSUME NEW W \in SUBSET Pool, Pmap(s, W) PROVE Quiet
    BY <2>1, <1>t DEF Pmap, Quiet, chanVars, InWait, Busy
  <2>2. CASE WorkerDone(s) \/ PmapReturn(s)
    BY <2>2, <1>t DEF WorkerDone, PmapReturn, Quiet, Goto, chanVars, ctxVars, InWait, Busy
  <2>3. CASE WorkerExit(s)
    <3> DEFINE resumed == IF pc[s] = "quitLast" THEN parked \cap {boss[s]} ELSE {}
    <3>1. resumed \in SUBSET Strands
      BY <1>t
    <3>2. Cardinality(resumed) \in Nat
      BY <3>1, Finite
    <3>3. ClaimDeadlocked((IF runnable > 0 THEN runnable - 1 ELSE 0) + Cardinality(resumed),
                          waiters, awaiters, reply)
      BY <2>3 DEF WorkerExit
    <3> HIDE DEF resumed
    <3>4. (IF runnable > 0 THEN runnable - 1 ELSE 0) + Cardinality(resumed) \in Nat
      BY <3>2, <1>d
    <3>5. /\ waiters' \subseteq waiters
          /\ \A x \in Strands :
               /\ x \in waiters \ waiters' => reply'[x] = Answer("deadlock")
               /\ pc[x] \in InWait /\ x \notin waiters => reply'[x] = reply[x]
      BY <3>3, <3>4, <1>t, <1>c
    <3> QED
      BY <2>3, <3>5, <1>t DEF WorkerExit, Quiet, Goto, chanVars, InWait, Busy
  <2> QED
    BY <1>6, <2>1, <2>2, <2>3 DEF PmapStep
<1> QED
  BY <1>1, <1>2, <1>3, <1>4, <1>5, <1>6 DEF QuietActions

(* Who waits for a channel that is open stands in its line.                *)
LEMMA NoneWaiting ==
  ASSUME Lines, NEW c \in Chans, ~closed[c]
  PROVE  /\ NoneActive(senders[c]) => Waiting("send", c) = {}
         /\ NoneActive(receivers[c]) => Waiting("recv", c) = {}
<1>1. \A k \in Strands : pc[k] = "closing" => op[k].on # c
  BY DEF Lines, CallsExact
<1>2. \A s \in Waiting("send", c) : s \in waiters /\ InLine(s, senders[c])
  BY <1>1 DEF Lines, NoLostWaiter, Waiting, At
<1>3. \A s \in Waiting("recv", c) : s \in waiters /\ InLine(s, receivers[c])
  BY <1>1 DEF Lines, NoLostWaiter, Waiting, At
<1>4. \A line : NoneActive(line) => \A s \in waiters : ~InLine(s, line)
  BY DEF NoneActive, InLine
<1> QED
  BY <1>2, <1>3, <1>4

(* The line behind the first waiter of a line: whoever stood in it and is  *)
(* not woken, is in it still.                                              *)
LEMMA PoppedLine ==
  ASSUME NEW line \in Seq(Strands), NEW i \in 1..Len(line), FirstActive(line, i), Distinct(line)
  PROVE  /\ Distinct(After(line, i)) /\ After(line, i) \in Seq(Strands)
         /\ \A s : InLine(s, After(line, i)) => InLine(s, line) /\ s # line[i]
         /\ \A s \in waiters : InLine(s, line) => InLine(s, After(line, i)) \/ s = line[i]
<1>1. ASSUME NEW s, InLine(s, After(line, i)) PROVE InLine(s, line) /\ s # line[i]
  <2>1. PICK j \in (i + 1)..Len(line) : line[j] = s
    BY <1>1, AfterLine
  <2>2. j \in 1..Len(line) /\ j # i
    BY <2>1
  <2> QED
    BY <2>1, <2>2 DEF InLine, Distinct
<1>2. ASSUME NEW s \in waiters, InLine(s, line) PROVE InLine(s, After(line, i)) \/ s = line[i]
  <2>1. PICK j \in 1..Len(line) : line[j] = s
    BY <1>2 DEF InLine
  <2>2. j \in 1..(i - 1) \/ j = i \/ j \in (i + 1)..Len(line)
    BY <2>1
  <2>3. j \notin 1..(i - 1)
    BY <2>1 DEF FirstActive
  <2> QED
    BY <2>1, <2>2, <2>3, AfterLine
<1> QED
  BY <1>1, <1>2, AfterLine, AfterType

(* A step of a strand s out of the entry of its channel c: it wakes the    *)
(* waiters V of c, and blocks itself (B) or has its answer; of the lines   *)
(* of c, only the woken and the long answered go.                          *)
Keeps(old, new, V, B) ==
  /\ Distinct(new)
  /\ \A x \in Strands : InLine(x, new) => (InLine(x, old) /\ x \notin V) \/ x \in B
  /\ \A x \in waiters : InLine(x, old) => InLine(x, new) \/ x \in V
  /\ \A x \in B : InLine(x, new)

LEMMA KeepsSame ==
  ASSUME NEW line, Distinct(line)
  PROVE  /\ Keeps(line, line, {}, {})
         /\ NoneActive(line) => Keeps(line, <<>>, {}, {})
         /\ \A V : (\A x \in V : ~InLine(x, line)) => Keeps(line, line, V, {})
<1>1. /\ Distinct(<<>>) /\ \A x : ~InLine(x, <<>>)
  BY DEF Distinct, InLine
<1>2. NoneActive(line) => \A x \in waiters : ~InLine(x, line)
  BY DEF NoneActive, InLine
<1> QED
  BY <1>1, <1>2 DEF Keeps

LEMMA KeepsRest ==
  ASSUME NEW line \in Seq(Strands), NEW i \in 1..Len(line), FirstActive(line, i), Distinct(line)
  PROVE  Keeps(line, After(line, i), {line[i]}, {})
  BY PoppedLine DEF Keeps

LEMMA KeepsAppended ==
  ASSUME NEW line \in Seq(Strands), NEW s \in Strands, Distinct(line), ~InLine(s, line)
  PROVE  Keeps(line, Append(line, s), {}, {s})
  BY AppendLine DEF Keeps

Others(c) ==
  /\ \A d \in Chans \ {c} :
       queue'[d] = queue[d] /\ senders'[d] = senders[d] /\ receivers'[d] = receivers[d]
  /\ closed' = closed /\ todo' = todo

Releases(s, c, V, B) ==
  /\ pc[s] = "enter" /\ op[s].on = c /\ op[s].kind \in {"send", "recv"}
  /\ pc' = [pc EXCEPT ![s] = "finish"] /\ op' = op /\ Others(c)
  /\ V \subseteq waiters /\ \A x \in V : op[x].on = c
  /\ B \subseteq {s} /\ waiters' = (waiters \ V) \cup B
  /\ \A x \in Strands : x \notin V /\ x # s => reply'[x] = reply[x]
  /\ \A x \in V : reply'[x] # NoReply
  /\ B = {} => reply'[s] # NoReply
  /\ Keeps(senders[c], senders'[c], V, IF op[s].kind = "send" THEN B ELSE {})
  /\ Keeps(receivers[c], receivers'[c], V, IF op[s].kind = "recv" THEN B ELSE {})

LEMMA EnteredStep ==
  ASSUME IInv, Lines, NEW s \in Strands, NEW c \in Chans, NEW V, NEW B,
         Releases(s, c, V, B), Served(c)'
  PROVE  Lines'
<1> USE DEF Releases
<1>t. /\ waiters \subseteq Strands /\ s \notin waiters /\ pc \in [Strands -> Labels]
      /\ \A x \in Strands : pc'[x] = IF x = s THEN "finish" ELSE pc[x]
      /\ \A x \in waiters : x # s /\ op[x].kind \in {"send", "recv"}
  BY DEF IInv, TypeOK, ContextOK, StrandsOK, Waits
<1>1. LinesExact'
  <2>1. ASSUME NEW kind \in {"send", "recv"}, NEW d \in Chans, NEW old, NEW new,
               Stand(kind, d, old), Distinct(new),
               \A x \in Strands : InLine(x, new) =>
                 (InLine(x, old) /\ x \notin V) \/ (x \in B /\ At(x, kind, d))
        PROVE  /\ Distinct(new)
               /\ \A x \in Strands : InLine(x, new) =>
                    /\ op'[x].kind = kind /\ op'[x].on = d /\ pc'[x] \in InWait
                    /\ x \in waiters' \/ reply'[x] = Answer("deadlock")
    <3> SUFFICES ASSUME NEW x \in Strands, InLine(x, new)
                 PROVE  /\ op'[x].kind = kind /\ op'[x].on = d /\ pc'[x] \in InWait
                        /\ x \in waiters' \/ reply'[x] = Answer("deadlock")
      BY <2>1
    <3>1. CASE x \in B /\ At(x, kind, d)
      BY <3>1, <1>t DEF At, InWait
    <3>2. CASE InLine(x, old) /\ x \notin V
      <4>1. At(x, kind, d) /\ pc[x] \in InWait /\ (x \in waiters \/ reply[x] = Answer("deadlock"))
        BY <3>2, <2>1 DEF Stand
      <4>2. x # s
        BY <4>1 DEF InWait
      <4> QED
        BY <4>1, <4>2, <3>2, <1>t DEF At
    <3> QED
      BY <2>1, <3>1, <3>2
  <2> SUFFICES ASSUME NEW d \in Chans
               PROVE  Stand("send", d, senders[d])' /\ Stand("recv", d, receivers[d])'
    BY DEF LinesExact
  <2>2. Stand("send", d, senders[d]) /\ Stand("recv", d, receivers[d])
    BY DEF Lines, LinesExact
  <2>3. CASE d = c
    <3>1. /\ Distinct(senders'[d])
          /\ \A x \in Strands : InLine(x, senders'[d]) =>
               (InLine(x, senders[d]) /\ x \notin V) \/ (x \in B /\ At(x, "send", d))
      BY <2>3 DEF Keeps, At
    <3>2. /\ Distinct(receivers'[d])
          /\ \A x \in Strands : InLine(x, receivers'[d]) =>
               (InLine(x, receivers[d]) /\ x \notin V) \/ (x \in B /\ At(x, "recv", d))
      BY <2>3 DEF Keeps, At
    <3>3. /\ Distinct(senders'[d])
          /\ \A x \in Strands : InLine(x, senders'[d]) =>
               /\ op'[x].kind = "send" /\ op'[x].on = d /\ pc'[x] \in InWait
               /\ x \in waiters' \/ reply'[x] = Answer("deadlock")
      BY <2>1, <2>2, <3>1
    <3>4. /\ Distinct(receivers'[d])
          /\ \A x \in Strands : InLine(x, receivers'[d]) =>
               /\ op'[x].kind = "recv" /\ op'[x].on = d /\ pc'[x] \in InWait
               /\ x \in waiters' \/ reply'[x] = Answer("deadlock")
      BY <2>1, <2>2, <3>2
    <3> QED
      BY <3>3, <3>4 DEF Stand, At, InLine, Distinct
  <2>4. CASE d # c
    <3>1. senders'[d] = senders[d] /\ receivers'[d] = receivers[d]
      BY <2>4 DEF Others
    <3>2. \A x \in V : ~InLine(x, senders[d]) /\ ~InLine(x, receivers[d])
      BY <2>2, <2>4, <1>t DEF Stand, At
    <3>3. /\ Distinct(senders[d])
          /\ \A x \in Strands : InLine(x, senders[d]) =>
               /\ op'[x].kind = "send" /\ op'[x].on = d /\ pc'[x] \in InWait
               /\ x \in waiters' \/ reply'[x] = Answer("deadlock")
      <4>1. Distinct(senders[d]) /\ \A x \in Strands : InLine(x, senders[d]) =>
              (InLine(x, senders[d]) /\ x \notin V) \/ (x \in B /\ At(x, "send", d))
        BY <3>2, <2>2 DEF Stand
      <4> QED
        BY <4>1, <2>1, <2>2
    <3>4. /\ Distinct(receivers[d])
          /\ \A x \in Strands : InLine(x, receivers[d]) =>
               /\ op'[x].kind = "recv" /\ op'[x].on = d /\ pc'[x] \in InWait
               /\ x \in waiters' \/ reply'[x] = Answer("deadlock")
      <4>1. Distinct(receivers[d]) /\ \A x \in Strands : InLine(x, receivers[d]) =>
              (InLine(x, receivers[d]) /\ x \notin V) \/ (x \in B /\ At(x, "recv", d))
        BY <3>2, <2>2 DEF Stand
      <4> QED
        BY <4>1, <2>1, <2>2
    <3> QED
      BY <3>1, <3>3, <3>4 DEF Stand, At, InLine, Distinct
  <2> QED
    BY <2>3, <2>4
<1>2. NoLostWaiter'
  <2> SUFFICES ASSUME NEW x \in waiters'
               PROVE  LET d == op'[x].on
                      IN  \/ op'[x].kind = "send" /\ InLine(x, senders'[d])
                          \/ op'[x].kind = "recv" /\ InLine(x, receivers'[d])
                          \/ \E k \in Strands : pc'[k] = "closing" /\ op'[k].on = d
                                                 /\ InLine(x, todo'[k])
    BY DEF NoLostWaiter, InLine
  <2>1. CASE x \in B
    BY <2>1 DEF Keeps
  <2>2. CASE x \in waiters /\ x \notin V
    <3>1. \/ op[x].kind = "send" /\ InLine(x, senders[op[x].on])
          \/ op[x].kind = "recv" /\ InLine(x, receivers[op[x].on])
          \/ \E k \in Strands : pc[k] = "closing" /\ op[k].on = op[x].on /\ InLine(x, todo[k])
      BY <2>2 DEF Lines, NoLostWaiter
    <3>2. CASE \E k \in Strands : pc[k] = "closing" /\ op[k].on = op[x].on /\ InLine(x, todo[k])
      BY <3>2, <1>t DEF Others
    <3>3. CASE op[x].kind = "send" /\ InLine(x, senders[op[x].on])
      <4>1. CASE op[x].on = c
        BY <4>1, <3>3, <2>2 DEF Keeps
      <4>2. CASE op[x].on # c
        <5>1. op[x].on \in Chans
          BY <2>2, <1>t DEF IInv, Roles, Waits, InChannelLabels
        <5> QED
          BY <4>2, <5>1, <3>3 DEF Others
      <4> QED
        BY <4>1, <4>2
    <3>4. CASE op[x].kind = "recv" /\ InLine(x, receivers[op[x].on])
      <4>1. CASE op[x].on = c
        BY <4>1, <3>4, <2>2 DEF Keeps
      <4>2. CASE op[x].on # c
        <5>1. op[x].on \in Chans
          BY <2>2, <1>t DEF IInv, Roles, Waits, InChannelLabels
        <5> QED
          BY <4>2, <5>1, <3>4 DEF Others
      <4> QED
        BY <4>1, <4>2
    <3> QED
      BY <3>1, <3>2, <3>3, <3>4
  <2> QED
    BY <2>1, <2>2
<1>3. ASSUME NEW d \in Chans PROVE Served(d)'
  <2>1. CASE d # c
    <3>1. \A kind : Waiting(kind, d)' \subseteq Waiting(kind, d)
      BY <2>1 DEF Waiting, At
    <3> QED
      BY <2>1, <3>1 DEF Lines, Served, Others
  <2> QED
    BY <2>1
<1>4. CallsExact'
  <2> SUFFICES ASSUME NEW x \in Strands
               PROVE  /\ op'[x].kind \in {"send", "recv"} <=> pc'[x] \in InWait \cup {"enter"}
                      /\ pc'[x] \in InWait /\ reply'[x] = NoReply => x \in waiters'
                      /\ pc'[x] = "closing" => closed'[op'[x].on]
    BY DEF CallsExact
  <2> QED
    BY <1>t DEF Lines, CallsExact, InWait, Others
<1> QED
  BY <1>1, <1>2, <1>3, <1>4 DEF Lines


(* What holds of a strand that is entering its channel.                    *)
LEMMA Entered ==
  ASSUME IInv, Lines, NEW s \in Strands, pc[s] = "enter"
  PROVE  /\ op[s].on \in Chans /\ reply[s] = NoReply /\ s \notin waiters
         /\ \A d \in Chans : ~InLine(s, senders[d]) /\ ~InLine(s, receivers[d])
         /\ \A d \in Chans : /\ senders[d] \in Seq(Strands) /\ receivers[d] \in Seq(Strands)
                             /\ Distinct(senders[d]) /\ Distinct(receivers[d])
                             /\ queue[d] \in Seq(Messages) /\ Capacity[d] \in Nat
                             /\ Served(d)
<1>1. ChannelsOK /\ Waits /\ Roles
  BY DEF IInv, TypeOK
<1>2. \A d \in Chans : Capacity[d] \in Nat
  BY ConstantsAssumption
<1> QED
  BY <1>1, <1>2 DEF ChannelsOK, Waits, Roles, InChannelLabels, Lines, LinesExact, Stand, InWait

(* EnteredStep when s has its answer and wakes nobody, when it wakes w, and *)
(* when it blocks.                                                         *)
LEMMA AnsweredLines ==
  ASSUME IInv, Lines, NEW s \in Strands, NEW c \in Chans, pc[s] = "enter", op[s].on = c,
         op[s].kind \in {"send", "recv"},
         pc' = [pc EXCEPT ![s] = "finish"], op' = op, Others(c),
         waiters' = waiters, NEW a, a # NoReply, reply' = [reply EXCEPT ![s] = a],
         Keeps(senders[c], senders'[c], {}, {}), Keeps(receivers[c], receivers'[c], {}, {}),
         Served(c)'
  PROVE  Lines'
<1>1. reply \in [Strands -> Replies]
  BY DEF IInv, TypeOK, StrandsOK
<1>2. Releases(s, c, {}, {})
  BY <1>1 DEF Releases
<1> QED
  BY <1>2, EnteredStep

LEMMA WokenLines ==
  ASSUME IInv, Lines, NEW s \in Strands, NEW c \in Chans, pc[s] = "enter", op[s].on = c,
         op[s].kind \in {"send", "recv"},
         pc' = [pc EXCEPT ![s] = "finish"], op' = op, Others(c),
         NEW w \in waiters, op[w].on = c, waiters' = waiters \ {w},
         reply'[s] # NoReply, reply'[w] # NoReply,
         \A x \in Strands : x # w /\ x # s => reply'[x] = reply[x],
         Keeps(senders[c], senders'[c], {w}, {}), Keeps(receivers[c], receivers'[c], {w}, {}),
         Served(c)'
  PROVE  Lines'
<1>1. Releases(s, c, {w}, {})
  BY DEF Releases
<1> QED
  BY <1>1, EnteredStep

LEMMA BlockedLines ==
  ASSUME IInv, Lines, NEW s \in Strands, NEW c \in Chans, pc[s] = "enter", op[s].on = c,
         op[s].kind \in {"send", "recv"},
         pc' = [pc EXCEPT ![s] = "finish"], op' = op, Others(c),
         waiters' = waiters \cup {s}, reply' = reply,
         Keeps(senders[c], senders'[c], {}, IF op[s].kind = "send" THEN {s} ELSE {}),
         Keeps(receivers[c], receivers'[c], {}, IF op[s].kind = "recv" THEN {s} ELSE {}),
         Served(c)'
  PROVE  Lines'
<1>1. Releases(s, c, {}, {s})
  BY DEF Releases
<1> QED
  BY <1>1, EnteredStep

LEMMA SendLines ==
  ASSUME IInv, Lines, NEW s \in Strands,
         SendClosed(s) \/ SendMatch(s) \/ SendBuffer(s) \/ SendBlock(s)
  PROVE  Lines'
<1>a. /\ pc[s] = "enter" /\ op[s].kind = "send"
      /\ pc' = [pc EXCEPT ![s] = "finish"]
      /\ op' = op /\ closed' = closed /\ todo' = todo
  BY DEF SendClosed, SendMatch, SendBuffer, SendBlock, InChannel, Leaves, Goto
<1>d. PICK c \in Chans : op[s].on = c
  BY <1>a, Entered
<1>b. /\ c \in Chans /\ reply[s] = NoReply /\ s \notin waiters /\ s \in Strands
      /\ senders[c] \in Seq(Strands) /\ receivers[c] \in Seq(Strands)
      /\ Distinct(senders[c]) /\ Distinct(receivers[c])
      /\ ~InLine(s, senders[c]) /\ ~InLine(s, receivers[c])
      /\ queue[c] \in Seq(Messages) /\ Capacity[c] \in Nat /\ Served(c)
  BY <1>a, <1>d, Entered
<1>c. /\ queue \in [Chans -> Seq(Messages)] /\ senders \in [Chans -> Seq(Strands)]
      /\ receivers \in [Chans -> Seq(Strands)] /\ reply \in [Strands -> Replies]
  BY DEF IInv, TypeOK, ChannelsOK, StrandsOK
<1>1. CASE SendClosed(s)
  <2>1. /\ Others(c) /\ senders' = senders /\ receivers' = receivers /\ queue' = queue
        /\ waiters' = waiters /\ reply' = [reply EXCEPT ![s] = Answer("closed")]
    BY <1>1, <1>a DEF SendClosed, Answered, Others
  <2>2. Served(c)'
    BY <1>a, <1>b, <2>1 DEF Served, Waiting, At
  <2>3. /\ Keeps(senders[c], senders'[c], {}, {}) /\ Keeps(receivers[c], receivers'[c], {}, {})
    BY <1>b, <2>1, KeepsSame
  <2>4. Answer("closed") # NoReply
    BY DEF Answer, NoReply
  <2> QED
    BY <1>a, <1>b, <1>d, <2>1, <2>2, <2>3, <2>4, AnsweredLines
<1>2. CASE SendMatch(s)
  <2>1. PICK i \in 1..Len(receivers[c]) :
          /\ FirstActive(receivers[c], i)
          /\ Wake(receivers[c][i], Received(Msg(s)), s, Answer("committed"))
          /\ receivers' = [receivers EXCEPT ![c] = After(@, i)]
    BY <1>2, <1>d DEF SendMatch
  <2> DEFINE w == receivers[c][i]
  <2>2. /\ w \in waiters /\ w \in Strands /\ InLine(w, receivers[c])
    BY <2>1, <1>b DEF FirstActive, InLine
  <2>3. At(w, "recv", c)
    BY <2>2, <1>b DEF Lines, LinesExact, Stand
  <2>4. ~InLine(w, senders[c])
    BY <2>2, <2>3, <1>b DEF Lines, LinesExact, Stand, At
  <2>5. /\ Keeps(receivers[c], After(receivers[c], i), {w}, {})
        /\ Keeps(senders[c], senders[c], {w}, {})
    BY <2>1, <2>4, <1>b, KeepsRest, KeepsSame
  <2> HIDE DEF w
  <2>6. /\ waiters' = waiters \ {w} /\ Others(c) /\ queue' = queue /\ senders' = senders
        /\ reply' = [reply EXCEPT ![w] = Received(Msg(s)), ![s] = Answer("committed")]
        /\ receivers'[c] = After(receivers[c], i)
    BY <2>1, <1>2, <1>a, <1>b, <1>c DEF SendMatch, Wake, Others, w
  <2>7. \A k : Waiting(k, c)' \subseteq Waiting(k, c)
    BY <2>6, <1>a DEF Waiting, At
  <2>8. Served(c)'
    <3>1. ~closed[c]
      BY <1>2, <1>d DEF SendMatch
    <3> QED
      BY <2>6, <2>7, <1>a, <1>b, <3>1 DEF Served
  <2>9. /\ reply'[s] # NoReply /\ reply'[w] # NoReply
        /\ \A x \in Strands : x # w /\ x # s => reply'[x] = reply[x]
    BY <2>6, <2>2, <1>b, <1>c DEF Answer, NoReply, Received
  <2> QED
    BY <1>a, <1>b, <1>d, <2>2, <2>3, <2>5, <2>6, <2>8, <2>9, WokenLines DEF At
<1>3. CASE SendBuffer(s)
  <2>1. /\ NoneActive(receivers[c]) /\ Len(queue[c]) < Capacity[c] /\ ~closed[c]
        /\ queue' = [queue EXCEPT ![c] = Append(@, Msg(s))]
        /\ receivers' = [receivers EXCEPT ![c] = <<>>]
        /\ waiters' = waiters /\ reply' = [reply EXCEPT ![s] = Answer("committed")]
        /\ senders' = senders
    BY <1>3, <1>d DEF SendBuffer, Answered
  <2>2. Waiting("recv", c) = {} /\ Waiting("send", c) = {}
    <3>1. Waiting("recv", c) = {}
      BY <2>1, <1>b, NoneWaiting
    <3>2. Len(queue[c]) # Capacity[c]
      BY <2>1, <1>b
    <3> QED
      BY <3>1, <3>2, <2>1, <1>b DEF Served
  <2>3. Waiting("recv", c)' = {} /\ Waiting("send", c)' = {}
    BY <2>1, <2>2, <1>a DEF Waiting, At
  <2>4. Len(queue'[c]) <= Capacity[c]
    BY <2>1, <1>b, <1>c
  <2>5. Served(c)'
    BY <2>3, <2>4, <2>1, <1>a DEF Served
  <2>6. Others(c) /\ receivers'[c] = <<>>
    BY <2>1, <1>a, <1>b, <1>c DEF Others
  <2>7. /\ Keeps(senders[c], senders'[c], {}, {}) /\ Keeps(receivers[c], receivers'[c], {}, {})
    BY <1>b, <2>1, <2>6, KeepsSame
  <2>8. Answer("committed") # NoReply
    BY DEF Answer, NoReply
  <2> QED
    BY <1>a, <1>b, <1>d, <2>1, <2>5, <2>6, <2>7, <2>8, AnsweredLines
<1>4. CASE SendBlock(s)
  <2>1. /\ NoneActive(receivers[c]) /\ Len(queue[c]) >= Capacity[c] /\ ~closed[c]
        /\ receivers' = [receivers EXCEPT ![c] = <<>>]
        /\ senders' = [senders EXCEPT ![c] = Append(@, s)]
        /\ waiters' = waiters \cup {s} /\ reply' = reply /\ queue' = queue
    BY <1>4, <1>d DEF SendBlock, BlockChannel
  <2>2. Waiting("recv", c) = {}
    BY <2>1, <1>b, NoneWaiting
  <2>3. Waiting("recv", c)' = {}
    BY <2>1, <2>2, <1>a DEF Waiting, At
  <2>4. Len(queue[c]) = Capacity[c]
    BY <2>1, <1>b DEF Served
  <2>5. Served(c)'
    BY <2>1, <2>3, <2>4, <1>a, <1>b DEF Served
  <2>6. Others(c) /\ receivers'[c] = <<>> /\ senders'[c] = Append(senders[c], s)
    BY <2>1, <1>a, <1>b, <1>c DEF Others
  <2>7. /\ Keeps(senders[c], senders'[c], {}, {s}) /\ Keeps(receivers[c], receivers'[c], {}, {})
    BY <1>b, <2>1, <2>6, KeepsSame, KeepsAppended
  <2> QED
    BY <1>a, <1>b, <1>d, <2>1, <2>5, <2>6, <2>7, BlockedLines
<1> QED
  BY <1>1, <1>2, <1>3, <1>4

LEMMA RecvLines ==
  ASSUME IInv, Lines, NEW s \in Strands,
         RecvBuffered(s) \/ RecvMatch(s) \/ RecvClosed(s) \/ RecvBlock(s)
  PROVE  Lines'
<1>a. /\ pc[s] = "enter" /\ op[s].kind = "recv"
      /\ pc' = [pc EXCEPT ![s] = "finish"]
      /\ op' = op /\ closed' = closed /\ todo' = todo
  BY DEF RecvBuffered, RecvMatch, RecvClosed, RecvBlock, InChannel, Leaves, Goto
<1>d. PICK c \in Chans : op[s].on = c
  BY <1>a, Entered
<1>b. /\ c \in Chans /\ reply[s] = NoReply /\ s \notin waiters /\ s \in Strands
      /\ senders[c] \in Seq(Strands) /\ receivers[c] \in Seq(Strands)
      /\ Distinct(senders[c]) /\ Distinct(receivers[c])
      /\ ~InLine(s, senders[c]) /\ ~InLine(s, receivers[c])
      /\ queue[c] \in Seq(Messages) /\ Capacity[c] \in Nat /\ Served(c)
  BY <1>a, <1>d, Entered
<1>c. /\ queue \in [Chans -> Seq(Messages)] /\ senders \in [Chans -> Seq(Strands)]
      /\ receivers \in [Chans -> Seq(Strands)] /\ reply \in [Strands -> Replies]
  BY DEF IInv, TypeOK, ChannelsOK, StrandsOK
<1>e. \A m : Received(m) # NoReply
  BY DEF Received, NoReply
<1>f. Answer("committed") # NoReply /\ Answer("closed") # NoReply
  BY DEF Answer, NoReply
<1>w. ASSUME NEW i \in 1..Len(senders[c]), FirstActive(senders[c], i),
             NEW got, Wake(senders[c][i], Answer("committed"), s, Received(got)),
             senders' = [senders EXCEPT ![c] = After(@, i)], receivers' = receivers,
             \A d \in Chans \ {c} : queue'[d] = queue[d], Served(c)'
      PROVE  Lines'
  <2> DEFINE w == senders[c][i]
  <2>2. /\ w \in waiters /\ w \in Strands /\ InLine(w, senders[c])
    BY <1>w, <1>b DEF FirstActive, InLine
  <2>3. At(w, "send", c)
    BY <2>2, <1>b DEF Lines, LinesExact, Stand
  <2>4. ~InLine(w, receivers[c])
    BY <2>2, <2>3, <1>b DEF Lines, LinesExact, Stand, At
  <2>5. /\ Keeps(senders[c], After(senders[c], i), {w}, {})
        /\ Keeps(receivers[c], receivers[c], {w}, {})
    BY <1>w, <2>4, <1>b, KeepsRest, KeepsSame
  <2> HIDE DEF w
  <2>6. /\ waiters' = waiters \ {w} /\ Others(c)
        /\ reply' = [reply EXCEPT ![w] = Answer("committed"), ![s] = Received(got)]
        /\ senders'[c] = After(senders[c], i)
    BY <1>w, <1>a, <1>b, <1>c DEF Wake, Others, w
  <2>9. /\ reply'[s] # NoReply /\ reply'[w] # NoReply
        /\ \A x \in Strands : x # w /\ x # s => reply'[x] = reply[x]
    BY <2>6, <2>2, <1>b, <1>c, <1>e, <1>f
  <2> QED
    BY <1>a, <1>b, <1>d, <1>w, <2>2, <2>3, <2>5, <2>6, <2>9, WokenLines DEF At
<1>1. CASE RecvBuffered(s)
  <2>0. queue[c] # <<>> /\ receivers' = receivers
    BY <1>1, <1>d DEF RecvBuffered
  <2>1. Waiting("recv", c) = {} /\ Len(queue[c]) \in Nat /\ Len(queue[c]) > 0
        /\ Tail(queue[c]) \in Seq(Messages) /\ Len(Tail(queue[c])) = Len(queue[c]) - 1
    BY <2>0, <1>b DEF Served
  <2>2. CASE /\ ~closed[c]
             /\ \E i \in 1..Len(senders[c]) :
                  /\ FirstActive(senders[c], i)
                  /\ Wake(senders[c][i], Answer("committed"), s, Received(Head(queue[c])))
                  /\ senders' = [senders EXCEPT ![c] = After(@, i)]
                  /\ queue' = [queue EXCEPT ![c] = Append(Tail(@), Msg(senders[c][i]))]
    <3> PICK i \in 1..Len(senders[c]) :
                  /\ FirstActive(senders[c], i)
                  /\ Wake(senders[c][i], Answer("committed"), s, Received(Head(queue[c])))
                  /\ senders' = [senders EXCEPT ![c] = After(@, i)]
                  /\ queue' = [queue EXCEPT ![c] = Append(Tail(@), Msg(senders[c][i]))]
      BY <2>2
    <3>1. waiters' \subseteq waiters
      BY DEF Wake
    <3>2. Waiting("recv", c)' = {} /\ Waiting("send", c)' \subseteq Waiting("send", c)
      BY <3>1, <2>1, <1>a DEF Waiting, At
    <3>3. Len(queue'[c]) = Len(queue[c]) /\ \A d \in Chans \ {c} : queue'[d] = queue[d]
      <4>1. queue'[c] = Append(Tail(queue[c]), Msg(senders[c][i]))
        BY <1>b, <1>c
      <4>2. Len(Append(Tail(queue[c]), Msg(senders[c][i]))) = Len(Tail(queue[c])) + 1
        BY <2>1
      <4> QED
        BY <4>1, <4>2, <2>1, <1>c
    <3>4. Served(c)'
      BY <3>2, <3>3, <2>0, <2>2, <1>a, <1>b DEF Served
    <3> QED
      BY <1>w, <2>0, <3>3, <3>4
  <2>3. CASE /\ closed[c] \/ NoneActive(senders[c])
             /\ Answered(s, Received(Head(queue[c])))
             /\ senders' = [senders EXCEPT ![c] = IF closed[c] THEN @ ELSE <<>>]
             /\ queue' = [queue EXCEPT ![c] = Tail(@)]
    <3>1. /\ waiters' = waiters /\ reply' = [reply EXCEPT ![s] = Received(Head(queue[c]))]
      BY <2>3 DEF Answered
    <3>2. Others(c) /\ queue'[c] = Tail(queue[c])
      BY <2>3, <2>0, <1>a, <1>b, <1>c DEF Others
    <3>3. \/ senders'[c] = senders[c] /\ closed[c]
          \/ senders'[c] = <<>> /\ NoneActive(senders[c]) /\ ~closed[c]
      BY <2>3, <1>b, <1>c
    <3>4. Waiting("recv", c)' = {} /\ Waiting("send", c)' = Waiting("send", c)
      BY <3>1, <2>1, <1>a DEF Waiting, At
    <3>5. ~closed[c] => Waiting("send", c) = {}
      BY <3>3, <1>b, NoneWaiting
    <3>6. Served(c)'
      <4>1. Len(queue'[c]) <= Capacity[c]
        BY <3>2, <2>1, <1>b DEF Served
      <4>2. closed[c] => senders'[c] = <<>> /\ receivers'[c] = <<>>
        BY <3>3, <2>0, <1>b DEF Served
      <4> QED
        BY <4>1, <4>2, <3>4, <3>5, <1>a DEF Served
    <3>7. Keeps(senders[c], senders'[c], {}, {}) /\ Keeps(receivers[c], receivers'[c], {}, {})
      BY <3>3, <2>0, <1>b, KeepsSame
    <3> QED
      BY <1>a, <1>b, <1>d, <1>e, <3>1, <3>2, <3>6, <3>7, AnsweredLines
  <2> QED
    BY <1>1, <2>2, <2>3, <1>d DEF RecvBuffered
<1>2. CASE RecvMatch(s)
  <2>1. PICK i \in 1..Len(senders[c]) :
          /\ FirstActive(senders[c], i)
          /\ Wake(senders[c][i], Answer("committed"), s, Received(Msg(senders[c][i])))
          /\ senders' = [senders EXCEPT ![c] = After(@, i)]
    BY <1>2, <1>d DEF RecvMatch
  <2>2. ~closed[c] /\ queue' = queue /\ receivers' = receivers
    BY <1>2, <1>d DEF RecvMatch
  <2>3. waiters' \subseteq waiters
    BY <2>1 DEF Wake
  <2>4. \A k : Waiting(k, c)' \subseteq Waiting(k, c)
    BY <2>3, <1>a DEF Waiting, At
  <2>5. Served(c)'
    BY <2>2, <2>4, <1>a, <1>b DEF Served
  <2> QED
    BY <1>w, <2>1, <2>2, <2>5
<1>3. CASE RecvClosed(s)
  <2>1. /\ Others(c) /\ senders' = senders /\ receivers' = receivers /\ queue' = queue
        /\ waiters' = waiters /\ reply' = [reply EXCEPT ![s] = Answer("closed")]
    BY <1>3, <1>a DEF RecvClosed, Answered, Others
  <2>2. Served(c)'
    BY <1>a, <1>b, <2>1 DEF Served, Waiting, At
  <2>3. /\ Keeps(senders[c], senders'[c], {}, {}) /\ Keeps(receivers[c], receivers'[c], {}, {})
    BY <1>b, <2>1, KeepsSame
  <2> QED
    BY <1>a, <1>b, <1>d, <1>f, <2>1, <2>2, <2>3, AnsweredLines
<1>4. CASE RecvBlock(s)
  <2>1. /\ NoneActive(senders[c]) /\ queue[c] = <<>> /\ ~closed[c]
        /\ senders' = [senders EXCEPT ![c] = <<>>]
        /\ receivers' = [receivers EXCEPT ![c] = Append(@, s)]
        /\ waiters' = waiters \cup {s} /\ reply' = reply /\ queue' = queue
    BY <1>4, <1>d DEF RecvBlock, BlockChannel
  <2>2. Waiting("send", c) = {}
    BY <2>1, <1>b, NoneWaiting
  <2>3. Waiting("send", c)' = {}
    BY <2>1, <2>2, <1>a DEF Waiting, At
  <2>5. Served(c)'
    BY <2>1, <2>3, <1>a, <1>b DEF Served
  <2>6. Others(c) /\ senders'[c] = <<>> /\ receivers'[c] = Append(receivers[c], s)
    BY <2>1, <1>a, <1>b, <1>c DEF Others
  <2>7. /\ Keeps(senders[c], senders'[c], {}, {}) /\ Keeps(receivers[c], receivers'[c], {}, {s})
    BY <1>b, <2>1, <2>6, KeepsSame, KeepsAppended
  <2> QED
    BY <1>a, <1>b, <1>d, <2>1, <2>5, <2>6, <2>7, BlockedLines
<1> QED
  BY <1>1, <1>2, <1>3, <1>4

(* Where a waiter can be found (NoLostWaiter).                             *)
Found(x) ==
  LET c == op[x].on
  IN  \/ op[x].kind = "send" /\ InLine(x, senders[c])
      \/ op[x].kind = "recv" /\ InLine(x, receivers[c])
      \/ \E k \in Strands : pc[k] = "closing" /\ op[k].on = c /\ InLine(x, todo[k])

(* A step of a strand s that is no waiter before or after it, and at most  *)
(* takes itself out of a line, or waiters from a line to its closer.       *)
Local(s) ==
  /\ s \notin waiters /\ waiters' = waiters /\ queue' = queue
  /\ \A x \in Strands \ {s} : pc'[x] = pc[x] /\ op'[x] = op[x] /\ reply'[x] = reply[x]
  /\ pc'[s] \notin InWait
  /\ op'[s].kind \in {"send", "recv"} <=> pc'[s] = "enter"
  /\ pc'[s] = "closing" => closed'[op'[s].on]
  /\ \A c \in Chans :
       /\ Distinct(senders'[c]) /\ Distinct(receivers'[c])
       /\ \A x \in Strands : InLine(x, senders'[c]) => InLine(x, senders[c]) /\ x # s
       /\ \A x \in Strands : InLine(x, receivers'[c]) => InLine(x, receivers[c]) /\ x # s
       /\ closed'[c] => senders'[c] = <<>> /\ receivers'[c] = <<>>
       /\ closed[c] => closed'[c]
  /\ \A x \in waiters : Found(x)'

LEMMA LocalLines ==
  ASSUME IInv, Lines, NEW s \in Strands, Local(s)
  PROVE  Lines'
<1> USE DEF Local
<1>r. \A k \in Strands : pc[k] = "closing" => op[k].on \in Chans
  BY DEF IInv, Roles, InChannelLabels
<1>t. /\ waiters \subseteq Strands
      /\ \A x \in waiters : x # s /\ op'[x] = op[x]
  BY DEF IInv, TypeOK, ContextOK
<1>1. LinesExact'
  <2> SUFFICES ASSUME NEW c \in Chans
               PROVE  Stand("send", c, senders[c])' /\ Stand("recv", c, receivers[c])'
    BY DEF LinesExact
  <2>1. ASSUME NEW kind, NEW old, NEW new, Stand(kind, c, old), Distinct(new),
               \A x \in Strands : InLine(x, new) => InLine(x, old) /\ x # s
        PROVE  /\ Distinct(new)
               /\ \A x \in Strands : InLine(x, new) =>
                    /\ op'[x].kind = kind /\ op'[x].on = c /\ pc'[x] \in InWait
                    /\ x \in waiters' \/ reply'[x] = Answer("deadlock")
    BY <2>1 DEF Stand, At
  <2>2. Stand("send", c, senders[c]) /\ Stand("recv", c, receivers[c])
    BY DEF Lines, LinesExact
  <2>3. /\ Distinct(senders'[c])
        /\ \A x \in Strands : InLine(x, senders'[c]) =>
             /\ op'[x].kind = "send" /\ op'[x].on = c /\ pc'[x] \in InWait
             /\ x \in waiters' \/ reply'[x] = Answer("deadlock")
    BY <2>1, <2>2
  <2>4. /\ Distinct(receivers'[c])
        /\ \A x \in Strands : InLine(x, receivers'[c]) =>
             /\ op'[x].kind = "recv" /\ op'[x].on = c /\ pc'[x] \in InWait
             /\ x \in waiters' \/ reply'[x] = Answer("deadlock")
    BY <2>1, <2>2
  <2> QED
    BY <2>3, <2>4 DEF Stand, At, InLine, Distinct
<1>2. NoLostWaiter'
  BY DEF NoLostWaiter, Found, InLine
<1>3. ASSUME NEW c \in Chans PROVE Served(c)'
  <2>1. \A kind : Waiting(kind, c)' = Waiting(kind, c)
    BY <1>t DEF Waiting, At
  <2> QED
    BY <2>1 DEF Lines, Served
<1>4. CallsExact'
  <2> SUFFICES ASSUME NEW x \in Strands
               PROVE  /\ op'[x].kind \in {"send", "recv"} <=> pc'[x] \in InWait \cup {"enter"}
                      /\ pc'[x] \in InWait /\ reply'[x] = NoReply => x \in waiters'
                      /\ pc'[x] = "closing" => closed'[op'[x].on]
    BY DEF CallsExact
  <2>1. CASE x = s
    BY <2>1
  <2>2. CASE x # s
    BY <2>2, <1>r DEF Lines, CallsExact
  <2> QED
    BY <2>1, <2>2
<1> QED
  BY <1>1, <1>2, <1>3, <1>4 DEF Lines

LEMMA Tidy ==
  ASSUME IInv, Lines
  PROVE  /\ \A c \in Chans : /\ senders[c] \in Seq(Strands) /\ receivers[c] \in Seq(Strands)
                             /\ Distinct(senders[c]) /\ Distinct(receivers[c])
                             /\ closed[c] => senders[c] = <<>> /\ receivers[c] = <<>>
         /\ \A x \in Strands, c \in Chans :
              InLine(x, senders[c]) \/ InLine(x, receivers[c]) =>
                /\ pc[x] \in InWait /\ op[x].on = c
                /\ x \in waiters \/ reply[x] = Answer("deadlock")
         /\ \A x \in waiters : x \in Strands /\ pc[x] \in InWait /\ Found(x) /\ op[x].on \in Chans
                               /\ reply[x] = NoReply
         /\ \A k \in Strands : pc[k] = "closing" => op[k].on \in Chans /\ closed[op[k].on]
         /\ pc \in [Strands -> Labels] /\ op \in [Strands -> Operations]
         /\ reply \in [Strands -> Replies] /\ todo \in [Strands -> Seq(Strands)]
         /\ senders \in [Chans -> Seq(Strands)] /\ receivers \in [Chans -> Seq(Strands)]
         /\ closed \in [Chans -> BOOLEAN]
<1>1. ChannelsOK /\ StrandsOK /\ Waits /\ Roles /\ waiters \subseteq Strands
  BY DEF IInv, TypeOK, ContextOK
<1>2. \A c \in Chans : /\ senders[c] \in Seq(Strands) /\ receivers[c] \in Seq(Strands)
                       /\ Distinct(senders[c]) /\ Distinct(receivers[c])
                       /\ closed[c] => senders[c] = <<>> /\ receivers[c] = <<>>
  BY <1>1 DEF ChannelsOK, Lines, LinesExact, Stand, Served
<1>3. \A x \in Strands, c \in Chans :
        InLine(x, senders[c]) \/ InLine(x, receivers[c]) =>
          /\ pc[x] \in InWait /\ op[x].on = c
          /\ x \in waiters \/ reply[x] = Answer("deadlock")
  BY DEF Lines, LinesExact, Stand, At
<1>4. \A x \in waiters : x \in Strands /\ pc[x] \in InWait /\ Found(x) /\ op[x].on \in Chans
                         /\ reply[x] = NoReply
  BY <1>1 DEF Lines, NoLostWaiter, Found, Waits, Roles, InWait, InChannelLabels
<1>5. \A k \in Strands : pc[k] = "closing" => op[k].on \in Chans /\ closed[op[k].on]
  BY <1>1 DEF Lines, CallsExact, Roles, InChannelLabels
<1> QED
  BY <1>1, <1>2, <1>3, <1>4, <1>5 DEF ChannelsOK, StrandsOK

LEMMA EnterLines ==
  ASSUME IInv, Lines, NEW s \in Strands, NEW kind \in {"send", "recv"}, NEW c \in Chans,
         Enter(s, kind, c)
  PROVE  Lines'
<1>1. /\ pc[s] = "run" /\ pc' = [pc EXCEPT ![s] = "enter"]
      /\ op' = [op EXCEPT ![s] = [kind |-> kind, on |-> c]]
      /\ UNCHANGED <<waiters, queue, senders, receivers, closed, reply, todo>>
  BY DEF Enter, Starts, Goto, ctxVars
<1>2. /\ \A x \in Strands : /\ pc'[x] = IF x = s THEN "enter" ELSE pc[x]
                            /\ op'[x] = IF x = s THEN [kind |-> kind, on |-> c] ELSE op[x]
      /\ s \notin waiters
      /\ \A d \in Chans : ~InLine(s, senders[d]) /\ ~InLine(s, receivers[d])
  BY <1>1, Tidy DEF InWait
<1>3. ASSUME NEW x \in waiters PROVE Found(x)'
  <2>1. x \in Strands /\ Found(x) /\ op'[x] = op[x]
    BY <1>2, Tidy
  <2>2. \A k \in Strands : pc[k] = "closing" => pc'[k] = "closing" /\ op'[k] = op[k]
    BY <1>1, <1>2
  <2> QED
    BY <2>1, <2>2, <1>1 DEF Found, InLine
<1>4. pc'[s] \notin InWait /\ pc'[s] = "enter" /\ op'[s].kind \in {"send", "recv"}
  BY <1>2 DEF InWait
<1>5. \A d \in Chans : Distinct(senders[d]) /\ Distinct(receivers[d])
                        /\ (closed[d] => senders[d] = <<>> /\ receivers[d] = <<>>)
  BY Tidy
<1>6. Local(s)
  BY <1>1, <1>2, <1>3, <1>4, <1>5 DEF Local, InLine
<1> QED
  BY <1>6, LocalLines

LEMMA ReturnLines ==
  ASSUME IInv, Lines, NEW s \in Strands, Return(s)
  PROVE  Lines'
<1>1. /\ pc[s] = "wait" /\ reply[s] # NoReply /\ pc' = [pc EXCEPT ![s] = "run"]
      /\ op' = [op EXCEPT ![s] = NoOp] /\ reply' = [reply EXCEPT ![s] = NoReply]
      /\ UNCHANGED <<waiters, queue, closed, todo>>
  BY DEF Return, Ends, Goto, ctxVars
<1>2. /\ \A x \in Strands : /\ pc'[x] = IF x = s THEN "run" ELSE pc[x]
                            /\ op'[x] = IF x = s THEN NoOp ELSE op[x]
                            /\ reply'[x] = IF x = s THEN NoReply ELSE reply[x]
      /\ s \notin waiters
  BY <1>1, Tidy
<1>3. op[s].on \in Chans
  BY <1>1 DEF IInv, Roles, InChannelLabels
<1>4. /\ \A c \in Chans :
           /\ Distinct(senders'[c]) /\ Distinct(receivers'[c])
           /\ \A x \in Strands : InLine(x, senders'[c]) <=> InLine(x, senders[c]) /\ x # s
           /\ \A x \in Strands : InLine(x, receivers'[c]) <=> InLine(x, receivers[c]) /\ x # s
           /\ closed[c] => senders'[c] = <<>> /\ receivers'[c] = <<>>
  <2>0. \A c \in Chans \ {op[s].on} : ~InLine(s, senders[c]) /\ ~InLine(s, receivers[c])
    BY Tidy
  <2>1. CASE reply[s].out = "deadlock"
    <3>1. /\ senders' = [senders EXCEPT ![op[s].on] = Without(@, s)]
          /\ receivers' = [receivers EXCEPT ![op[s].on] = Without(@, s)]
      BY <2>1 DEF Return
    <3>2. \A c \in Chans \ {op[s].on} : senders'[c] = senders[c] /\ receivers'[c] = receivers[c]
      BY <3>1, Tidy
    <3>3. /\ senders'[op[s].on] = Without(senders[op[s].on], s)
          /\ receivers'[op[s].on] = Without(receivers[op[s].on], s)
      BY <3>1, <1>3, Tidy
    <3>4. ASSUME NEW line \in Seq(Strands), Distinct(line)
          PROVE  /\ Distinct(Without(line, s))
                 /\ \A x \in Strands : InLine(x, Without(line, s)) <=> InLine(x, line) /\ x # s
      BY <3>4, WithoutLine
    <3>5. Without(<<>>, s) = <<>>
      BY DEF Without
    <3> DEFINE c0 == op[s].on
    <3>6. /\ senders[c0] \in Seq(Strands) /\ receivers[c0] \in Seq(Strands)
          /\ Distinct(senders[c0]) /\ Distinct(receivers[c0])
          /\ closed[c0] => senders[c0] = <<>> /\ receivers[c0] = <<>>
      BY <1>3, Tidy
    <3>7. /\ Distinct(senders'[op[s].on]) /\ Distinct(receivers'[op[s].on])
          /\ \A x \in Strands : InLine(x, senders'[op[s].on]) <=> InLine(x, senders[op[s].on]) /\ x # s
          /\ \A x \in Strands : InLine(x, receivers'[op[s].on]) <=> InLine(x, receivers[op[s].on]) /\ x # s
          /\ closed[op[s].on] => senders'[op[s].on] = <<>> /\ receivers'[op[s].on] = <<>>
      BY <3>3, <3>4, <3>5, <3>6
    <3>8. ASSUME NEW c \in Chans \ {op[s].on}
          PROVE  /\ Distinct(senders'[c]) /\ Distinct(receivers'[c])
                 /\ \A x \in Strands : InLine(x, senders'[c]) <=> InLine(x, senders[c]) /\ x # s
                 /\ \A x \in Strands : InLine(x, receivers'[c]) <=> InLine(x, receivers[c]) /\ x # s
                 /\ closed[c] => senders'[c] = <<>> /\ receivers'[c] = <<>>
      BY <3>2, <2>0, Tidy
    <3> QED
      BY <3>7, <3>8
  <2>2. CASE reply[s].out # "deadlock"
    <3>1. reply[s] # Answer("deadlock")
      BY <2>2 DEF Answer
    <3>2. \A c \in Chans : ~InLine(s, senders[c]) /\ ~InLine(s, receivers[c])
      BY <3>1, <1>2, Tidy
    <3>3. senders' = senders /\ receivers' = receivers
      BY <2>2 DEF Return
    <3> QED
      BY <3>2, <3>3, Tidy
  <2> QED
    BY <2>1, <2>2
<1>5. ASSUME NEW x \in waiters PROVE Found(x)'
  <2>1. x \in Strands /\ x # s /\ op[x].on \in Chans /\ Found(x) /\ op'[x] = op[x]
    BY <1>2, Tidy
  <2>2. /\ InLine(x, senders[op[x].on]) => InLine(x, senders'[op[x].on])
        /\ InLine(x, receivers[op[x].on]) => InLine(x, receivers'[op[x].on])
    BY <2>1, <1>4
  <2>3. \A k \in Strands : pc[k] = "closing" => pc'[k] = "closing" /\ op'[k] = op[k] /\ todo'[k] = todo[k]
    BY <1>1, <1>2
  <2> QED
    BY <2>1, <2>2, <2>3 DEF Found, InLine
<1>6. pc'[s] = "run" /\ pc'[s] \notin InWait /\ op'[s].kind \notin {"send", "recv"}
  BY <1>2 DEF InWait, NoOp
<1>7. Local(s)
  BY <1>1, <1>2, <1>4, <1>5, <1>6 DEF Local
<1> QED
  BY <1>7, LocalLines

LEMMA CloseLines ==
  ASSUME IInv, Lines, NEW s \in Strands, NEW c \in Chans, Close(s, c)
  PROVE  Lines'
<1>1. /\ pc[s] = "run" /\ pc' = [pc EXCEPT ![s] = "closing"]
      /\ op' = [op EXCEPT ![s] = [kind |-> "close", on |-> c]]
      /\ closed' = [closed EXCEPT ![c] = TRUE]
      /\ UNCHANGED <<waiters, queue, reply>>
  BY DEF Close, Starts, Goto, ctxVars
<1>2. /\ \A x \in Strands : /\ pc'[x] = IF x = s THEN "closing" ELSE pc[x]
                            /\ op'[x] = IF x = s THEN [kind |-> "close", on |-> c] ELSE op[x]
      /\ s \notin waiters
      /\ \A d \in Chans : ~InLine(s, senders[d]) /\ ~InLine(s, receivers[d])
      /\ \A d \in Chans : closed'[d] = IF d = c THEN TRUE ELSE closed[d]
  BY <1>1, Tidy DEF InWait
<1>3. /\ \A d \in Chans \ {c} : senders'[d] = senders[d] /\ receivers'[d] = receivers[d]
      /\ senders'[c] = <<>> /\ receivers'[c] = <<>>
      /\ \A k \in Strands \ {s} : todo'[k] = todo[k]
      /\ ~closed[c] => todo'[s] = senders[c] \o receivers[c]
  BY Tidy DEF Close
<1>4. Distinct(<<>>) /\ \A x : ~InLine(x, <<>>)
  BY DEF Distinct, InLine
<1>5. ASSUME NEW x \in waiters PROVE Found(x)'
  <2>1. x \in Strands /\ x # s /\ op[x].on \in Chans /\ Found(x) /\ op'[x] = op[x]
    BY <1>2, Tidy
  <2>2. CASE \E k \in Strands : pc[k] = "closing" /\ op[k].on = op[x].on /\ InLine(x, todo[k])
    <3>1. PICK k \in Strands : pc[k] = "closing" /\ op[k].on = op[x].on /\ InLine(x, todo[k])
      BY <2>2
    <3>2. k # s /\ pc'[k] = "closing" /\ op'[k] = op[k] /\ todo'[k] = todo[k]
      BY <3>1, <1>1, <1>2, <1>3
    <3> QED
      BY <3>1, <3>2, <2>1 DEF Found, InLine
  <2>3. CASE \/ op[x].kind = "send" /\ InLine(x, senders[op[x].on])
             \/ op[x].kind = "recv" /\ InLine(x, receivers[op[x].on])
    <3>1. CASE op[x].on # c
      <4>1. senders'[op[x].on] = senders[op[x].on] /\ receivers'[op[x].on] = receivers[op[x].on]
        BY <3>1, <2>1, <1>3
      <4> QED
        BY <4>1, <2>1, <2>3 DEF Found, InLine
    <3>2. CASE op[x].on = c
      <4>1. InLine(x, senders[c]) \/ InLine(x, receivers[c])
        BY <3>2, <2>3
      <4>2. ~closed[c]
        BY <4>1, <1>4, Tidy
      <4>3. InLine(x, todo'[s])
        <5>1. senders[c] \in Seq(Strands) /\ receivers[c] \in Seq(Strands)
          BY Tidy
        <5>2. InLine(x, senders[c] \o receivers[c])
          BY <4>1, <5>1, JoinLine
        <5> QED
          BY <5>2, <4>2, <1>3
      <4> QED
        BY <4>3, <3>2, <2>1, <1>2 DEF Found, InLine
    <3> QED
      BY <3>1, <3>2
  <2> QED
    BY <2>1, <2>2, <2>3 DEF Found
<1>6. /\ pc'[s] = "closing" /\ pc'[s] \notin InWait /\ op'[s].kind \notin {"send", "recv"}
      /\ closed'[op'[s].on]
  <2>1. pc'[s] = "closing" /\ op'[s] = [kind |-> "close", on |-> c] /\ closed'[c]
    BY <1>2
  <2> QED
    BY <2>1 DEF InWait
<1>7. ASSUME NEW d \in Chans
      PROVE  /\ Distinct(senders'[d]) /\ Distinct(receivers'[d])
             /\ \A x \in Strands : InLine(x, senders'[d]) => InLine(x, senders[d]) /\ x # s
             /\ \A x \in Strands : InLine(x, receivers'[d]) => InLine(x, receivers[d]) /\ x # s
             /\ closed'[d] => senders'[d] = <<>> /\ receivers'[d] = <<>>
             /\ closed[d] => closed'[d]
  <2>1. CASE d = c
    BY <2>1, <1>2, <1>3, <1>4
  <2>2. CASE d # c
    <3>1. senders'[d] = senders[d] /\ receivers'[d] = receivers[d] /\ closed'[d] = closed[d]
      BY <2>2, <1>2, <1>3
    <3>2. /\ Distinct(senders[d]) /\ Distinct(receivers[d])
          /\ closed[d] => senders[d] = <<>> /\ receivers[d] = <<>>
      BY Tidy
    <3> QED
      BY <3>1, <3>2, <1>2
  <2> QED
    BY <2>1, <2>2
<1>8. Local(s)
  BY <1>1, <1>2, <1>5, <1>6, <1>7 DEF Local
<1> QED
  BY <1>8, LocalLines

LEMMA CloseDoneLines ==
  ASSUME IInv, Lines, NEW s \in Strands, CloseDone(s)
  PROVE  Lines'
<1>1. /\ pc[s] = "closing" /\ todo[s] = <<>> /\ pc' = [pc EXCEPT ![s] = "run"]
      /\ op' = [op EXCEPT ![s] = NoOp]
      /\ UNCHANGED <<waiters, queue, senders, receivers, closed, reply, todo>>
  BY DEF CloseDone, Ends, Goto, ctxVars, chanVars
<1>2. /\ \A x \in Strands : /\ pc'[x] = IF x = s THEN "run" ELSE pc[x]
                            /\ op'[x] = IF x = s THEN NoOp ELSE op[x]
      /\ s \notin waiters
      /\ \A d \in Chans : ~InLine(s, senders[d]) /\ ~InLine(s, receivers[d])
  BY <1>1, Tidy DEF InWait
<1>3. \A x : ~InLine(x, todo[s])
  BY <1>1 DEF InLine
<1>4. ASSUME NEW x \in waiters PROVE Found(x)'
  <2>1. x \in Strands /\ Found(x) /\ op'[x] = op[x]
    BY <1>2, Tidy
  <2>2. \A k \in Strands : pc[k] = "closing" /\ InLine(x, todo[k]) => pc'[k] = "closing" /\ op'[k] = op[k]
    BY <1>1, <1>2, <1>3
  <2> QED
    BY <2>1, <2>2, <1>1 DEF Found, InLine
<1>5. pc'[s] = "run" /\ pc'[s] \notin InWait /\ op'[s].kind \notin {"send", "recv"}
  BY <1>2 DEF InWait, NoOp
<1>6. \A d \in Chans : Distinct(senders[d]) /\ Distinct(receivers[d])
                       /\ (closed[d] => senders[d] = <<>> /\ receivers[d] = <<>>)
  BY Tidy
<1>7. Local(s)
  BY <1>1, <1>2, <1>4, <1>5, <1>6 DEF Local, InLine
<1> QED
  BY <1>7, LocalLines

LEMMA TailLine ==
  ASSUME NEW line \in Seq(Strands), line # <<>>, NEW x, InLine(x, line), x # Head(line)
  PROVE  InLine(x, Tail(line))
<1>1. PICK j \in 1..Len(line) : line[j] = x
  BY DEF InLine
<1>2. /\ Len(Tail(line)) = Len(line) - 1 /\ Head(line) = line[1]
      /\ \A i \in 1..(Len(line) - 1) : Tail(line)[i] = line[i + 1]
  OBVIOUS
<1>3. j # 1
  BY <1>1, <1>2
<1>4. j - 1 \in 1..(Len(line) - 1) /\ (j - 1) + 1 = j
  BY <1>3
<1>5. Tail(line)[j - 1] = line[j]
  BY <1>2, <1>4
<1> QED
  BY <1>1, <1>2, <1>4, <1>5 DEF InLine

LEMMA CloseWakeLines ==
  ASSUME IInv, Lines, NEW s \in Strands, CloseWake(s)
  PROVE  Lines'
<1> DEFINE w == Head(todo[s])
<1>1. /\ pc[s] = "closing" /\ todo[s] # <<>> /\ todo' = [todo EXCEPT ![s] = Tail(@)]
      /\ pc' = pc /\ op' = op
      /\ UNCHANGED <<queue, senders, receivers, closed>>
      /\ \/ /\ w \in waiters /\ op[w].on = op[s].on /\ waiters' = waiters \ {w}
            /\ reply' = [reply EXCEPT ![w] = Answer("closed"), ![w] = Answer("closed")]
         \/ /\ ~(w \in waiters /\ op[w].on = op[s].on) /\ waiters' = waiters /\ reply' = reply
  BY DEF CloseWake, Wake, chanVars
<1>2. op[s].on \in Chans /\ closed[op[s].on] /\ todo[s] \in Seq(Strands)
  BY <1>1, Tidy
<1>3. PICK V \in SUBSET {w} :
        /\ V \subseteq waiters /\ waiters' = waiters \ V
        /\ \A x \in V : op[x].on = op[s].on /\ reply'[x] = Answer("closed")
        /\ \A x \in Strands \ V : reply'[x] = reply[x]
        /\ w \in waiters /\ op[w].on = op[s].on => w \in V
  <2>1. CASE /\ w \in waiters /\ op[w].on = op[s].on /\ waiters' = waiters \ {w}
             /\ reply' = [reply EXCEPT ![w] = Answer("closed"), ![w] = Answer("closed")]
    <3>1. w \in Strands /\ reply \in [Strands -> Replies]
      BY <2>1, Tidy
    <3> HIDE DEF w
    <3>2. \A x \in Strands : reply'[x] = IF x = w THEN Answer("closed") ELSE reply[x]
      BY <2>1, <3>1
    <3> WITNESS {w} \in SUBSET {w}
    <3> QED
      BY <2>1, <3>1, <3>2
  <2>2. CASE ~(w \in waiters /\ op[w].on = op[s].on) /\ waiters' = waiters /\ reply' = reply
    <3> HIDE DEF w
    <3> WITNESS {} \in SUBSET {w}
    <3> QED
      BY <2>2
  <2> QED
    BY <1>1, <2>1, <2>2
<1>4. \A d \in Chans, x \in V : ~InLine(x, senders[d]) /\ ~InLine(x, receivers[d])
  <2>1. ASSUME NEW d \in Chans, NEW x \in V, InLine(x, senders[d]) \/ InLine(x, receivers[d])
        PROVE  FALSE
    <3>1. op[x].on = d /\ d = op[s].on
      BY <2>1, <1>3, Tidy
    <3>2. senders[d] = <<>> /\ receivers[d] = <<>>
      BY <3>1, <1>2, Tidy
    <3> QED
      BY <3>2, <2>1 DEF InLine
  <2> QED
    BY <2>1
<1>5. LinesExact'
  <2> SUFFICES ASSUME NEW d \in Chans
               PROVE  Stand("send", d, senders[d])' /\ Stand("recv", d, receivers[d])'
    BY DEF LinesExact
  <2>1. ASSUME NEW kind, NEW line, Stand(kind, d, line), \A x \in V : ~InLine(x, line)
        PROVE  /\ Distinct(line)
               /\ \A x \in Strands : InLine(x, line) =>
                    /\ op'[x].kind = kind /\ op'[x].on = d /\ pc'[x] \in InWait
                    /\ x \in waiters' \/ reply'[x] = Answer("deadlock")
    BY <2>1, <1>1, <1>3 DEF Stand, At
  <2>2. Stand("send", d, senders[d]) /\ Stand("recv", d, receivers[d])
    BY DEF Lines, LinesExact
  <2>3. /\ Distinct(senders[d])
        /\ \A x \in Strands : InLine(x, senders[d]) =>
             /\ op'[x].kind = "send" /\ op'[x].on = d /\ pc'[x] \in InWait
             /\ x \in waiters' \/ reply'[x] = Answer("deadlock")
    BY <2>1, <2>2, <1>4
  <2>4. /\ Distinct(receivers[d])
        /\ \A x \in Strands : InLine(x, receivers[d]) =>
             /\ op'[x].kind = "recv" /\ op'[x].on = d /\ pc'[x] \in InWait
             /\ x \in waiters' \/ reply'[x] = Answer("deadlock")
    BY <2>1, <2>2, <1>4
  <2> QED
    BY <1>1, <2>3, <2>4 DEF Stand, At, InLine, Distinct
<1>6. ASSUME NEW x \in waiters' PROVE Found(x)'
  <2>1. x \in Strands /\ x \in waiters /\ x \notin V /\ Found(x) /\ op'[x] = op[x]
    BY <1>1, <1>3, Tidy
  <2>2. ASSUME NEW k \in Strands, pc[k] = "closing", op[k].on = op[x].on, InLine(x, todo[k])
        PROVE  InLine(x, todo'[k])
    <3>1. CASE k # s
      BY <3>1, <2>2, <1>1, Tidy
    <3>2. CASE k = s
      <4>1. x # w
        BY <2>1, <2>2, <3>2, <1>3
      <4>2. InLine(x, Tail(todo[s]))
        BY <4>1, <2>2, <3>2, <1>1, <1>2, TailLine
      <4>3. todo'[s] = Tail(todo[s])
        BY <1>1, Tidy
      <4> QED
        BY <4>2, <4>3, <3>2
    <3> QED
      BY <3>1, <3>2
  <2> QED
    BY <2>1, <2>2, <1>1 DEF Found, InLine
<1>7. NoLostWaiter'
  BY <1>6 DEF NoLostWaiter, Found, InLine
<1>8. ASSUME NEW d \in Chans PROVE Served(d)'
  <2>1. \A kind : Waiting(kind, d)' \subseteq Waiting(kind, d)
    BY <1>1, <1>3 DEF Waiting, At
  <2> QED
    BY <2>1, <1>1 DEF Lines, Served
<1>9. CallsExact'
  <2> SUFFICES ASSUME NEW x \in Strands
               PROVE  /\ op'[x].kind \in {"send", "recv"} <=> pc'[x] \in InWait \cup {"enter"}
                      /\ pc'[x] \in InWait /\ reply'[x] = NoReply => x \in waiters'
                      /\ pc'[x] = "closing" => closed'[op'[x].on]
    BY DEF CallsExact
  <2>1. Answer("closed") # NoReply
    BY DEF Answer, NoReply
  <2> QED
    BY <2>1, <1>1, <1>3 DEF Lines, CallsExact
<1> QED
  BY <1>5, <1>7, <1>8, <1>9 DEF Lines

(* A step with nobody at it, or that counts a strand afterwards, leaves no *)
(* claim to anybody.                                                       *)
LEMMA CountedAfter ==
  ASSUME IInv', NEW x \in Counted'
  PROVE  Deferred'
<1>1. Counted' \in SUBSET Strands /\ runnable' = Cardinality(Counted')
  BY DEF Counted, Live, IInv, RunnableExact
<1>2. runnable' # 0
  BY <1>1, Finite
<1> QED
  BY <1>2 DEF Deferred

LEMMA AtWorkAfter ==
  ASSUME IInv', NEW x \in Strands,
         \/ pc'[x] \in {"run", "enter", "closing", "quit", "quitLast"}
         \/ pc'[x] \in InWait /\ reply'[x] # NoReply
  PROVE  x \in Counted'
<1>1. Waits'
  BY DEF IInv
<1>2. x \notin waiters' /\ x \notin awaiters' /\ x \notin parked'
  BY <1>1 DEF Waits, InWait
<1>3. pc'[x] \notin {"off", "publish", "dead"}
  BY DEF InWait
<1> QED
  BY <1>2, <1>3 DEF Counted, Live, Blocked

(* A claim that finds nobody to answer was met by a strand that is leaving *)
(* a channel in which another waits.                                       *)
LEMMA ClaimDefers ==
  ASSUME IInv, IInv', NEW r \in Nat, NEW A \in SUBSET Strands,
         ClaimDeadlocked(r, waiters, A, reply), pending' = pending,
         \A x \in Strands : pc[x] \in {"enter", "finish"} => pc'[x] = pc[x] /\ op'[x] = op[x],
         \A x \in waiters : op'[x] = op[x]
  PROVE  Deferred'
<1> DEFINE claimed == Claimed(r, waiters, A)
<1>t. /\ waiters \in SUBSET Strands /\ uncounted = {} /\ CountersExact
      /\ \A x \in waiters : op[x].on \in Chans
  BY DEF IInv, TypeOK, ContextOK, Waits, Roles, InChannelLabels
<1> SUFFICES ASSUME runnable' = 0
             PROVE  /\ waiters' = {} => awaiters' = {}
                    /\ waiters' # {} =>
                         \E x \in Strands :
                           \/ pc'[x] = "recheck"
                           \/ \E w \in waiters' : pc'[x] \in {"finish", "collect"}
                                                   /\ op'[x].on = op'[w].on
  BY DEF Deferred
<1>1. /\ runnable' = r + Cardinality(claimed \ uncounted)
      /\ waiters' = waiters \ claimed /\ awaiters' = A \ claimed
  BY DEF ClaimDeadlocked
<1>2. claimed \in SUBSET Strands
  BY <1>t DEF Claimed
<1>3. claimed \ uncounted = claimed
  BY <1>t
<1> HIDE DEF claimed
<1>4. Cardinality(claimed) \in Nat
  BY <1>2, Finite
<1>5. r = 0 /\ Cardinality(claimed) = 0
  <2>1. runnable' = r + Cardinality(claimed)
    BY <1>1, <1>3
  <2>2. \A n, m \in Nat : n + m = 0 => n = 0 /\ m = 0
    OBVIOUS
  <2> QED
    BY <2>1, <2>2, <1>4
<1>6. claimed = {}
  BY <1>2, <1>5, Finite
<1>7. /\ \A x \in waiters : pending[op[x].on] # 0
      /\ waiters = {} => A = {}
  BY <1>5, <1>6 DEF claimed, Claimed
<1>8. CASE waiters = {}
  BY <1>1, <1>6, <1>7, <1>8
<1>9. CASE waiters # {}
  <2>1. PICK w \in waiters : TRUE
    BY <1>9
  <2>2. Entering(op[w].on) # {}
    <3>1. Cardinality(Entering(op[w].on)) # 0
      BY <2>1, <1>7, <1>t DEF CountersExact
    <3>2. Entering(op[w].on) \in SUBSET Strands
      BY DEF Entering
    <3> QED
      BY <3>1, <3>2, Finite
  <2>3. PICK x \in Strands : pc[x] \in {"enter", "finish"} /\ op[x].on = op[w].on
    BY <2>2 DEF Entering
  <2>4. pc'[x] = pc[x] /\ op'[x] = op[x] /\ op'[w] = op[w]
    BY <2>3, <2>1
  <2>5. pc[x] # "enter"
    <3> SUFFICES ASSUME pc'[x] = "enter" PROVE FALSE
      BY <2>4
    <3>1. x \in Counted'
      BY AtWorkAfter
    <3>2. Counted' \in SUBSET Strands /\ runnable' = Cardinality(Counted')
      BY DEF Counted, Live, IInv, RunnableExact
    <3> QED
      BY <3>1, <3>2, Finite
  <2>6. w \in waiters' /\ pc'[x] = "finish" /\ op'[x].on = op'[w].on
    BY <2>1, <2>3, <2>4, <2>5, <1>1, <1>6
  <2> QED
    BY <2>6
<1> QED
  BY <1>8, <1>9

LEMMA LinesNext ==
  ASSUME IInv, LInv, Next
  PROVE  Lines'
<1>l. Lines
  BY DEF LInv
<1>m. Main \in Strands
  BY DEF Strands
<1>1. CASE BeginRun \/ EndRun
  BY <1>1, <1>m, IsQuiet, QuietStep DEF QuietActions
<1>2. ASSUME NEW s \in Strands, Step(s) PROVE Lines'
  <2>1. CASE \/ FinishPending(s) \/ CollectContexts(s) \/ Recheck(s)
             \/ TaskStep(s) \/ PmapStep(s)
    BY <2>1, IsQuiet, QuietStep DEF QuietActions
  <2>2. CASE SendClosed(s) \/ SendMatch(s) \/ SendBuffer(s) \/ SendBlock(s)
    BY <2>2, <1>l, SendLines
  <2>3. CASE RecvBuffered(s) \/ RecvMatch(s) \/ RecvClosed(s) \/ RecvBlock(s)
    BY <2>3, <1>l, RecvLines
  <2>4. ASSUME NEW kind \in {"send", "recv"}, NEW c \in Chans, Enter(s, kind, c) PROVE Lines'
    BY <2>4, <1>l, EnterLines
  <2>5. CASE Return(s)
    BY <2>5, <1>l, ReturnLines
  <2>6. ASSUME NEW c \in Chans, Close(s, c) PROVE Lines'
    BY <2>6, <1>l, CloseLines
  <2>7. CASE CloseWake(s) \/ CloseDone(s)
    BY <2>7, <1>l, CloseWakeLines, CloseDoneLines
  <2> QED
    BY <1>2, <2>1, <2>2, <2>3, <2>4, <2>5, <2>6, <2>7 DEF Step, ChannelStep
<1> QED
  BY <1>1, <1>2 DEF Next

(* The steps of a caller that leaves a channel: the last one out collects  *)
(* what was deferred, and a waiter of the channel stands in its lines.     *)
LEMMA LeaveDefers ==
  ASSUME IInv, IInv', LInv, NEW s \in Strands, FinishPending(s) \/ CollectContexts(s)
  PROVE  Deferred'
<1>t. /\ waiters \subseteq Strands /\ pc \in [Strands -> Labels] /\ Waits /\ Roles /\ CountersExact
  BY DEF IInv, TypeOK, ContextOK, StrandsOK
<1>1. /\ pc[s] \in {"finish", "collect"} /\ op' = op /\ UNCHANGED ctxVars
      /\ \A x \in Strands \ {s} : pc'[x] = pc[x]
  BY <1>t DEF FinishPending, CollectContexts, Goto
<1> DEFINE c == op[s].on
<1>2. c \in Chans
  BY <1>1, <1>t DEF Roles, InChannelLabels
<1> SUFFICES ASSUME runnable = 0, waiters # {}
             PROVE  \E x \in Strands :
                      \/ pc'[x] = "recheck"
                      \/ \E w \in waiters : pc'[x] \in {"finish", "collect"} /\ op[x].on = op[w].on
  BY <1>1 DEF Deferred, LInv, ctxVars
<1>3. PICK y \in Strands :
        \/ pc[y] = "recheck"
        \/ \E w \in waiters : pc[y] \in {"finish", "collect"} /\ op[y].on = op[w].on
  BY DEF Deferred, LInv
<1>4. CASE y # s
  BY <1>1, <1>3, <1>4
<1>5. CASE y = s
  <2>1. PICK w \in waiters : op[w].on = c
    BY <1>1, <1>3, <1>5
  <2>2. Counted = {}
    <3>1. Counted \in SUBSET Strands /\ runnable = Cardinality(Counted)
      BY DEF Counted, Live, IInv, RunnableExact
    <3> QED
      BY <3>1, Finite
  <2>3. \A k \in Strands : pc[k] \notin {"closing", "enter"}
    <3> SUFFICES ASSUME NEW k \in Strands, pc[k] \in {"closing", "enter"} PROVE k \in Counted
      BY <2>2
    <3> QED
      BY <1>t DEF Waits, Counted, Live, Blocked
  <2>4. CASE CollectContexts(s)
    <3>1. InLine(w, senders[c]) \/ InLine(w, receivers[c])
      BY <2>1, <2>3 DEF LInv, Lines, NoLostWaiter
    <3>2. ~(senders[c] = <<>> /\ receivers[c] = <<>>)
      BY <3>1 DEF InLine
    <3>3. pc'[s] = "recheck"
      BY <2>4, <3>2, <1>t DEF CollectContexts, Goto
    <3> QED
      BY <3>3
  <2>5. CASE FinishPending(s)
    <3>1. pc[s] = "finish" /\ pc' = [pc EXCEPT ![s] = IF pending[c] = 1 THEN "collect" ELSE "wait"]
      BY <2>5 DEF FinishPending, Goto
    <3>2. CASE pending[c] = 1
      BY <3>1, <3>2, <2>1, <1>t
    <3>3. CASE pending[c] # 1
      <4>1. /\ pending[c] = Cardinality(Entering(c)) /\ Entering(c) \in SUBSET Strands
            /\ s \in Entering(c)
        BY <1>2, <1>t, <3>1 DEF CountersExact, Entering
      <4>2. Cardinality(Entering(c) \ {s}) = Cardinality(Entering(c)) - 1
        BY <4>1, CardRemove
      <4>3. Entering(c) \ {s} # {}
        <5>1. Cardinality(Entering(c)) \in Nat
          BY <4>1, Finite
        <5>2. Cardinality(Entering(c) \ {s}) # 0
          BY <4>1, <4>2, <3>3, <5>1
        <5> QED
          BY <5>2, <4>1, Finite
      <4>4. PICK x \in Strands \ {s} : pc[x] \in {"enter", "finish"} /\ op[x].on = c
        BY <4>3 DEF Entering
      <4>5. pc'[x] = "finish"
        BY <4>4, <2>3, <1>1
      <4> QED
        BY <4>4, <4>5, <2>1
    <3> QED
      BY <3>2, <3>3
  <2> QED
    BY <2>4, <2>5
<1> QED
  BY <1>4, <1>5

LEMMA BlockDefers ==
  ASSUME IInv, IInv', NEW s \in Strands, SendBlock(s) \/ RecvBlock(s)
  PROVE  Deferred'
<1>1. /\ s \in waiters' /\ pc' = [pc EXCEPT ![s] = "finish"] /\ pc \in [Strands -> Labels]
  BY DEF SendBlock, RecvBlock, BlockChannel, Leaves, Goto, IInv, TypeOK, StrandsOK
<1>2. pc'[s] = "finish"
  BY <1>1
<1> QED
  BY <1>1, <1>2 DEF Deferred

LEMMA DeferredNext ==
  ASSUME IInv, LInv, IInv', Next
  PROVE  Deferred'
<1>t. /\ pc \in [Strands -> Labels] /\ reply \in [Strands -> Replies] /\ runnable \in Nat
      /\ awaiters \in SUBSET Strands /\ parked \in SUBSET Strands /\ waiters \in SUBSET Strands
      /\ op \in [Strands -> Operations] /\ budget \in [Strands -> 0..MaxOps]
      /\ Main \in Strands /\ Pool \subseteq Strands /\ Waits
      /\ \A x \in waiters : pc[x] \in InWait
  BY DEF IInv, TypeOK, ContextOK, StrandsOK, Strands, Waits, InWait
<1>w. ASSUME NEW x \in Strands,
             \/ pc'[x] \in {"run", "enter", "closing", "quit", "quitLast"}
             \/ pc'[x] \in InWait /\ reply'[x] # NoReply
      PROVE  Deferred'
  BY <1>w, AtWorkAfter, CountedAfter
<1>d. (IF runnable > 0 THEN runnable - 1 ELSE 0) \in Nat
  BY <1>t
<1>1. CASE BeginRun
  <2>1. pc'[Main] = "run"
    BY <1>1, <1>t DEF BeginRun, Goto
  <2> QED
    BY <2>1, <1>t, <1>w
<1>2. CASE EndRun
  <2>1. Main \in owned
    BY <1>2 DEF EndRun, IInv, Roles
  <2>2. /\ ClaimDeadlocked(IF runnable > 0 THEN runnable - 1 ELSE 0, waiters, awaiters, reply)
        /\ pending' = pending /\ op' = op
        /\ \A x \in Strands : pc[x] \in {"enter", "finish"} => pc'[x] = pc[x]
    BY <1>2, <2>1, <1>t DEF EndRun, Goto, chanVars
  <2> QED
    BY <2>2, <1>d, <1>t, ClaimDefers
<1>3. ASSUME NEW s \in Strands, Step(s) PROVE Deferred'
  <2>1. ASSUME NEW kind \in {"send", "recv"}, NEW c \in Chans, Enter(s, kind, c) PROVE Deferred'
    <3>1. pc'[s] = "enter"
      BY <2>1, <1>t DEF Enter, Goto
    <3> QED
      BY <3>1, <1>w
  <2>2. CASE \/ SendClosed(s) \/ SendMatch(s) \/ SendBuffer(s)
             \/ RecvBuffered(s) \/ RecvMatch(s) \/ RecvClosed(s)
    <3>1. pc'[s] = "finish"
      BY <2>2, <1>t DEF SendClosed, SendMatch, SendBuffer, RecvBuffered, RecvMatch, RecvClosed,
                        Leaves, Goto
    <3>2. \A a : Received(a) # NoReply
      BY DEF Received, NoReply
    <3>3. Answer("committed") # NoReply /\ Answer("closed") # NoReply
      BY DEF Answer, NoReply
    <3>4. \/ \E a : a # NoReply /\ reply' = [reply EXCEPT ![s] = a]
          \/ \E w, b, a : a # NoReply /\ reply' = [reply EXCEPT ![w] = b, ![s] = a]
      <4>1. CASE SendClosed(s) \/ SendBuffer(s) \/ RecvClosed(s)
        BY <4>1, <3>3 DEF SendClosed, SendBuffer, RecvClosed, Answered
      <4>2. CASE SendMatch(s)
        BY <4>2, <3>3 DEF SendMatch, Wake
      <4>3. CASE RecvMatch(s)
        <5>1. PICK i : reply' = [reply EXCEPT ![senders[op[s].on][i]] = Answer("committed"),
                                              ![s] = Received(Msg(senders[op[s].on][i]))]
          BY <4>3 DEF RecvMatch, Wake
        <5> QED
          BY <5>1, <3>2
      <4>4. CASE RecvBuffered(s)
        <5> DEFINE got == Received(Head(queue[op[s].on]))
        <5>1. \/ \E i : reply' = [reply EXCEPT ![senders[op[s].on][i]] = Answer("committed"),
                                              ![s] = got]
              \/ reply' = [reply EXCEPT ![s] = got]
          BY <4>4 DEF RecvBuffered, Wake, Answered
        <5>2. got # NoReply
          BY <3>2
        <5> HIDE DEF got
        <5> QED
          BY <5>1, <5>2
      <4> QED
        BY <2>2, <4>1, <4>2, <4>3, <4>4
    <3>6. reply'[s] # NoReply
      <4>1. \A a : [reply EXCEPT ![s] = a][s] = a
        BY <1>t
      <4>2. \A w, b, a : [reply EXCEPT ![w] = b, ![s] = a][s] = a
        BY <1>t
      <4> QED
        BY <3>4, <4>1, <4>2
    <3> QED
      BY <3>1, <3>6, <1>w DEF InWait
  <2>3. CASE SendBlock(s) \/ RecvBlock(s)
    BY <2>3, BlockDefers
  <2>4. CASE FinishPending(s) \/ CollectContexts(s)
    BY <2>4, LeaveDefers
  <2>5. CASE Recheck(s)
    <3>1. /\ ClaimDeadlocked(runnable, waiters, awaiters, reply)
          /\ pending' = pending /\ op' = op
          /\ \A x \in Strands : pc[x] \in {"enter", "finish"} => pc'[x] = pc[x]
      BY <2>5, <1>t DEF Recheck, Goto, chanVars
    <3> QED
      BY <3>1, <1>t, ClaimDefers
  <2>6. CASE Return(s) \/ CloseDone(s) \/ AwaitResult(s) \/ AwaitDeadlock(s)
    <3>1. pc'[s] = "run"
      BY <2>6, <1>t DEF Return, CloseDone, AwaitResult, AwaitDeadlock, Ends, Goto
    <3> QED
      BY <3>1, <1>w
  <2>7. ASSUME NEW c \in Chans, Close(s, c) PROVE Deferred'
    <3>1. pc'[s] = "closing"
      BY <2>7, <1>t DEF Close, Goto
    <3> QED
      BY <3>1, <1>w
  <2>8. CASE CloseWake(s)
    <3>1. pc'[s] = "closing"
      BY <2>8 DEF CloseWake
    <3> QED
      BY <3>1, <1>w
  <2>9. CASE TaskStep(s)
    <3>1. ASSUME NEW t \in Pool, Spawn(s, t) PROVE Deferred'
      <4>1. pc'[t] = "run" /\ t \in Strands
        BY <3>1, <1>t DEF Spawn
      <4> QED
        BY <4>1, <1>w
    <3>2. ASSUME NEW t \in Pool, AwaitDone(s, t) PROVE Deferred'
      <4>1. pc'[s] = "run"
        BY <3>2 DEF AwaitDone
      <4> QED
        BY <4>1, <1>w
    <3>3. ASSUME NEW t \in Pool, Await(s, t) PROVE Deferred'
      <4>1. pc[s] = "run" /\ op' = [op EXCEPT ![s] = [kind |-> "await", on |-> t]]
        BY <3>3 DEF Await, Starts
      <4>2. s \in Counted
        BY <4>1, <1>t DEF Waits, Counted, Live, Blocked
      <4>3. runnable > 0
        BY <4>2, CountedPositive
      <4>4. /\ ClaimDeadlocked(runnable - 1, waiters, awaiters \cup {s}, reply)
            /\ pending' = pending /\ runnable - 1 \in Nat /\ awaiters \cup {s} \in SUBSET Strands
            /\ \A x \in Strands : pc[x] \in {"enter", "finish"} => pc'[x] = pc[x] /\ op'[x] = op[x]
        BY <3>3, <4>1, <4>3, <1>t DEF Await, Goto, chanVars
      <4>5. \A x \in waiters : op'[x] = op[x]
        BY <4>1, <1>t DEF InWait
      <4> QED
        BY <4>4, <4>5, ClaimDefers
    <3>4. CASE SpawnRefused(s)
      <4>1. pc'[s] = "run"
        BY <3>4 DEF SpawnRefused
      <4> QED
        BY <4>1, <1>w
    <3>5. CASE Complete(s)
      <4> DEFINE resumed == {x \in awaiters : op[x].on = s}
      <4>1. resumed \in SUBSET Strands
        BY <1>t
      <4>2. Cardinality(resumed) \in Nat
        BY <4>1, Finite
      <4>3. /\ ClaimDeadlocked((IF runnable > 0 THEN runnable - 1 ELSE 0) + Cardinality(resumed),
                               waiters, awaiters \ resumed, reply)
            /\ awaiters \ resumed \in SUBSET Strands
            /\ pending' = pending /\ op' = op
            /\ \A x \in Strands : pc[x] \in {"enter", "finish"} => pc'[x] = pc[x]
        BY <3>5, <1>t DEF Complete, Goto, chanVars
      <4> HIDE DEF resumed
      <4>4. (IF runnable > 0 THEN runnable - 1 ELSE 0) + Cardinality(resumed) \in Nat
        BY <4>2, <1>d
      <4> QED
        BY <4>3, <4>4, ClaimDefers
    <3>6. CASE ReleaseTask(s)
      <4>1. /\ UNCHANGED <<runnable, waiters, awaiters, op>>
            /\ \A x \in Strands : pc[x] \in InWait => pc'[x] = pc[x]
        BY <3>6, <1>t DEF ReleaseTask, Goto, ctxVars, InWait
      <4> QED
        BY <4>1 DEF LInv, Deferred, InWait
    <3> QED
      BY <2>9, <2>6, <3>1, <3>2, <3>3, <3>4, <3>5, <3>6 DEF TaskStep
  <2>10. CASE PmapStep(s)
    <3>1. ASSUME NEW W \in SUBSET Pool, Pmap(s, W) PROVE Deferred'
      <4>1. PICK x \in W : TRUE
        BY <3>1 DEF Pmap
      <4>2. pc'[x] = "run" /\ x \in Strands
        BY <3>1, <1>t DEF Pmap
      <4> QED
        BY <4>2, <1>w
    <3>2. CASE WorkerDone(s)
      <4>1. pc'[s] \in {"quit", "quitLast"}
        BY <3>2, <1>t DEF WorkerDone, Goto
      <4> QED
        BY <4>1, <1>w
    <3>3. CASE PmapReturn(s)
      <4>1. pc'[s] = "run"
        BY <3>3, <1>t DEF PmapReturn, Goto
      <4> QED
        BY <4>1, <1>w
    <3>4. CASE WorkerExit(s)
      <4> DEFINE resumed == IF pc[s] = "quitLast" THEN parked \cap {boss[s]} ELSE {}
      <4>1. resumed \in SUBSET Strands
        BY <1>t
      <4>2. Cardinality(resumed) \in Nat
        BY <4>1, Finite
      <4>3. /\ ClaimDeadlocked((IF runnable > 0 THEN runnable - 1 ELSE 0) + Cardinality(resumed),
                               waiters, awaiters, reply)
            /\ pending' = pending /\ op' = op
            /\ \A x \in Strands : pc[x] \in {"enter", "finish"} => pc'[x] = pc[x]
        BY <3>4, <1>t DEF WorkerExit, Goto, chanVars
      <4> HIDE DEF resumed
      <4>4. (IF runnable > 0 THEN runnable - 1 ELSE 0) + Cardinality(resumed) \in Nat
        BY <4>2, <1>d
      <4> QED
        BY <4>3, <4>4, <1>t, ClaimDefers
    <3> QED
      BY <2>10, <3>1, <3>2, <3>3, <3>4 DEF PmapStep
  <2> QED
    BY <1>3, <2>1, <2>2, <2>3, <2>4, <2>5, <2>6, <2>7, <2>8, <2>9, <2>10 DEF Step, ChannelStep
<1> QED
  BY <1>1, <1>2, <1>3 DEF Next

LEMMA InitLInv == Init => LInv
<1> SUFFICES ASSUME Init PROVE LInv
  OBVIOUS
<1>1. \A x : ~InLine(x, <<>>)
  BY DEF InLine
<1>2. Distinct(<<>>)
  BY DEF Distinct
<1>3. LinesExact
  BY <1>1, <1>2 DEF Init, LinesExact, Stand
<1>4. NoLostWaiter
  BY DEF Init, NoLostWaiter
<1>5. ASSUME NEW c \in Chans PROVE Served(c)
  <2>1. Len(queue[c]) = 0 /\ Capacity[c] \in Nat
    BY ConstantsAssumption DEF Init
  <2> QED
    BY <2>1 DEF Init, Served, Waiting
<1>6. CallsExact
  BY DEF Init, CallsExact, InWait, NoOp
<1>7. Deferred
  BY DEF Init, Deferred
<1> QED
  BY <1>3, <1>4, <1>5, <1>6, <1>7 DEF LInv, Lines

(* What the lines hold, inductive together with IInv.                      *)
THEOREM LinesInductive == Spec => [](IInv /\ LInv)
<1>1. Init => IInv /\ LInv
  BY InitIInv, InitLInv
<1>2. IInv /\ LInv /\ [Next]_vars => (IInv /\ LInv)'
  <2> SUFFICES ASSUME IInv, LInv, [Next]_vars PROVE IInv' /\ LInv'
    OBVIOUS
  <2>1. IInv'
    BY NextIInv
  <2>2. CASE Next
    BY <2>1, <2>2, LinesNext, DeferredNext DEF LInv
  <2>3. CASE UNCHANGED vars
    <3>1. UNCHANGED <<runnable, waiters, awaiters, queue, senders, receivers, closed, todo,
                      pc, op, reply>>
      BY <2>3 DEF vars, ctxVars, chanVars, taskVars, strandVars
    <3>2. LinesExact' /\ NoLostWaiter'
      BY <3>1 DEF LInv, Lines, LinesExact, Stand, InLine, Distinct, At, NoLostWaiter
    <3>3. \A c \in Chans : Served(c)'
      BY <3>1 DEF LInv, Lines, Served, Waiting, At
    <3>4. CallsExact'
      BY <3>1 DEF LInv, Lines, CallsExact
    <3>5. Deferred'
      BY <3>1 DEF LInv, Deferred
    <3> QED
      BY <2>1, <3>2, <3>3, <3>4, <3>5 DEF LInv, Lines
  <2> QED
    BY <2>2, <2>3
<1> QED
  BY <1>1, <1>2, PTL DEF Spec

(* Nothing that could proceed is left waiting: send and recv match, refill *)
(* or buffer, and close answers and empties the lines, so that no channel  *)
(* has waiters on both sides, a receiver beside a buffered value, a sender *)
(* beside a free slot, or a line once it is closed.                        *)
THEOREM NothingMissed == Spec => []NoMissedMatch
<1>1. IInv /\ LInv => NoMissedMatch
  BY LInvSuffices
<1> QED
  BY <1>1, LinesInductive, PTL

(* Whoever is registered with the context as a waiter is in the line of    *)
(* its channel or in the list that close detached and still walks, however *)
(* many old entries of answered operations the lines hold besides.         *)
THEOREM NobodyLost == Spec => []NoLostWaiter
<1>1. IInv /\ LInv => NoLostWaiter
  BY DEF LInv, Lines
<1> QED
  BY <1>1, LinesInductive, PTL

(* A claim of a deadlock that had to wait for callers in entry is made:    *)
(* while nobody is runnable and somebody waits, a caller on its way out of *)
(* finishPending has yet to recheck the context.                           *)
THEOREM NothingForgotten == Spec => []NoForgottenClaim
<1>1. IInv /\ LInv => NoForgottenClaim
  BY LInvSuffices
<1> QED
  BY <1>1, LinesInductive, PTL

-----------------------------------------------------------------------------
(* The channels implement their promise, step by step.  Ans is the answer  *)
(* as a caller of send or receive sees it.                                 *)

Ans(x) == IF InChannelOp(x) THEN reply[x] ELSE NoReply
CallsStay == \A x \in Strands : CallOf(x)' = CallOf(x)
Open(x, kind, c) == At(x, kind, c) /\ reply[x] = NoReply

(* The abstract actions, in terms of the calls and answers of the strands. *)
LEMMA OpenIs ==
  ASSUME NEW x \in Strands, NEW c, NEW kind \in {"send", "recv"}
  PROVE  /\ Promise!Undecided(x, kind, c) <=> Open(x, kind, c)
         /\ Open(x, "send", c) => CallOf(x).msg = Msg(x)
<1>1. CallOf(x).kind = kind <=> op[x].kind = kind
  BY DEF CallOf, InChannelOp
<1>2. InChannelOp(x) => CallOf(x).on = op[x].on
  BY DEF CallOf
<1>3. op[x].kind = kind => InChannelOp(x) /\ Ans(x) = reply[x]
  BY DEF InChannelOp, Ans
<1>4. Promise!Undecided(x, kind, c) <=> CallOf(x).kind = kind /\ CallOf(x).on = c /\ Ans(x) = NoReply
  BY DEF Promise!Undecided, Ans, Promise!NoReply, NoReply
<1>5. Open(x, "send", c) => CallOf(x).msg = Msg(x)
  BY DEF Open, At, CallOf, InChannelOp
<1> QED
  BY <1>1, <1>2, <1>3, <1>4, <1>5 DEF Open, At

LEMMA PromiseStutters ==
  ASSUME UNCHANGED <<queue, closed>>, CallsStay, \A x \in Strands : Ans(x)' = Ans(x)
  PROVE  UNCHANGED Promise!vars
<1>1. [s \in Strands |-> CallOf(s)]' = [s \in Strands |-> CallOf(s)]
  BY DEF CallsStay
<1>2. [s \in Strands |-> IF InChannelOp(s) THEN reply[s] ELSE NoReply]'
        = [s \in Strands |-> IF InChannelOp(s) THEN reply[s] ELSE NoReply]
  BY DEF Ans
<1> QED
  BY <1>1, <1>2 DEF Promise!vars

LEMMA CallsMap ==
  ASSUME CallsStay
  PROVE  [s \in Strands |-> CallOf(s)]' = [s \in Strands |-> CallOf(s)]
  BY DEF CallsStay

LEMMA AnswersMap ==
  ASSUME NEW s \in Strands, NEW a, \A x \in Strands : Ans(x)' = IF x = s THEN a ELSE Ans(x)
  PROVE  [x \in Strands |-> IF InChannelOp(x) THEN reply[x] ELSE NoReply]'
           = [[x \in Strands |-> IF InChannelOp(x) THEN reply[x] ELSE NoReply] EXCEPT ![s] = a]
  BY DEF Ans

LEMMA AnswersMap2 ==
  ASSUME NEW s \in Strands, NEW r \in Strands, s # r, NEW a, NEW b,
         \A x \in Strands : Ans(x)' = IF x = r THEN b ELSE IF x = s THEN a ELSE Ans(x)
  PROVE  [x \in Strands |-> IF InChannelOp(x) THEN reply[x] ELSE NoReply]'
           = [[x \in Strands |-> IF InChannelOp(x) THEN reply[x] ELSE NoReply]
                EXCEPT ![s] = a, ![r] = b]
  BY DEF Ans

LEMMA PromiseRefuses ==
  ASSUME NEW s \in Strands, NEW c \in Chans, closed[c],
         Open(s, "send", c) \/ (Open(s, "recv", c) /\ queue[c] = <<>>),
         UNCHANGED <<queue, closed>>, CallsStay,
         \A x \in Strands : Ans(x)' = IF x = s THEN Answer("closed") ELSE Ans(x)
  PROVE  Promise!Next
<1>1. Promise!RefuseClosed(s, c)
  BY OpenIs, CallsMap, AnswersMap DEF Promise!RefuseClosed, Promise!Answer, Answer
<1> QED
  BY <1>1 DEF Promise!Next

LEMMA PromisePuts ==
  ASSUME NEW s \in Strands, NEW c \in Chans, ~closed[c], Open(s, "send", c),
         Len(queue[c]) < Capacity[c], queue' = [queue EXCEPT ![c] = Append(@, Msg(s))],
         closed' = closed, CallsStay,
         \A x \in Strands : Ans(x)' = IF x = s THEN Answer("committed") ELSE Ans(x)
  PROVE  Promise!Next
<1>1. /\ Promise!Undecided(s, "send", c)
      /\ [x \in Strands |-> CallOf(x)][s].msg = Msg(s)
  BY OpenIs
<1>2. Promise!Put(s, c)
  BY <1>1, CallsMap, AnswersMap DEF Promise!Put, Promise!Answer, Answer
<1> QED
  BY <1>2 DEF Promise!Next

LEMMA PromiseTakes ==
  ASSUME NEW s \in Strands, NEW c \in Chans, Open(s, "recv", c), queue[c] # <<>>,
         queue' = [queue EXCEPT ![c] = Tail(@)], closed' = closed, CallsStay,
         \A x \in Strands : Ans(x)' = IF x = s THEN Received(Head(queue[c])) ELSE Ans(x)
  PROVE  Promise!Next
<1>1. Promise!Undecided(s, "recv", c)
  BY OpenIs
<1>2. Promise!Take(s, c)
  BY <1>1, CallsMap, AnswersMap DEF Promise!Take, Promise!Received, Received
<1> QED
  BY <1>2 DEF Promise!Next

LEMMA PromiseMeets ==
  ASSUME NEW s \in Strands, NEW r \in Strands, NEW c \in Chans, ~closed[c], queue[c] = <<>>,
         Open(s, "send", c), Open(r, "recv", c), UNCHANGED <<queue, closed>>, CallsStay,
         \A x \in Strands : Ans(x)' = IF x = r THEN Received(Msg(s))
                                      ELSE IF x = s THEN Answer("committed") ELSE Ans(x)
  PROVE  Promise!Next
<1>1. /\ Promise!Undecided(s, "send", c) /\ Promise!Undecided(r, "recv", c)
      /\ [x \in Strands |-> CallOf(x)][s].msg = Msg(s) /\ s # r
  BY OpenIs DEF Open, At
<1>2. Promise!Meet(s, r, c)
  BY <1>1, CallsMap, AnswersMap2
     DEF Promise!Meet, Promise!Received, Received, Promise!Answer, Answer
<1> QED
  BY <1>2 DEF Promise!Next

LEMMA PromiseRefills ==
  ASSUME NEW s \in Strands, NEW r \in Strands, NEW c \in Chans, ~closed[c], queue[c] # <<>>,
         Open(s, "send", c), Open(r, "recv", c),
         queue' = [queue EXCEPT ![c] = Append(Tail(@), Msg(s))], closed' = closed, CallsStay,
         \A x \in Strands : Ans(x)' = IF x = s THEN Answer("committed")
                                      ELSE IF x = r THEN Received(Head(queue[c])) ELSE Ans(x)
  PROVE  Promise!Next
<1>1. /\ Promise!Undecided(s, "send", c) /\ Promise!Undecided(r, "recv", c)
      /\ [x \in Strands |-> CallOf(x)][s].msg = Msg(s) /\ s # r
  BY OpenIs DEF Open, At
<1> DEFINE seen == [x \in Strands |-> IF InChannelOp(x) THEN reply[x] ELSE NoReply]
<1>2. seen' = [seen EXCEPT ![r] = Received(Head(queue[c])), ![s] = Answer("committed")]
  BY <1>1, AnswersMap2
<1>3. /\ Promise!Received(Head(queue[c])) = Received(Head(queue[c]))
      /\ Promise!Answer("committed") = Answer("committed")
  BY DEF Promise!Received, Received, Promise!Answer, Answer
<1>4. Promise!TakeAndRefill(r, s, c)
  BY <1>1, <1>2, <1>3, CallsMap DEF Promise!TakeAndRefill
<1> QED
  BY <1>4 DEF Promise!Next

LEMMA PromiseShuts ==
  ASSUME NEW c \in Chans, ~closed[c], closed' = [closed EXCEPT ![c] = TRUE],
         queue' = queue, CallsStay, \A x \in Strands : Ans(x)' = Ans(x)
  PROVE  Promise!Next
<1>1. [s \in Strands |-> IF InChannelOp(s) THEN reply[s] ELSE NoReply]'
        = [s \in Strands |-> IF InChannelOp(s) THEN reply[s] ELSE NoReply]
  BY DEF Ans
<1>2. Promise!Shut(c)
  BY <1>1, CallsMap DEF Promise!Shut
<1> QED
  BY <1>2 DEF Promise!Next

LEMMA PromiseGivesUp ==
  ASSUME NEW S \in SUBSET Strands, S # {}, UNCHANGED <<queue, closed>>, CallsStay,
         \A x \in Strands : Ans(x)' = IF x \in S THEN Answer("deadlock") ELSE Ans(x),
         \A s \in S : \E c \in Chans :
           /\ ~closed[c]
           /\ \/ /\ Open(s, "send", c) /\ Len(queue[c]) >= Capacity[c]
                 /\ \A r \in Strands : ~Open(r, "recv", c)
              \/ /\ Open(s, "recv", c) /\ queue[c] = <<>>
                 /\ \A r \in Strands : ~Open(r, "send", c)
  PROVE  Promise!Next
<1>1. \A s \in S : Promise!Stuck(s)
  BY OpenIs DEF Promise!Stuck
<1>2. [x \in Strands |-> IF InChannelOp(x) THEN reply[x] ELSE NoReply]'
        = [s \in Strands |-> IF s \in S THEN Promise!Answer("deadlock")
             ELSE [x \in Strands |-> IF InChannelOp(x) THEN reply[x] ELSE NoReply][s]]
  BY DEF Ans, Promise!Answer, Answer
<1>3. Promise!GiveUp
  BY <1>1, <1>2, CallsMap DEF Promise!GiveUp
<1> QED
  BY <1>3 DEF Promise!Next

LEMMA PromiseInvokes ==
  ASSUME NEW s \in Strands, NEW kind \in {"send", "recv"}, NEW c \in Chans,
         ~InChannelOp(s), op'[s] = [kind |-> kind, on |-> c], budget'[s] \in 0..MaxOps,
         \A x \in Strands \ {s} : CallOf(x)' = CallOf(x),
         UNCHANGED <<queue, closed>>, \A x \in Strands : Ans(x)' = Ans(x)
  PROVE  Promise!Next
<1> DEFINE calls == [x \in Strands |-> CallOf(x)]
<1>1. [x \in Strands |-> IF InChannelOp(x) THEN reply[x] ELSE NoReply]'
        = [x \in Strands |-> IF InChannelOp(x) THEN reply[x] ELSE NoReply]
  BY DEF Ans
<1>2. calls[s] = Promise!NoCall
  BY DEF CallOf, Promise!NoCall
<1>3. calls' = [calls EXCEPT ![s] = CallOf(s)']
  OBVIOUS
<1>4. CASE kind = "recv"
  <2>1. CallOf(s)' = [kind |-> "recv", on |-> c, msg |-> None]
    BY <1>4 DEF CallOf, InChannelOp
  <2>2. Promise!Invoke(s)
    BY <2>1, <1>1, <1>2, <1>3 DEF Promise!Invoke
  <2> QED
    BY <2>2 DEF Promise!Next
<1>5. CASE kind = "send"
  <2>1. CallOf(s)' = [kind |-> "send", on |-> c, msg |-> Msg(s)'] /\ Msg(s)' \in Messages
    BY <1>5 DEF CallOf, InChannelOp, Msg, Messages
  <2>2. Promise!Invoke(s)
    BY <2>1, <1>1, <1>2, <1>3 DEF Promise!Invoke
  <2> QED
    BY <2>2 DEF Promise!Next
<1> QED
  BY <1>4, <1>5

LEMMA PromiseReturns ==
  ASSUME NEW s \in Strands, InChannelOp(s), reply[s] # NoReply, op'[s] = NoOp,
         \A x \in Strands \ {s} : CallOf(x)' = CallOf(x) /\ Ans(x)' = Ans(x),
         UNCHANGED <<queue, closed>>
  PROVE  Promise!Next
<1>1. CallOf(s)' = Promise!NoCall /\ Ans(s)' = NoReply /\ Ans(s) # NoReply
  BY DEF CallOf, InChannelOp, NoOp, Promise!NoCall, Ans
<1>2. [x \in Strands |-> CallOf(x)]' = [[x \in Strands |-> CallOf(x)] EXCEPT ![s] = Promise!NoCall]
  BY <1>1
<1>3. [x \in Strands |-> IF InChannelOp(x) THEN reply[x] ELSE NoReply]'
        = [[x \in Strands |-> IF InChannelOp(x) THEN reply[x] ELSE NoReply] EXCEPT ![s] = NoReply]
  BY <1>1 DEF Ans
<1>4. Promise!Return(s)
  BY <1>1, <1>2, <1>3 DEF Promise!Return, Promise!NoReply, NoReply, Ans
<1> QED
  BY <1>4 DEF Promise!Next

(* A step that keeps every operation where it is: at most the claims are   *)
(* seen, and whoever is given up could not have been completed.            *)
LEMMA QuietPromise ==
  ASSUME IInv, IInv', LInv, Quiet, ClaimsRightly
  PROVE  Promise!Next \/ UNCHANGED Promise!vars
<1> DEFINE K == waiters \ waiters'
<1>t. /\ Lines /\ Waits /\ Waits' /\ waiters \subseteq Strands
      /\ \A x \in Strands : InChannelOp(x) <=> pc[x] \in InWait \cup {"enter"}
  BY DEF IInv, TypeOK, ContextOK, LInv, Lines, CallsExact, InChannelOp
<1>q. UNCHANGED <<queue, closed>>
  BY DEF Quiet
<1>1. CallsStay
  <2> SUFFICES ASSUME NEW x \in Strands PROVE CallOf(x)' = CallOf(x)
    BY DEF CallsStay
  <2>1. CASE InChannelOp(x)
    <3>1. op'[x] = op[x] /\ budget'[x] = budget[x]
      BY <2>1, <1>t DEF Quiet, Busy
    <3> QED
      BY <3>1 DEF CallOf, InChannelOp, Msg
  <2>2. CASE ~InChannelOp(x)
    <3>1. op'[x].kind \notin {"send", "recv"}
      BY <2>2 DEF Quiet, InChannelOp
    <3> QED
      BY <2>2, <3>1 DEF CallOf, InChannelOp
  <2> QED
    BY <2>1, <2>2
<1>2. ASSUME NEW x \in Strands
      PROVE  Ans(x)' = IF x \in K THEN Answer("deadlock") ELSE Ans(x)
  <2>1. CASE ~InChannelOp(x)
    <3>1. op'[x].kind \notin {"send", "recv"} /\ x \notin K
      BY <2>1, <1>t DEF Quiet, InChannelOp, Waits, InWait
    <3> QED
      BY <2>1, <3>1 DEF Ans, InChannelOp
  <2>2. CASE InChannelOp(x)
    <3>1. op'[x] = op[x] /\ Ans(x) = reply[x] /\ Ans(x)' = reply'[x]
      BY <2>2, <1>t DEF Quiet, Busy, Ans, InChannelOp
    <3>2. CASE x \in K
      BY <3>1, <3>2, <1>t DEF Quiet
    <3>3. CASE pc[x] = "enter"
      <4>1. pc'[x] = "enter"
        BY <3>3 DEF Quiet
      <4>2. reply[x] = NoReply /\ reply'[x] = NoReply /\ x \notin waiters
        BY <3>3, <4>1, <1>t DEF Waits
      <4> QED
        BY <4>2, <3>1
    <3>4. CASE x \in waiters'
      <4>1. x \in waiters
        BY <3>4 DEF Quiet
      <4>2. reply[x] = NoReply /\ reply'[x] = NoReply
        BY <3>4, <4>1, <1>t DEF Waits
      <4> QED
        BY <4>1, <4>2, <3>1, <3>4
    <3>5. CASE pc[x] \in InWait /\ x \notin waiters
      BY <3>1, <3>5 DEF Quiet
    <3> QED
      BY <3>2, <3>3, <3>4, <3>5, <2>2, <1>t
  <2> QED
    BY <2>1, <2>2
<1>3. CASE K = {}
  BY <1>1, <1>2, <1>3, <1>q, PromiseStutters
<1>4. CASE K # {}
  <2>1. \A x \in K : reply[x] = NoReply /\ reply'[x] = Answer("deadlock")
    BY <1>t DEF Quiet, Waits
  <2>2. K \subseteq NewlyDeadlocked
    BY <2>1, <1>t DEF NewlyDeadlocked, NoReply, Answer
  <2>3. Counted' = NewlyDeadlocked
    BY <2>2, <1>4 DEF ClaimsRightly
  <2>4. ASSUME NEW x \in Strands PROVE pc[x] \notin {"enter", "closing"}
    <3> SUFFICES ASSUME pc'[x] \in {"enter", "closing"} PROVE FALSE
      BY DEF Quiet
    <3>1. x \in Counted'
      BY AtWorkAfter
    <3>2. reply'[x].out = "deadlock"
      BY <3>1, <2>3 DEF NewlyDeadlocked
    <3>3. reply'[x] = NoReply
      BY <1>t DEF Waits
    <3> QED
      BY <3>2, <3>3 DEF NoReply
  <2>5. ASSUME NEW kind \in {"send", "recv"}, NEW c \in Chans, Waiting(kind, c) = {},
               NEW r \in Strands
        PROVE  ~Open(r, kind, c)
    <3> SUFFICES ASSUME Open(r, kind, c) PROVE FALSE
      OBVIOUS
    <3>1. pc[r] \in InWait /\ reply[r] = NoReply
      BY <2>4, <1>t DEF Open, At, InChannelOp
    <3>2. r \in waiters
      BY <3>1, <1>t DEF Lines, CallsExact
    <3> QED
      BY <3>2, <2>5 DEF Open, Waiting
  <2>6. ASSUME NEW s \in K
        PROVE  \E c \in Chans :
                 /\ ~closed[c]
                 /\ \/ /\ Open(s, "send", c) /\ Len(queue[c]) >= Capacity[c]
                       /\ \A r \in Strands : ~Open(r, "recv", c)
                    \/ /\ Open(s, "recv", c) /\ queue[c] = <<>>
                       /\ \A r \in Strands : ~Open(r, "send", c)
    <3>1. /\ s \in waiters /\ s \in Strands /\ Found(s) /\ op[s].on \in Chans /\ reply[s] = NoReply
      BY <1>t, Tidy
    <3>2. PICK c \in Chans : c = op[s].on
      BY <3>1
    <3>3. \/ op[s].kind = "send" /\ InLine(s, senders[c])
          \/ op[s].kind = "recv" /\ InLine(s, receivers[c])
      BY <3>1, <3>2, <2>4 DEF Found
    <3>4. ~closed[c]
      <4>1. ~InLine(s, <<>>)
        BY DEF InLine
      <4> QED
        BY <3>3, <4>1, <1>t, Tidy
    <3>5. Served(c) /\ Len(queue[c]) \in Nat /\ Capacity[c] \in Nat
      BY <1>t, ConstantsAssumption DEF Lines, IInv, TypeOK, ChannelsOK
    <3>6. CASE op[s].kind = "send"
      <4>1. Open(s, "send", c) /\ s \in Waiting("send", c)
        BY <3>6, <3>1, <3>2 DEF Open, At, Waiting
      <4>2. Waiting("recv", c) = {} /\ Len(queue[c]) = Capacity[c]
        BY <4>1, <3>4, <3>5 DEF Served
      <4> QED
        BY <4>1, <4>2, <3>4, <3>5, <2>5
    <3>7. CASE op[s].kind = "recv"
      <4>1. Open(s, "recv", c) /\ s \in Waiting("recv", c)
        BY <3>7, <3>1, <3>2 DEF Open, At, Waiting
      <4>2. Waiting("send", c) = {} /\ queue[c] = <<>>
        BY <4>1, <3>4, <3>5 DEF Served
      <4> QED
        BY <4>1, <4>2, <3>4, <2>5
    <3> QED
      BY <3>3, <3>6, <3>7
  <2>7. K \in SUBSET Strands
    BY <1>t
  <2> HIDE DEF K
  <2> QED
    BY <1>1, <1>2, <1>4, <1>q, <2>6, <2>7, PromiseGivesUp
<1> QED
  BY <1>3, <1>4

(* Operations and budgets stay: so do the calls.                           *)
LEMMA SameCalls ==
  ASSUME op' = op, budget' = budget
  PROVE  /\ CallsStay
         /\ \A x \in Strands : Ans(x)' = IF InChannelOp(x) THEN reply'[x] ELSE NoReply
  BY DEF CallsStay, CallOf, InChannelOp, Msg, Ans

LEMMA SendPromise ==
  ASSUME IInv, Lines, NEW s \in Strands,
         SendClosed(s) \/ SendMatch(s) \/ SendBuffer(s) \/ SendBlock(s)
  PROVE  Promise!Next \/ UNCHANGED Promise!vars
<1>a. /\ pc[s] = "enter" /\ op[s].kind = "send" /\ InChannelOp(s)
      /\ op' = op /\ budget' = budget /\ closed' = closed
  BY DEF SendClosed, SendMatch, SendBuffer, SendBlock, InChannel, Leaves, InChannelOp
<1>d. PICK c \in Chans : op[s].on = c
  BY <1>a, Entered
<1>b. /\ reply[s] = NoReply /\ s \notin waiters /\ receivers[c] \in Seq(Strands) /\ Served(c)
      /\ reply \in [Strands -> Replies]
  BY <1>a, Entered, Tidy
<1>o. Open(s, "send", c)
  BY <1>a, <1>b, <1>d DEF Open, At
<1>c. /\ CallsStay
      /\ \A x \in Strands : Ans(x)' = IF InChannelOp(x) THEN reply'[x] ELSE NoReply
  BY <1>a, SameCalls
<1>e. ASSUME NEW a, reply' = [reply EXCEPT ![s] = a]
      PROVE  \A x \in Strands : Ans(x)' = IF x = s THEN a ELSE Ans(x)
  BY <1>e, <1>a, <1>b, <1>c DEF Ans
<1>1. CASE SendClosed(s)
  <2>1. closed[c] /\ UNCHANGED <<queue, closed>> /\ reply' = [reply EXCEPT ![s] = Answer("closed")]
    BY <1>1, <1>a, <1>d DEF SendClosed, Answered
  <2> QED
    BY <2>1, <1>c, <1>e, <1>o, PromiseRefuses
<1>2. CASE SendMatch(s)
  <2>1. PICK i \in 1..Len(receivers[c]) :
          /\ FirstActive(receivers[c], i)
          /\ Wake(receivers[c][i], Received(Msg(s)), s, Answer("committed"))
    BY <1>2, <1>d DEF SendMatch
  <2> DEFINE w == receivers[c][i]
  <2>2. /\ w \in waiters /\ w \in Strands /\ InLine(w, receivers[c])
    BY <2>1, <1>b DEF FirstActive, InLine
  <2>3. At(w, "recv", c) /\ reply[w] = NoReply
    BY <2>2, Tidy DEF Lines, LinesExact, Stand
  <2>4. reply' = [reply EXCEPT ![w] = Received(Msg(s)), ![s] = Answer("committed")]
    BY <2>1 DEF Wake
  <2> HIDE DEF w
  <2>5. Open(w, "recv", c) /\ InChannelOp(w) /\ Waiting("recv", c) # {} /\ w # s
    BY <2>2, <2>3, <1>b DEF Open, At, InChannelOp, Waiting
  <2>6. ~closed[c] /\ queue' = queue /\ queue[c] = <<>>
    BY <1>2, <2>5, <1>b, <1>d DEF SendMatch, Served
  <2>7. \A x \in Strands : Ans(x)' = IF x = w THEN Received(Msg(s))
                                     ELSE IF x = s THEN Answer("committed") ELSE Ans(x)
    BY <2>2, <2>4, <2>5, <1>a, <1>b, <1>c DEF Ans
  <2> QED
    BY <2>2, <2>5, <2>6, <2>7, <1>a, <1>c, <1>o, PromiseMeets
<1>3. CASE SendBuffer(s)
  <2>1. /\ Len(queue[c]) < Capacity[c] /\ ~closed[c]
        /\ queue' = [queue EXCEPT ![c] = Append(@, Msg(s))]
        /\ reply' = [reply EXCEPT ![s] = Answer("committed")]
    BY <1>3, <1>d DEF SendBuffer, Answered
  <2> QED
    BY <2>1, <1>a, <1>c, <1>e, <1>o, PromisePuts
<1>4. CASE SendBlock(s)
  <2>1. UNCHANGED <<queue, closed>> /\ reply' = reply
    BY <1>4, <1>a DEF SendBlock
  <2> QED
    BY <2>1, <1>c, PromiseStutters DEF Ans
<1> QED
  BY <1>1, <1>2, <1>3, <1>4

LEMMA RecvPromise ==
  ASSUME IInv, Lines, NEW s \in Strands,
         RecvBuffered(s) \/ RecvMatch(s) \/ RecvClosed(s) \/ RecvBlock(s)
  PROVE  Promise!Next \/ UNCHANGED Promise!vars
<1>a. /\ pc[s] = "enter" /\ op[s].kind = "recv" /\ InChannelOp(s)
      /\ op' = op /\ budget' = budget /\ closed' = closed
  BY DEF RecvBuffered, RecvMatch, RecvClosed, RecvBlock, InChannel, Leaves, InChannelOp
<1>d. PICK c \in Chans : op[s].on = c
  BY <1>a, Entered
<1>b. /\ reply[s] = NoReply /\ s \notin waiters /\ senders[c] \in Seq(Strands) /\ Served(c)
      /\ reply \in [Strands -> Replies]
  BY <1>a, Entered, Tidy
<1>o. Open(s, "recv", c)
  BY <1>a, <1>b, <1>d DEF Open, At
<1>c. /\ CallsStay
      /\ \A x \in Strands : Ans(x)' = IF InChannelOp(x) THEN reply'[x] ELSE NoReply
  BY <1>a, SameCalls
<1>e. ASSUME NEW a, reply' = [reply EXCEPT ![s] = a]
      PROVE  \A x \in Strands : Ans(x)' = IF x = s THEN a ELSE Ans(x)
  BY <1>e, <1>a, <1>b, <1>c DEF Ans
<1>w. ASSUME NEW i \in 1..Len(senders[c]), FirstActive(senders[c], i),
             NEW a, Wake(senders[c][i], Answer("committed"), s, a)
      PROVE  /\ senders[c][i] \in Strands /\ Open(senders[c][i], "send", c)
             /\ \A x \in Strands :
                  Ans(x)' = IF x = s THEN a
                            ELSE IF x = senders[c][i] THEN Answer("committed") ELSE Ans(x)
             /\ senders[c][i] # s /\ Waiting("send", c) # {}
  <2> DEFINE w == senders[c][i]
  <2>2. /\ w \in waiters /\ w \in Strands /\ InLine(w, senders[c])
    BY <1>w, <1>b DEF FirstActive, InLine
  <2>3. At(w, "send", c) /\ reply[w] = NoReply
    BY <2>2, Tidy DEF Lines, LinesExact, Stand
  <2>4. reply' = [reply EXCEPT ![w] = Answer("committed"), ![s] = a]
    BY <1>w DEF Wake
  <2> HIDE DEF w
  <2>5. Open(w, "send", c) /\ InChannelOp(w) /\ Waiting("send", c) # {} /\ w # s
    BY <2>2, <2>3, <1>b DEF Open, At, InChannelOp, Waiting
  <2>6. \A x \in Strands :
          Ans(x)' = IF x = s THEN a ELSE IF x = w THEN Answer("committed") ELSE Ans(x)
    BY <2>2, <2>4, <2>5, <1>a, <1>b, <1>c DEF Ans
  <2> QED
    BY <2>2, <2>5, <2>6 DEF w
<1>1. CASE RecvBuffered(s)
  <2>0. queue[c] # <<>>
    BY <1>1, <1>d DEF RecvBuffered
  <2>1. CASE /\ ~closed[c]
             /\ \E i \in 1..Len(senders[c]) :
                  /\ FirstActive(senders[c], i)
                  /\ Wake(senders[c][i], Answer("committed"), s, Received(Head(queue[c])))
                  /\ queue' = [queue EXCEPT ![c] = Append(Tail(@), Msg(senders[c][i]))]
    <3> PICK i \in 1..Len(senders[c]) :
          /\ FirstActive(senders[c], i)
          /\ Wake(senders[c][i], Answer("committed"), s, Received(Head(queue[c])))
          /\ queue' = [queue EXCEPT ![c] = Append(Tail(@), Msg(senders[c][i]))]
      BY <2>1
    <3> DEFINE w == senders[c][i]
               got == Received(Head(queue[c]))
    <3>1. /\ w \in Strands /\ Open(w, "send", c) /\ w # s
          /\ \A x \in Strands :
               Ans(x)' = IF x = s THEN got ELSE IF x = w THEN Answer("committed") ELSE Ans(x)
      BY <1>w
    <3>2. \A x \in Strands :
            Ans(x)' = IF x = w THEN Answer("committed") ELSE IF x = s THEN got ELSE Ans(x)
      BY <3>1
    <3>3. queue' = [queue EXCEPT ![c] = Append(Tail(@), Msg(w))]
      OBVIOUS
    <3> HIDE DEF w
    <3> QED
      BY <3>1, <3>2, <3>3, <2>0, <2>1, <1>a, <1>c, <1>o, PromiseRefills
  <2>2. CASE /\ Answered(s, Received(Head(queue[c])))
             /\ queue' = [queue EXCEPT ![c] = Tail(@)]
    <3>1. reply' = [reply EXCEPT ![s] = Received(Head(queue[c]))]
      BY <2>2 DEF Answered
    <3> QED
      BY <3>1, <2>0, <2>2, <1>a, <1>c, <1>e, <1>o, PromiseTakes
  <2> QED
    BY <1>1, <1>d, <2>1, <2>2 DEF RecvBuffered
<1>2. CASE RecvMatch(s)
  <2>1. PICK i \in 1..Len(senders[c]) :
          /\ FirstActive(senders[c], i)
          /\ Wake(senders[c][i], Answer("committed"), s, Received(Msg(senders[c][i])))
    BY <1>2, <1>d DEF RecvMatch
  <2>2. ~closed[c] /\ UNCHANGED <<queue, closed>> /\ queue[c] = <<>>
    BY <1>2, <1>a, <1>d DEF RecvMatch
  <2> DEFINE w == senders[c][i]
  <2>3. /\ w \in Strands /\ Open(w, "send", c)
        /\ \A x \in Strands :
             Ans(x)' = IF x = s THEN Received(Msg(w))
                       ELSE IF x = w THEN Answer("committed") ELSE Ans(x)
    BY <2>1, <1>w
  <2> HIDE DEF w
  <2> QED
    BY <2>2, <2>3, <1>c, <1>o, PromiseMeets
<1>3. CASE RecvClosed(s)
  <2>1. /\ closed[c] /\ queue[c] = <<>> /\ UNCHANGED <<queue, closed>>
        /\ reply' = [reply EXCEPT ![s] = Answer("closed")]
    BY <1>3, <1>a, <1>d DEF RecvClosed, Answered
  <2> QED
    BY <2>1, <1>c, <1>e, <1>o, PromiseRefuses
<1>4. CASE RecvBlock(s)
  <2>1. UNCHANGED <<queue, closed>> /\ reply' = reply
    BY <1>4, <1>a DEF RecvBlock
  <2> QED
    BY <2>1, <1>c, PromiseStutters DEF Ans
<1> QED
  BY <1>1, <1>2, <1>3, <1>4

(* Entering is the call, and the return the return; a close is one point   *)
(* in time, and each of its wake-ups a refusal of its own.                 *)
LEMMA CallPromise ==
  ASSUME IInv, Lines, NEW s \in Strands,
         \/ \E kind \in {"send", "recv"}, c \in Chans : Enter(s, kind, c)
         \/ Return(s)
  PROVE  Promise!Next
<1>t. /\ op \in [Strands -> Operations] /\ budget \in [Strands -> 0..MaxOps]
      /\ reply \in [Strands -> Replies] /\ Waits
      /\ \A x \in Strands : InChannelOp(x) <=> pc[x] \in InWait \cup {"enter"}
  BY DEF IInv, TypeOK, StrandsOK, Lines, CallsExact, InChannelOp
<1>1. CASE Return(s)
  <2>1. /\ pc[s] = "wait" /\ reply[s] # NoReply /\ op' = [op EXCEPT ![s] = NoOp]
        /\ reply' = [reply EXCEPT ![s] = NoReply] /\ UNCHANGED <<queue, closed>>
        /\ \A x \in Strands \ {s} : budget'[x] = budget[x]
    BY <1>1, <1>t DEF Return, Ends
  <2>2. InChannelOp(s) /\ op'[s] = NoOp
    BY <2>1, <1>t DEF InWait
  <2>3. \A x \in Strands \ {s} : CallOf(x)' = CallOf(x) /\ Ans(x)' = Ans(x)
    BY <2>1, <1>t DEF CallOf, InChannelOp, Msg, Ans
  <2> QED
    BY <2>1, <2>2, <2>3, PromiseReturns
<1>2. ASSUME NEW kind \in {"send", "recv"}, NEW c \in Chans, Enter(s, kind, c)
      PROVE  Promise!Next
  <2>1. /\ pc[s] = "run" /\ op' = [op EXCEPT ![s] = [kind |-> kind, on |-> c]]
        /\ UNCHANGED <<queue, closed, reply, budget>>
    BY <1>2 DEF Enter, Starts
  <2>2. ~InChannelOp(s) /\ op'[s] = [kind |-> kind, on |-> c] /\ reply[s] = NoReply
    BY <2>1, <1>t DEF InWait, Waits
  <2>3. \A x \in Strands \ {s} : CallOf(x)' = CallOf(x) /\ Ans(x)' = Ans(x)
    BY <2>1, <1>t DEF CallOf, InChannelOp, Msg, Ans
  <2>4. Ans(s)' = Ans(s)
    BY <2>1, <2>2 DEF Ans
  <2>5. budget'[s] \in 0..MaxOps /\ \A x \in Strands : Ans(x)' = Ans(x)
    BY <2>1, <2>3, <2>4, <1>t
  <2> QED
    BY <2>1, <2>2, <2>3, <2>5, PromiseInvokes
<1> QED
  BY <1>1, <1>2

LEMMA ClosePromise ==
  ASSUME IInv, Lines, NEW s \in Strands,
         (\E c \in Chans : Close(s, c)) \/ CloseWake(s) \/ CloseDone(s)
  PROVE  Promise!Next \/ UNCHANGED Promise!vars
<1>t. /\ op \in [Strands -> Operations] /\ budget \in [Strands -> 0..MaxOps]
      /\ reply \in [Strands -> Replies] /\ closed \in [Chans -> BOOLEAN]
      /\ \A x \in Strands : InChannelOp(x) <=> pc[x] \in InWait \cup {"enter"}
  BY DEF IInv, TypeOK, ChannelsOK, StrandsOK, Lines, CallsExact, InChannelOp
<1>l. ASSUME op'[s].kind \notin {"send", "recv"}, pc[s] \in {"run", "closing"}, reply' = reply,
             \A x \in Strands \ {s} : op'[x] = op[x] /\ budget'[x] = budget[x]
      PROVE  CallsStay /\ \A x \in Strands : Ans(x)' = Ans(x)
  <2>1. ~InChannelOp(s)
    BY <1>l, <1>t DEF InWait
  <2> QED
    BY <1>l, <2>1 DEF CallsStay, CallOf, InChannelOp, Msg, Ans
<1>1. ASSUME NEW c \in Chans, Close(s, c) PROVE Promise!Next \/ UNCHANGED Promise!vars
  <2>1. /\ pc[s] = "run" /\ op' = [op EXCEPT ![s] = [kind |-> "close", on |-> c]]
        /\ closed' = [closed EXCEPT ![c] = TRUE] /\ UNCHANGED <<queue, reply, budget>>
    BY <1>1 DEF Close, Starts
  <2>2. op'[s].kind \notin {"send", "recv"} /\ \A x \in Strands \ {s} : op'[x] = op[x]
    BY <2>1, <1>t
  <2>3. CallsStay /\ \A x \in Strands : Ans(x)' = Ans(x)
    BY <2>1, <2>2, <1>l
  <2>4. CASE closed[c]
    <3>1. closed' = closed
      BY <2>1, <2>4, <1>t
    <3> QED
      BY <2>1, <2>3, <3>1, PromiseStutters
  <2>5. CASE ~closed[c]
    BY <2>1, <2>3, <2>5, PromiseShuts
  <2> QED
    BY <2>4, <2>5
<1>2. CASE CloseWake(s)
  <2> DEFINE w == Head(todo[s])
  <2>1. pc[s] = "closing" /\ op' = op /\ budget' = budget /\ UNCHANGED <<queue, closed>>
    BY <1>2 DEF CloseWake, chanVars
  <2>2. /\ CallsStay
        /\ \A x \in Strands : Ans(x)' = IF InChannelOp(x) THEN reply'[x] ELSE NoReply
    BY <2>1, SameCalls
  <2>3. CASE w \in waiters /\ op[w].on = op[s].on
    <3>1. reply' = [reply EXCEPT ![w] = Answer("closed"), ![w] = Answer("closed")]
      BY <1>2, <2>3 DEF CloseWake, Wake
    <3> HIDE DEF w
    <3>2. /\ w \in Strands /\ pc[w] \in InWait /\ op[s].on \in Chans /\ closed[op[s].on]
          /\ reply[w] = NoReply
      BY <2>1, <2>3, Tidy
    <3>3. PICK c \in Chans : c = op[s].on
      BY <3>2
    <3>4. InChannelOp(w) /\ Served(c)
      BY <3>2, <1>t DEF Lines
    <3>5. Open(w, "send", c) \/ (Open(w, "recv", c) /\ queue[c] = <<>>)
      BY <3>2, <3>3, <3>4, <2>3 DEF InChannelOp, Open, At, Served, Waiting
    <3>6. \A x \in Strands : Ans(x)' = IF x = w THEN Answer("closed") ELSE Ans(x)
      BY <2>2, <3>1, <3>2, <3>4, <1>t DEF Ans
    <3> QED
      BY <2>1, <2>2, <3>2, <3>3, <3>5, <3>6, PromiseRefuses
  <2>4. CASE ~(w \in waiters /\ op[w].on = op[s].on)
    <3>1. reply' = reply
      BY <1>2, <2>4 DEF CloseWake
    <3> QED
      BY <2>1, <2>2, <3>1, PromiseStutters DEF Ans
  <2> QED
    BY <2>3, <2>4
<1>3. CASE CloseDone(s)
  <2>1. /\ pc[s] = "closing" /\ op' = [op EXCEPT ![s] = NoOp] /\ UNCHANGED <<queue, closed, reply>>
        /\ \A x \in Strands \ {s} : budget'[x] = budget[x]
    BY <1>3, <1>t DEF CloseDone, Ends, chanVars
  <2>2. op'[s].kind \notin {"send", "recv"} /\ \A x \in Strands \ {s} : op'[x] = op[x]
    BY <2>1, <1>t DEF NoOp
  <2> QED
    BY <2>1, <2>2, <1>l, PromiseStutters
<1> QED
  BY <1>1, <1>2, <1>3

LEMMA NextPromise ==
  ASSUME IInv, LInv, [Next]_vars
  PROVE  [Promise!Next]_Promise!vars
<1>t. IInv' /\ ClaimsRightly /\ Lines
  BY NextIInv DEF LInv
<1>q. ASSUME NEW s \in Strands, QuietActions(s) PROVE Promise!Next \/ UNCHANGED Promise!vars
  BY <1>q, <1>t, IsQuiet, QuietPromise
<1>m. Main \in Strands
  BY DEF Strands
<1>1. CASE BeginRun \/ EndRun
  BY <1>1, <1>m, <1>q DEF QuietActions
<1>2. ASSUME NEW s \in Strands, Step(s) PROVE Promise!Next \/ UNCHANGED Promise!vars
  <2>1. CASE \/ FinishPending(s) \/ CollectContexts(s) \/ Recheck(s)
             \/ TaskStep(s) \/ PmapStep(s)
    BY <2>1, <1>q DEF QuietActions
  <2>2. CASE SendClosed(s) \/ SendMatch(s) \/ SendBuffer(s) \/ SendBlock(s)
    BY <2>2, <1>t, SendPromise
  <2>3. CASE RecvBuffered(s) \/ RecvMatch(s) \/ RecvClosed(s) \/ RecvBlock(s)
    BY <2>3, <1>t, RecvPromise
  <2>4. CASE (\E kind \in {"send", "recv"}, c \in Chans : Enter(s, kind, c)) \/ Return(s)
    BY <2>4, <1>t, CallPromise
  <2>5. CASE (\E c \in Chans : Close(s, c)) \/ CloseWake(s) \/ CloseDone(s)
    BY <2>5, <1>t, ClosePromise
  <2> QED
    BY <1>2, <2>1, <2>2, <2>3, <2>4, <2>5 DEF Step, ChannelStep
<1>3. CASE UNCHANGED vars
  <2>1. op' = op /\ budget' = budget /\ reply' = reply /\ UNCHANGED <<queue, closed>>
    BY <1>3 DEF vars, chanVars, strandVars
  <2> QED
    BY <2>1, SameCalls, PromiseStutters DEF Ans
<1> QED
  BY <1>1, <1>2, <1>3 DEF Next

LEMMA InitPromise == Init => Promise!Init
<1> SUFFICES ASSUME Init PROVE Promise!Init
  OBVIOUS
<1>1. \A x \in Strands : op[x] = NoOp /\ ~InChannelOp(x)
  BY DEF Init, InChannelOp, NoOp
<1>2. [s \in Strands |-> CallOf(s)] = [s \in Strands |-> Promise!NoCall]
  BY <1>1 DEF CallOf, Promise!NoCall
<1>3. [s \in Strands |-> IF InChannelOp(s) THEN reply[s] ELSE NoReply]
        = [s \in Strands |-> Promise!NoReply]
  BY <1>1 DEF Promise!NoReply, NoReply
<1> QED
  BY <1>2, <1>3 DEF Init, Promise!Init

(* The channels keep their promise for any number of strands and channels  *)
(* of any capacity: each send and receive has at most one effect, values   *)
(* come out in the order they went in, a closed channel takes no more, and *)
(* an operation nobody could complete gives up without one.                *)
THEOREM Implements == Spec => ImplementsChannels
<1>1. IInv /\ LInv /\ [Next]_vars => [Promise!Next]_Promise!vars
  BY NextPromise
<1> QED
  BY <1>1, InitPromise, LinesInductive, PTL DEF Spec, ImplementsChannels, Promise!Spec

-----------------------------------------------------------------------------
(* Nobody is stuck: while a strand is at work, one can step.                 *)

\* The guards of the steps of a strand.
CanStep(s) ==
  \/ pc[s] = "run" /\ (s \in tasks \cup {Main} \/ boss[s] # None)
  \/ pc[s] = "enter" /\ op[s].kind \in {"send", "recv"}
  \/ pc[s] \in {"finish", "collect", "recheck", "closing", "quit", "quitLast", "publish"}
  \/ pc[s] = "wait" /\ reply[s] # NoReply
  \/ pc[s] = "await" /\ (op[s].on \in completed \/ reply[s].out = "deadlock")
  \/ pc[s] = "pmap" /\ \A w \in Strands : boss[w] = s => pc[w] = "dead"
NeverStuck ==
  (\E s \in Strands : pc[s] \notin {"off", "dead"}) => \E s \in Strands : CanStep(s)

\* A goroutine is a task or a worker; an await that holds no lease has an answer; a pmap caller that holds none has
\* no worker at work; and nobody's pmap calls are nested in themselves.
Answerable(s) == s \in awaiters \/ op[s].on \in completed \/ reply[s].out = "deadlock"
Descends == \A X \in SUBSET Strands : X # {} => \E x \in X : \A w \in X : boss[w] # x
Leases ==
  /\ \A p \in Pool : pc[p] \notin {"off", "dead"} => p \in tasks \/ boss[p] # None
  /\ \A s \in Strands : pc[s] = "await" => Answerable(s)
  /\ \A s \in Strands : pc[s] = "pmap" => s \in parked \/ remaining[s] = 0
  /\ \A w \in Strands : pc[w] = "quitLast" => remaining[boss[w]] = 0
  /\ Descends

\* The steps a strand has left, unless more submissions begin.
Left(s) ==
  CASE pc[s] = "off" -> IF s = Main THEN 0 ELSE 6 * MaxOps + 4
    [] pc[s] = "run" -> 6 * budget[s] + 3
    [] pc[s] = "enter" -> 6 * budget[s] + 2
    [] pc[s] = "finish" -> 6 * budget[s] + 1
    [] pc[s] \in {"collect", "closing", "await", "pmap"} -> 6 * budget[s]
    [] pc[s] = "recheck" -> 6 * budget[s] - 1
    [] pc[s] = "wait" -> 6 * budget[s] - 2
    [] pc[s] \in {"publish", "quit", "quitLast"} -> 2
    [] pc[s] = "dead" -> 0
Walks == \E s \in Strands : todo[s] # <<>> /\ todo' = [todo EXCEPT ![s] = Tail(@)]

\* Every step but the begin of a submission takes a strand nearer to its end and
\* none away from it, or takes a closer along the line it detached.
StepsRunOut ==
  [][\/ runs' = runs + 1 /\ runs < MaxRuns
     \/ /\ UNCHANGED runs
        /\ \A s \in Strands : Left(s)' <= Left(s) /\ Left(s) \in Nat
        /\ Walks \/ \E s \in Strands : Left(s)' < Left(s)]_vars

\* A step of s that starts and ends no goroutine but s.
Moves(s) ==
  /\ pc[s] \notin {"off", "dead", "pmap"} /\ pc'[s] # "pmap"
  /\ \A x \in Strands \ {s} : pc'[x] = pc[x] /\ budget'[x] = budget[x] /\ op'[x] = op[x]
  /\ UNCHANGED <<boss, runs, tasks>> /\ completed \subseteq completed'
  /\ Walks \/ Left(s)' < Left(s)
  /\ Left(s)' <= Left(s)
  /\ pc'[s] = "await" => Answerable(s)'
  /\ pc'[s] = "quitLast" => remaining'[boss[s]] = 0
  /\ \A x \in Strands \ {s} :
       /\ pc[x] = "await" /\ Answerable(x) => Answerable(x)'
       /\ x \in parked => x \in parked' \/ remaining'[x] = 0
       /\ remaining[x] = 0 => remaining'[x] = 0

LEMMA LeftIsNat == IInv => \A s \in Strands : Left(s) \in Nat
<1> SUFFICES ASSUME IInv, NEW s \in Strands PROVE Left(s) \in Nat
  OBVIOUS
<1>1. pc[s] \in Labels /\ budget[s] \in Nat /\ MaxOps \in Nat
  BY ConstantsAssumption DEF IInv, TypeOK, StrandsOK
<1>2. pc[s] \in InChannelLabels => budget[s] > 0
  BY DEF IInv, Roles
<1> QED
  BY <1>1, <1>2 DEF Left, Labels, InChannelLabels

LEMMA MovesKeep ==
  ASSUME IInv, Leases, NEW s \in Strands, Moves(s)
  PROVE  /\ Leases' /\ UNCHANGED runs
         /\ \A x \in Strands : Left(x)' <= Left(x)
         /\ Walks \/ \E x \in Strands : Left(x)' < Left(x)
<1>1. \A x \in Strands : pc'[x] = "await" => Answerable(x)'
  BY DEF Moves, Leases
<1>2. \A x \in Strands : pc'[x] = "pmap" => x \in parked' \/ remaining'[x] = 0
  BY DEF Moves, Leases
<1>3. ASSUME NEW w \in Strands, pc'[w] = "quitLast" PROVE remaining'[boss'[w]] = 0
  <2>1. CASE w = s
    BY <1>3, <2>1 DEF Moves
  <2>2. CASE w # s
    <3>1. pc[w] = "quitLast" /\ remaining[boss[w]] = 0 /\ boss[w] # None /\ boss[w] \in Strands
      BY <1>3, <2>2 DEF Moves, Leases, IInv, Roles, TypeOK, TasksOK
    <3>2. boss[w] # s /\ boss' = boss
      BY <3>1 DEF IInv, Roles, Moves
    <3> QED
      BY <3>1, <3>2 DEF Moves
  <2> QED
    BY <2>1, <2>2
<1>4. /\ Descends'
      /\ \A p \in Pool : pc'[p] \notin {"off", "dead"} => p \in tasks' \/ boss'[p] # None
  BY DEF Moves, Leases, Descends, Strands
<1>5. \A x \in Strands \ {s} : Left(x)' = Left(x)
  BY DEF Moves, Left
<1>6. \A x \in Strands : Left(x) <= Left(x)
  BY LeftIsNat
<1> QED
  BY <1>1, <1>2, <1>3, <1>4, <1>5, <1>6 DEF Moves, Leases

LEMMA LocalMoves ==
  ASSUME IInv, LInv, Leases, NEW s \in Strands, ChannelStep(s)
  PROVE  Moves(s)
<1>t. /\ pc \in [Strands -> Labels] /\ op \in [Strands -> Operations] /\ reply \in [Strands -> Replies]
      /\ budget \in [Strands -> 0..MaxOps] /\ MaxOps \in Nat
  BY ConstantsAssumption DEF IInv, TypeOK, StrandsOK
<1>b. pc[s] \in InChannelLabels => budget[s] > 0
  BY DEF IInv, Roles
<1>1. CASE \E kind \in {"send", "recv"}, c \in Chans : Enter(s, kind, c)
  BY <1>t, <1>1 DEF Enter, Starts, Goto, Moves, Left, Answerable, ctxVars, taskVars
<1>2. ASSUME InChannel(s, "send") \/ InChannel(s, "recv"), Leaves(s),
             \A x \in Strands \ {s} : pc[x] = "await" => reply'[x] = reply[x]
      PROVE  Moves(s)
  BY <1>t, <1>2 DEF InChannel, Leaves, Goto, Moves, Left, Answerable, taskVars
<1>3. ASSUME NEW w \in waiters, NEW a, NEW own, Wake(w, a, s, own)
      PROVE  \A x \in Strands \ {s} : pc[x] = "await" => reply'[x] = reply[x]
  BY <1>t, <1>3 DEF Wake, IInv, Waits
<1>4. CASE SendClosed(s) \/ SendMatch(s) \/ SendBuffer(s) \/ SendBlock(s)
  BY <1>t, <1>2, <1>3, <1>4 DEF SendClosed, SendMatch, SendBuffer, SendBlock, Answered, FirstActive
<1>5. CASE RecvBuffered(s) \/ RecvMatch(s) \/ RecvClosed(s) \/ RecvBlock(s)
  BY <1>t, <1>2, <1>3, <1>5 DEF RecvBuffered, RecvMatch, RecvClosed, RecvBlock, Answered, FirstActive
<1>6. CASE FinishPending(s) \/ CollectContexts(s)
  BY <1>t, <1>b, <1>6 DEF FinishPending, CollectContexts, Goto, Moves, Left, Answerable, ctxVars, taskVars, chanVars,
     InChannelLabels
<1>7. CASE Recheck(s)
  BY <1>t, <1>b, <1>7 DEF Recheck, ClaimDeadlocked, Goto, Moves, Left, Answerable, Answer, taskVars, chanVars,
     InChannelLabels
<1>8. CASE Return(s)
  BY <1>t, <1>b, <1>8 DEF Return, Ends, Goto, Moves, Left, Answerable, ctxVars, taskVars, InChannelLabels
<1>9. CASE \E c \in Chans : Close(s, c)
  BY <1>t, <1>9 DEF Close, Starts, Goto, Moves, Left, Answerable, ctxVars, taskVars
<1>10. CASE CloseWake(s)
  <2>1. \A x \in Strands : pc[x] = "await" => reply'[x] = reply[x]
    <3>1. \A w \in waiters : pc[w] # "await"
      BY DEF IInv, Waits
    <3> QED
      BY <1>t, <1>10, <3>1 DEF CloseWake, Wake
  <2>2. Walks /\ UNCHANGED <<pc, op, budget, awaiters, parked, taskVars, runs>>
    BY <1>10 DEF CloseWake, Walks
  <2> QED
    BY <1>10, <2>1, <2>2, LeftIsNat DEF CloseWake, Moves, Left, Answerable, taskVars
<1>11. CASE CloseDone(s)
  BY <1>t, <1>b, <1>11 DEF CloseDone, Ends, Goto, Moves, Left, Answerable, ctxVars, taskVars, chanVars, InChannelLabels
<1> QED
  BY <1>1, <1>4, <1>5, <1>6, <1>7, <1>8, <1>9, <1>10, <1>11 DEF ChannelStep

\* Where a claim leaves an await.
LEMMA ClaimAnswers ==
  ASSUME NEW r, NEW W, NEW A, ClaimDeadlocked(r, W, A, reply), NEW x \in Strands
  PROVE  /\ x \in A => x \in awaiters' \/ reply'[x].out = "deadlock"
         /\ reply[x].out = "deadlock" => reply'[x].out = "deadlock"
  BY DEF ClaimDeadlocked, Answer

LEMMA TaskMoves ==
  ASSUME IInv, LInv, Leases, NEW s \in Strands, TaskStep(s), \A t \in Pool : ~Spawn(s, t)
  PROVE  Moves(s)
<1>t. /\ pc \in [Strands -> Labels] /\ op \in [Strands -> Operations] /\ reply \in [Strands -> Replies]
      /\ budget \in [Strands -> 0..MaxOps] /\ MaxOps \in Nat
  BY ConstantsAssumption DEF IInv, TypeOK, StrandsOK
<1>b. pc[s] \in InChannelLabels \cup {"await"} => budget[s] > 0
  BY DEF IInv, Roles
<1>c. pc[s] = "run" => runnable > 0
  BY <1>t, CountedPositive DEF IInv, Waits, Counted, Live, Blocked, Labels
<1>1. CASE \E t \in Pool : Await(s, t)
  <2>1. PICK t \in Pool : Await(s, t)
    BY <1>1
  <2>2. ClaimDeadlocked(runnable - 1, waiters, awaiters \cup {s}, reply)
    BY <1>c, <2>1 DEF Await, Starts
  <2>3. \A x \in Strands :
          /\ x \in awaiters \cup {s} => x \in awaiters' \/ reply'[x].out = "deadlock"
          /\ reply[x].out = "deadlock" => reply'[x].out = "deadlock"
    BY <2>2, ClaimAnswers
  <2> QED
    BY <1>t, <2>1, <2>3 DEF Await, Starts, Goto, Moves, Left, Answerable, taskVars, chanVars
<1>2. CASE SpawnRefused(s) \/ \E t \in Pool : AwaitDone(s, t)
  BY <1>t, <1>2 DEF SpawnRefused, AwaitDone, Moves, Left, Answerable, ctxVars, taskVars, chanVars
<1>3. CASE Complete(s)
  <2> DEFINE resumed == {x \in awaiters : op[x].on = s}
             r == (IF runnable > 0 THEN runnable - 1 ELSE 0) + Cardinality(resumed)
  <2>2. ClaimDeadlocked(r, waiters, awaiters \ resumed, reply)
    BY <1>3 DEF Complete
  <2>3. \A x \in Strands :
          /\ x \in awaiters \ resumed => x \in awaiters' \/ reply'[x].out = "deadlock"
          /\ reply[x].out = "deadlock" => reply'[x].out = "deadlock"
    BY <2>2, ClaimAnswers
  <2> HIDE DEF r
  <2> QED
    BY <1>t, <1>3, <2>3 DEF Complete, Goto, Moves, Left, Answerable, taskVars, chanVars
<1>4. CASE ReleaseTask(s)
  BY <1>t, <1>4 DEF ReleaseTask, Goto, Moves, Left, Answerable, ctxVars, chanVars
<1>5. CASE AwaitResult(s) \/ AwaitDeadlock(s)
  BY <1>t, <1>b, <1>5 DEF AwaitResult, AwaitDeadlock, Ends, Goto, Moves, Left, Answerable, ctxVars, taskVars, chanVars
<1> QED
  BY <1>1, <1>2, <1>3, <1>4, <1>5 DEF TaskStep

LEMMA WorkerMoves ==
  ASSUME IInv, LInv, Leases, NEW s \in Strands, WorkerDone(s) \/ WorkerExit(s) \/ (s = Main /\ EndRun)
  PROVE  Moves(s)
<1>t. /\ pc \in [Strands -> Labels] /\ op \in [Strands -> Operations] /\ reply \in [Strands -> Replies]
      /\ budget \in [Strands -> 0..MaxOps] /\ MaxOps \in Nat /\ remaining \in [Strands -> Nat]
      /\ boss \in [Strands -> Strands \cup {None}]
  BY ConstantsAssumption DEF IInv, TypeOK, StrandsOK, TasksOK
<1>1. CASE WorkerDone(s)
  <2>1. /\ boss[s] \in Strands /\ s \in WorkersOf(boss[s])
    BY <1>t, <1>1 DEF WorkerDone, WorkersOf
  <2>2. WorkersOf(boss[s]) \in SUBSET Strands
    BY DEF WorkersOf
  <2>3. remaining[boss[s]] > 0
    BY <1>t, <2>1, <2>2, Finite DEF IInv, CountersExact
  <2> QED
    BY <1>t, <1>1, <2>1, <2>3 DEF WorkerDone, Goto, Moves, Left, Answerable, ctxVars, chanVars
<1>2. CASE WorkerExit(s)
  <2> DEFINE resumed == IF pc[s] = "quitLast" THEN parked \cap {boss[s]} ELSE {}
             r == (IF runnable > 0 THEN runnable - 1 ELSE 0) + Cardinality(resumed)
  <2>1. ClaimDeadlocked(r, waiters, awaiters, reply) /\ parked' = parked \ resumed
    BY <1>2 DEF WorkerExit
  <2>2. \A x \in Strands :
          /\ x \in awaiters => x \in awaiters' \/ reply'[x].out = "deadlock"
          /\ reply[x].out = "deadlock" => reply'[x].out = "deadlock"
    BY <2>1, ClaimAnswers
  <2>3. \A x \in parked : x \in parked' \/ remaining[x] = 0
    BY <2>1 DEF Leases
  <2> HIDE DEF r, resumed
  <2> QED
    BY <1>t, <1>2, <2>2, <2>3 DEF WorkerExit, Goto, Moves, Left, Answerable, taskVars, chanVars
<1>3. CASE s = Main /\ EndRun
  <2>1. \A x \in Strands :
          /\ x \in awaiters => x \in awaiters' \/ reply'[x].out = "deadlock"
          /\ reply[x].out = "deadlock" => reply'[x].out = "deadlock"
    BY <1>3, ClaimAnswers DEF EndRun
  <2> QED
    BY <1>t, <1>3, <2>1 DEF EndRun, Goto, Moves, Left, Answerable, taskVars, chanVars
<1> QED
  BY <1>1, <1>2, <1>3

LEMMA SpawnKeeps ==
  ASSUME IInv, LInv, Leases, NEW s \in Strands, NEW t \in Pool, Spawn(s, t)
  PROVE  /\ Leases' /\ UNCHANGED runs
         /\ \A x \in Strands : Left(x)' <= Left(x)
         /\ \E x \in Strands : Left(x)' < Left(x)
<1>t. /\ pc \in [Strands -> Labels] /\ budget \in [Strands -> 0..MaxOps] /\ MaxOps \in Nat
      /\ t \in Strands /\ t # Main /\ s # t
  BY ConstantsAssumption DEF IInv, TypeOK, StrandsOK, Spawn, Strands
<1>1. /\ \A x \in Strands \ {t} : pc'[x] = pc[x]
      /\ pc[t] = "off" /\ pc'[t] = "run"
      /\ t \in tasks' /\ tasks \subseteq tasks'
      /\ UNCHANGED <<awaiters, op, completed, reply, parked, remaining, boss, runs>>
      /\ budget' = [budget EXCEPT ![s] = budget[s] - 1] /\ pc[s] = "run" /\ budget[s] > 0
  BY <1>t DEF Spawn
<1>2. /\ \A x \in Strands : pc'[x] = "await" => Answerable(x)'
      /\ \A x \in Strands : pc'[x] = "pmap" => x \in parked' \/ remaining'[x] = 0
      /\ \A w \in Strands : pc'[w] = "quitLast" => remaining'[boss'[w]] = 0
  BY <1>1 DEF Leases, Answerable
<1>3. /\ \A p \in Pool : pc'[p] \notin {"off", "dead"} => p \in tasks' \/ boss'[p] # None
      /\ Descends'
  BY <1>1 DEF Leases, Descends, Strands
<1>4. Left(t)' <= Left(t) /\ Left(s)' < Left(s)
  BY <1>t, <1>1 DEF Left
<1>5. \A x \in Strands \ {s, t} : Left(x)' = Left(x)
  BY <1>t, <1>1 DEF Left
<1>6. \A x \in Strands : Left(x) \in Nat
  BY LeftIsNat
<1>7. Left(s)' <= Left(s)
  BY <1>t, <1>1 DEF Left
<1>8. \A x \in Strands : Left(x)' <= Left(x)
  BY <1>4, <1>5, <1>6, <1>7
<1>9. Leases'
  BY <1>2, <1>3 DEF Leases
<1> QED
  BY <1>1, <1>4, <1>8, <1>9

LEMMA PmapKeeps ==
  ASSUME IInv, LInv, Leases, NEW s \in Strands, NEW W \in SUBSET Pool, Pmap(s, W)
  PROVE  /\ Leases' /\ UNCHANGED runs
         /\ \A x \in Strands : Left(x)' <= Left(x)
         /\ \E x \in Strands : Left(x)' < Left(x)
<1>t. /\ pc \in [Strands -> Labels] /\ budget \in [Strands -> 0..MaxOps] /\ MaxOps \in Nat
      /\ boss \in [Strands -> Strands \cup {None}] /\ remaining \in [Strands -> Nat]
      /\ W \subseteq Strands /\ Main \notin W /\ None \notin Strands /\ s \notin W
  BY ConstantsAssumption DEF IInv, TypeOK, StrandsOK, TasksOK, Pmap, Strands
<1>1. /\ \A x \in Strands : pc'[x] = IF x \in W THEN "run" ELSE IF x = s THEN "pmap" ELSE pc[x]
      /\ \A x \in Strands : boss'[x] = IF x \in W THEN s ELSE boss[x]
      /\ \A x \in Strands \ {s} : remaining'[x] = remaining[x]
      /\ \A x \in W : pc[x] = "off"
      /\ parked' = parked \cup {s} /\ pc[s] = "run" /\ budget[s] > 0
      /\ UNCHANGED <<awaiters, op, completed, reply, tasks, budget, runs>>
  BY <1>t DEF Pmap
<1>2. \A x \in Strands : boss[x] # None => pc[boss[x]] = "pmap"
  BY DEF IInv, Roles
<1>3. \A x \in Strands : pc'[x] = "await" => Answerable(x)'
  BY <1>1 DEF Leases, Answerable
<1>4. \A x \in Strands : pc'[x] = "pmap" => x \in parked' \/ remaining'[x] = 0
  BY <1>1 DEF Leases
<1>5. ASSUME NEW w \in Strands, pc'[w] = "quitLast" PROVE remaining'[boss'[w]] = 0
  <2>1. w \notin W /\ pc[w] = "quitLast" /\ boss'[w] = boss[w] /\ remaining[boss[w]] = 0
    BY <1>1, <1>5 DEF Leases
  <2>2. boss[w] \in Strands /\ boss[w] # s
    BY <1>t, <1>1, <1>2, <2>1 DEF IInv, Roles
  <2> QED
    BY <1>1, <2>1, <2>2
<1>6. \A p \in Pool : pc'[p] \notin {"off", "dead"} => p \in tasks' \/ boss'[p] # None
  <2>1. pc[s] \notin {"off", "dead"}
    BY <1>1
  <2> QED
    BY <1>t, <1>1, <2>1 DEF Leases, Strands
<1>7. ASSUME NEW X \in SUBSET Strands, X # {} PROVE \E x \in X : \A w \in X : boss'[w] # x
  <2>1. CASE X \cap W = {}
    <3>1. PICK x \in X : \A w \in X : boss[w] # x
      BY <1>7 DEF Leases, Descends
    <3> QED
      BY <1>1, <2>1, <3>1
  <2>2. CASE X \cap W # {}
    <3>1. PICK x \in X : x \in W
      BY <2>2
    <3>2. \A w \in Strands : boss[w] # x
      BY <1>t, <1>1, <1>2, <3>1
    <3> QED
      BY <1>t, <1>1, <3>1, <3>2
  <2> QED
    BY <2>1, <2>2
<1>8. Left(s)' < Left(s) /\ \A x \in W : Left(x)' <= Left(x)
  BY <1>t, <1>1 DEF Left
<1>9. \A x \in Strands \ (W \cup {s}) : Left(x)' = Left(x)
  BY <1>t, <1>1 DEF Left
<1>10. \A x \in Strands : Left(x) \in Nat
  BY LeftIsNat
<1>11. Left(s)' <= Left(s)
  BY <1>t, <1>1 DEF Left
<1>12. \A x \in Strands : Left(x)' <= Left(x)
  BY <1>8, <1>9, <1>10, <1>11
<1>13. Descends'
  BY <1>7 DEF Descends
<1>14. Leases'
  BY <1>3, <1>4, <1>5, <1>6, <1>13 DEF Leases
<1> QED
  BY <1>1, <1>8, <1>12, <1>14

LEMMA PmapReturnKeeps ==
  ASSUME IInv, LInv, Leases, NEW s \in Strands, PmapReturn(s)
  PROVE  /\ Leases' /\ UNCHANGED runs
         /\ \A x \in Strands : Left(x)' <= Left(x)
         /\ \E x \in Strands : Left(x)' < Left(x)
<1>t. /\ pc \in [Strands -> Labels] /\ budget \in [Strands -> 0..MaxOps] /\ MaxOps \in Nat
      /\ boss \in [Strands -> Strands \cup {None}] /\ None \notin Strands
  BY ConstantsAssumption DEF IInv, TypeOK, StrandsOK, TasksOK, Strands
<1>1. /\ \A x \in Strands \ {s} : pc'[x] = pc[x]
      /\ pc[s] = "pmap" /\ pc'[s] = "run"
      /\ \A x \in Strands : boss'[x] = IF boss[x] = s THEN None ELSE boss[x]
      /\ \A x \in Strands : boss[x] = s => pc[x] = "dead"
      /\ \A x \in parked : x = s \/ x \in parked'
      /\ UNCHANGED <<awaiters, op, completed, reply, tasks, remaining, runs>>
      /\ budget' = [budget EXCEPT ![s] = budget[s] - 1] /\ budget[s] > 0
  BY <1>t DEF PmapReturn, Goto, IInv, Roles
<1>2. \A x \in Strands : pc'[x] = "await" => Answerable(x)'
  BY <1>1 DEF Leases, Answerable
<1>3. /\ \A x \in Strands : pc'[x] = "pmap" => x \in parked' \/ remaining'[x] = 0
      /\ \A w \in Strands : pc'[w] = "quitLast" => remaining'[boss'[w]] = 0
  BY <1>1 DEF Leases
<1>4. \A p \in Pool : pc'[p] \notin {"off", "dead"} => p \in tasks' \/ boss'[p] # None
  <2>1. boss[s] # s
    BY <1>1
  <2> QED
    BY <1>t, <1>1, <2>1 DEF Leases, Strands
<1>5. Descends'
  BY <1>t, <1>1 DEF Leases, Descends
<1>6. \A x \in Strands \ {s} : Left(x)' = Left(x)
  BY <1>t, <1>1 DEF Left
<1>7. Left(s)' < Left(s) /\ Left(s)' <= Left(s)
  <2>1. /\ pc[s] = "pmap" /\ pc'[s] = "run"
        /\ budget[s] \in Nat /\ budget'[s] = budget[s] - 1
    BY <1>t, <1>1
  <2>2. Left(s) = 6 * budget[s] /\ Left(s)' = 6 * budget'[s] + 3
    BY <2>1 DEF Left
  <2> QED
    BY <2>1, <2>2
<1>8. \A x \in Strands : Left(x) \in Nat
  BY LeftIsNat
<1>9. \A x \in Strands : Left(x)' <= Left(x)
  BY <1>6, <1>7, <1>8
<1>10. Leases'
  BY <1>2, <1>3, <1>4, <1>5 DEF Leases
<1> QED
  BY <1>1, <1>7, <1>9, <1>10

LEMMA LeasesNext ==
  ASSUME IInv, LInv, Leases, [Next]_vars
  PROVE  /\ Leases'
         /\ [\/ runs' = runs + 1 /\ runs < MaxRuns
             \/ /\ UNCHANGED runs
                /\ \A s \in Strands : Left(s)' <= Left(s) /\ Left(s) \in Nat
                /\ Walks \/ \E s \in Strands : Left(s)' < Left(s)]_vars
<1>1. CASE BeginRun
  <2>1. \A x \in Strands \ {Main} : pc'[x] = pc[x]
    BY <1>1 DEF BeginRun, Goto, IInv, TypeOK, StrandsOK
  <2>2. pc'[Main] = "run" /\ Main \in Strands /\ Main \notin Pool
    BY <1>1, ConstantsAssumption DEF BeginRun, Goto, IInv, TypeOK, StrandsOK, Strands
  <2>3. UNCHANGED <<awaiters, op, completed, reply, parked, remaining, boss, tasks>>
    BY <1>1 DEF BeginRun, taskVars
  <2>4. Leases'
    BY <2>1, <2>2, <2>3 DEF Leases, Descends, Answerable, Strands
  <2> QED
    BY <1>1, <2>4 DEF BeginRun
<1>2. CASE EndRun
  BY <1>2, WorkerMoves, MovesKeep, LeftIsNat DEF Strands
<1>3. ASSUME NEW s \in Strands, Step(s)
      PROVE  /\ Leases' /\ UNCHANGED runs
             /\ \A x \in Strands : Left(x)' <= Left(x)
             /\ Walks \/ \E x \in Strands : Left(x)' < Left(x)
  <2>1. CASE ChannelStep(s)
    BY <2>1, LocalMoves, MovesKeep
  <2>2. CASE TaskStep(s)
    <3>1. CASE \E t \in Pool : Spawn(s, t)
      BY <3>1, SpawnKeeps
    <3>2. CASE \A t \in Pool : ~Spawn(s, t)
      BY <2>2, <3>2, TaskMoves, MovesKeep
    <3> QED
      BY <3>1, <3>2
  <2>3. CASE PmapStep(s)
    BY <2>3, WorkerMoves, MovesKeep, PmapKeeps, PmapReturnKeeps DEF PmapStep
  <2> QED
    BY <1>3, <2>1, <2>2, <2>3 DEF Step
<1>4. CASE UNCHANGED vars
  <2>1. UNCHANGED <<pc, awaiters, op, completed, reply, parked, remaining, boss, tasks>>
    BY <1>4 DEF vars, ctxVars, taskVars, strandVars
  <2> QED
    BY <1>4, <2>1 DEF Leases, Descends, Answerable
<1> QED
  BY <1>1, <1>2, <1>3, <1>4, LeftIsNat DEF Next

LEMMA LeasesInductive == Spec => [](IInv /\ LInv /\ Leases)
<1>1. Init => Leases
  BY ConstantsAssumption DEF Init, Leases, Descends, Strands
<1>2. IInv /\ LInv /\ Leases /\ [Next]_vars => Leases'
  BY LeasesNext
<1> QED
  BY <1>1, <1>2, LinesInductive, PTL DEF Spec

(* Goroutines are never all stuck: while a strand is at work, one of them  *)
(* can step.  If the count is positive somebody counted can; if it is zero *)
(* and somebody waits, a caller on its way out of finishPending can; and   *)
(* the innermost of nested pmap calls can return.                          *)
THEOREM StrandsAreNeverStuck == Spec => []NeverStuck
<1>1. IInv /\ LInv /\ Leases => NeverStuck
  <2> SUFFICES ASSUME IInv, LInv, Leases, NEW s0 \in Strands, pc[s0] \notin {"off", "dead"},
                      \A s \in Strands : ~CanStep(s)
               PROVE  FALSE
    BY DEF NeverStuck
  <2>t. pc \in [Strands -> Labels]
    BY DEF IInv, TypeOK, StrandsOK
  <2>1. \A s \in Strands : pc[s] \in {"off", "dead", "wait", "await", "pmap"}
    <3>1. \A s \in Strands : pc[s] = "run" => s \in tasks \cup {Main} \/ boss[s] # None
      BY DEF Leases, Strands
    <3>2. \A s \in Strands : pc[s] = "enter" => op[s].kind \in {"send", "recv"}
      BY DEF LInv, Lines, CallsExact
    <3> QED
      BY <2>t, <3>1, <3>2 DEF CanStep, Labels
  <2>2. \A s \in Strands :
          /\ pc[s] = "wait" => s \in waiters
          /\ pc[s] = "await" => s \in awaiters
    BY DEF CanStep, LInv, Lines, CallsExact, InWait, Leases, Answerable
  <2>3. ASSUME NEW s \in Strands, pc[s] = "pmap"
        PROVE  s \in parked /\ \E w \in Strands : boss[w] = s /\ pc[w] \notin {"off", "dead"}
    <3>1. PICK w \in Strands : boss[w] = s /\ pc[w] # "dead"
      BY <2>3 DEF CanStep
    <3>2. s # None
      BY ConstantsAssumption
    <3>3. pc[w] # "off"
      BY <3>1, <3>2 DEF IInv, Roles
    <3>4. w \in WorkersOf(s) /\ WorkersOf(s) \in SUBSET Strands
      BY <2>1, <3>1 DEF WorkersOf
    <3>5. remaining[s] # 0
      BY <3>4, Finite DEF IInv, CountersExact
    <3> QED
      BY <2>3, <3>1, <3>3, <3>5 DEF Leases
  <2>4. Counted = {}
    BY <2>1, <2>2, <2>3 DEF Counted, Live, Blocked
  <2>5. runnable = 0
    BY <2>4, FS_EmptySet DEF IInv, RunnableExact
  <2>6. waiters \cup awaiters = {}
    <3>1. NoForgottenClaim
      BY LInvSuffices
    <3> QED
      BY <2>1, <2>5, <3>1 DEF NoForgottenClaim
  <2>7. \A s \in Strands : pc[s] \in {"off", "dead", "pmap"}
    BY <2>1, <2>2, <2>6
  <2> DEFINE Nested == {s \in Strands : pc[s] = "pmap"}
  <2>8. PICK x \in Nested : \A w \in Nested : boss[w] # x
    <3>1. Nested \in SUBSET Strands /\ s0 \in Nested
      BY <2>7
    <3> QED
      BY <3>1 DEF Leases, Descends
  <2> QED
    BY <2>3, <2>7, <2>8
<1> QED
  BY <1>1, LeasesInductive, PTL

(* ... and each step takes one of them nearer to its end, so that all of   *)
(* them end if they go on.                                                 *)
THEOREM StrandsRunOut == Spec => StepsRunOut
<1>1. IInv /\ LInv /\ Leases /\ [Next]_vars =>
        [\/ runs' = runs + 1 /\ runs < MaxRuns
         \/ /\ UNCHANGED runs
            /\ \A s \in Strands : Left(s)' <= Left(s) /\ Left(s) \in Nat
            /\ Walks \/ \E s \in Strands : Left(s)' < Left(s)]_vars
  BY LeasesNext
<1> QED
  BY <1>1, LeasesInductive, PTL DEF Spec, StepsRunOut
=============================================================================
