----------------------------- MODULE ProcessProofs -----------------------------
(***************************************************************************)
(* Proofs about Process, for any calls, budget, pipe size and queue, and   *)
(* whether or not the heir keeps stdin: its safety invariants, and that    *)
(* from the child's death on the reaper can go on and comes to an end.     *)
(***************************************************************************)
EXTENDS Process, Integers, TLAPS

-----------------------------------------------------------------------------
(* The inductive invariant.                                                *)

(* Whoever may end the child has left its mark before it does.             *)
Marks ==
  /\ killer = "marked" => killed
  /\ watcher = "hit" => limitHit
  /\ timer \in {"stored", "over"} => timedOut
  /\ once # "free" => overflow
  /\ \A s \in Streams : stream[s].at \in {"mark", "slay", "last"} => overflow
  /\ child = "killed" => killed \/ limitHit \/ overflow \/ timedOut

(* What only one of the two builtins has.                                  *)
Forms ==
  /\ Captured => /\ ~killed /\ killer = "idle" /\ stdin = "none"
                 /\ reaper \notin {"stdin", "job", "drain"}
                 /\ \A s \in Streams : stream[s].at # "mark"
  /\ Started => timer = "off" /\ ~timedOut /\ reaper \notin {"timer", "tree"}

(* What holds from one stage of the reaper on.                             *)
Stages ==
  /\ child = "none" <=> reaper \in {"new", "failed"}
  /\ child = "running" => reaper = "wait"
  /\ result = "none" <=> reaper \notin {"failed", "done"}
  /\ reaper = "new" => heir = "none" /\ jobObject = "none" /\ watcher = "off" /\ stdin = "none"
  /\ reaper = "failed" => heir = "none" /\ jobObject # "open" /\ stdin = "none"
  /\ reaper \in {"failed", "stdin", "job", "tree", "drain", "drains", "publish", "done"}
       => watcher \in {"off", "done"}
  /\ reaper \in {"job", "drain", "drains", "publish", "done"} => stdin # "open"
  /\ reaper \in {"drain", "drains", "publish", "done"} =>
       jobObject = "closed" /\ (Captured \/ mode.supervise => heir # "alive")
  /\ reaper \in {"publish", "done"} => AllDrained

(* A pipe is closed by its drain or by the end of the grace, and output is *)
(* dropped for one of three reasons.                                       *)
Drains ==
  \A s \in Streams :
    /\ stream[s].at = "off" <=> child = "none"
    /\ stream[s].at \in {"off", "read", "done"} => stream[s].got = 0
    /\ stream[s].at \in {"off", "done"} => ~stream[s].open /\ stream[s].pipe = 0
    /\ ~stream[s].open => stream[s].at \in {"off", "done"} \/ cut
    /\ stream[s].lost => cut \/ overflow \/ stream[s].at = "limit"

Verdict == result \in {"ok", "code"} => ~overflow /\ child # "killed"

IInv == ProcessTypeOK /\ BudgetExact /\ Marks /\ Forms /\ Stages /\ Drains /\ Verdict

-----------------------------------------------------------------------------
(* Facts used below.                                                       *)

LEMMA Bounds == Limit \in Nat /\ PipeSize \in Nat /\ MaxQueue \in Nat
  BY ProcessAssumption

(* A reservation stays within the room that is left, and is never more     *)
(* than what was asked for.                                                *)
LEMMA AllowedFits ==
  ASSUME NEW n \in Nat, used \in 0..Limit
  PROVE  Allowed(n) \in 0..n /\ used + Allowed(n) <= Limit
  BY Bounds DEF Allowed

LEMMA FormsOfCalls ==
  ASSUME mode \in Calls
  PROVE  /\ Started <=> ~Captured
         /\ Started => ~mode.timeout
         /\ Captured => ~mode.supervise /\ ~mode.stdin
  BY ProcessAssumption DEF Started, Captured

LEMMA InitStep == ASSUME ProcessInit PROVE IInv
<1> USE Bounds DEF ProcessInit, Streams
<1>1. ProcessTypeOK
  <2>1. stream \in [Streams -> StreamStates]
    BY DEF StreamStates
  <2>2. used \in 0..Limit /\ queue \in 0..MaxQueue
    OBVIOUS
  <2> HIDE DEF Streams
  <2> QED
    BY <2>1, <2>2, Zenon DEF ProcessTypeOK, Dead
<1>2. BudgetExact
  BY DEF BudgetExact, Kept
<1>3. Marks /\ Forms
  BY DEF Marks, Forms, Started
<1>4. Stages /\ Drains /\ Verdict
  BY DEF Stages, Drains, Verdict
<1> QED
  BY <1>1, <1>2, <1>3, <1>4 DEF IInv

-----------------------------------------------------------------------------
(* The actions that leave the pipes and the budget alone.                  *)

(* The child, its heir and the kernel.                                     *)
LEMMA OutsideStep ==
  ASSUME IInv,
         \/ Fork \/ ChildExits \/ HeirExits \/ Breach
         \/ Written \/ BrokenPipe
  PROVE  IInv'
<1> USE Bounds DEF IInv, ProcessTypeOK, BudgetExact, Kept, Marks, Forms, Stages,
      Drains, Verdict, Streams, Dead, Captured, Started, AllDrained,
      childVars, budgetVars, monitorVars, timerVars, killVars, stdinVars,
      reaperVars
<1>1. CASE Fork
  BY <1>1 DEF Fork
<1>2. CASE ChildExits
  BY <1>2 DEF ChildExits
<1>3. CASE HeirExits
  BY <1>3 DEF HeirExits
<1>4. CASE Breach
  BY <1>4 DEF Breach, Writers
<1>5. CASE Written
  BY <1>5 DEF Written, Readable
<1>6. CASE BrokenPipe
  BY <1>6 DEF BrokenPipe, Readable
<1> QED
  BY <1>1, <1>2, <1>3, <1>4, <1>5, <1>6

(* The callers of kill, send_stdin and close_stdin.                        *)
LEMMA CallerStep ==
  ASSUME IInv, MarkKilled \/ KillProc \/ Send \/ CloseInput
  PROVE  IInv'
<1> USE Bounds DEF IInv, ProcessTypeOK, BudgetExact, Kept, Marks, Forms, Stages,
      Drains, Verdict, Streams, Dead, Captured, Started, AllDrained,
      childVars, budgetVars, monitorVars, timerVars, killVars, stdinVars,
      reaperVars
<1>1. CASE MarkKilled
  BY <1>1 DEF MarkKilled, Exists
<1>2. CASE KillProc
  BY <1>2 DEF KillProc, TreeKilled
<1>3. CASE Send
  BY <1>3 DEF Send
<1>4. CASE CloseInput
  BY <1>4 DEF CloseInput
<1> QED
  BY <1>1, <1>2, <1>3, <1>4

(* The watcher.                                                            *)
LEMMA WatchStep ==
  ASSUME IInv, Notice \/ KillBreach \/ WatchEnds
  PROVE  IInv'
<1> USE Bounds DEF IInv, ProcessTypeOK, BudgetExact, Kept, Marks, Forms, Stages,
      Drains, Verdict, Streams, Dead, Captured, Started, AllDrained,
      childVars, budgetVars, monitorVars, timerVars, killVars, stdinVars,
      reaperVars
<1>1. CASE Notice
  BY <1>1 DEF Notice
<1>2. CASE KillBreach
  BY <1>2 DEF KillBreach, TreeKilled
<1>3. CASE WatchEnds
  BY <1>3 DEF WatchEnds
<1> QED
  BY <1>1, <1>2, <1>3

(* The timer.                                                              *)
LEMMA TimerStep ==
  ASSUME IInv, TimerExpires \/ StoreTimeout \/ KillTimeout
  PROVE  IInv'
<1> USE Bounds DEF IInv, ProcessTypeOK, BudgetExact, Kept, Marks, Forms, Stages,
      Drains, Verdict, Streams, Dead, Captured, Started, AllDrained,
      childVars, budgetVars, monitorVars, timerVars, killVars, stdinVars,
      reaperVars
<1>1. CASE TimerExpires
  BY <1>1 DEF TimerExpires
<1>2. CASE StoreTimeout
  BY <1>2 DEF StoreTimeout
<1>3. CASE KillTimeout
  BY <1>3 DEF KillTimeout, TreeKilled
<1> QED
  BY <1>1, <1>2, <1>3

(* The reaper, but for the end of the grace.                               *)
LEMMA ReapStep ==
  ASSUME IInv,
         \/ StartFails \/ ReapExit \/ StopTimer \/ StopMonitor \/ MonitorStopped
         \/ CloseStdin \/ CloseJob \/ EndTree \/ Drained \/ Publish
  PROVE  IInv'
<1> USE Bounds DEF IInv, ProcessTypeOK, BudgetExact, Kept, Marks, Forms, Stages,
      Drains, Verdict, Streams, Dead, Captured, Started, AllDrained,
      childVars, budgetVars, monitorVars, timerVars, killVars, stdinVars,
      reaperVars
<1>1. CASE StartFails
  BY <1>1 DEF StartFails
<1>2. CASE ReapExit
  BY <1>2 DEF ReapExit
<1>3. CASE StopTimer
  BY <1>3 DEF StopTimer
<1>4. CASE StopMonitor
  BY <1>4 DEF StopMonitor
<1>5. CASE MonitorStopped
  BY <1>5 DEF MonitorStopped
<1>6. CASE CloseStdin
  BY <1>6 DEF CloseStdin
<1>7. CASE CloseJob
  BY <1>7 DEF CloseJob
<1>8. CASE EndTree
  BY <1>8, FormsOfCalls DEF EndTree
<1>9. CASE Drained
  BY <1>9 DEF Drained
<1>10. CASE Publish
  BY <1>10, FormsOfCalls DEF Publish, StartOutcome, CaptureOutcome, OwnExit
<1> QED
  BY <1>1, <1>2, <1>3, <1>4, <1>5, <1>6, <1>7, <1>8, <1>9, <1>10

-----------------------------------------------------------------------------
(* The drains and their readers.                                           *)

(* Output is taken from the pipe; the drain had nothing in hand.           *)
LEMMA TakeStep ==
  ASSUME IInv, NEW s \in Streams, Take(s)
  PROVE  IInv'
<1> USE Bounds DEF IInv, Take, Allowed, ProcessTypeOK, StreamStates, Streams, Dead,
      Captured, Started, AllDrained, childVars, budgetVars, monitorVars,
      timerVars, killVars, stdinVars, reaperVars
<1>1. ProcessTypeOK'
  OBVIOUS
<1>2. BudgetExact'
  <2>1. PICK n \in 1..stream[s].pipe :
          /\ stream'[s].got = Allowed(n) /\ stream'[s].buf = stream[s].buf
          /\ used' = used + Allowed(n)
    OBVIOUS
  <2>2. Allowed(n) \in Nat /\ used + Allowed(n) <= Limit
    BY <2>1, AllowedFits
  <2>3. stream[s].got = 0
    BY DEF Drains
  <2>4. \A t \in Streams : t # s => stream'[t] = stream[t]
    OBVIOUS
  <2>5. \A t \in Streams : stream[t].buf \in Nat /\ stream[t].got \in Nat
    OBVIOUS
  <2> HIDE DEF Take, Allowed
  <2> QED
    BY <2>1, <2>2, <2>3, <2>4, <2>5 DEF BudgetExact, Kept
<1>3. Marks'
  BY DEF Marks, Drains
<1>4. Forms'
  BY DEF Forms
<1>5. Stages'
  BY DEF Stages, Drains
<1>6. Drains'
  <2>1. PICK n \in 1..stream[s].pipe :
          /\ stream' = [stream EXCEPT ![s] = stream'[s]] /\ stream'[s].at \in {"limit", "keep"}
          /\ stream'[s].open = stream[s].open
          /\ stream'[s].lost => stream[s].lost \/ stream'[s].at = "limit"
    OBVIOUS
  <2>2. stream[s].at = "read" /\ stream[s].open /\ UNCHANGED <<child, cut, overflow>>
    OBVIOUS
  <2>3. stream \in [Streams -> StreamStates]
    OBVIOUS
  <2>4. Drains
    OBVIOUS
  <2> HIDE DEF Take, Allowed, IInv, ProcessTypeOK, StreamStates, Streams
  <2> QED
    BY <2>1, <2>2, <2>3, <2>4 DEF Drains
<1>7. Verdict'
  BY DEF Verdict, Stages, Drains
<1> HIDE DEF Take, Allowed, ProcessTypeOK
<1> QED
  BY <1>1, <1>2, <1>3, <1>4, <1>5, <1>6, <1>7

(* Exceeding the budget leaves the mark first.                             *)
LEMMA ExceedStep ==
  ASSUME IInv, NEW s \in Streams, Exceed(s)
  PROVE  IInv'
<1> USE Bounds DEF IInv, Exceed, ProcessTypeOK, StreamStates, Streams, Dead,
      Captured, Started, AllDrained, childVars, budgetVars, monitorVars,
      timerVars, killVars, stdinVars, reaperVars
<1>1. ProcessTypeOK'
  OBVIOUS
<1>2. BudgetExact'
  BY DEF BudgetExact, Kept
<1>3. Marks'
  BY DEF Marks, Drains
<1>4. Forms'
  BY DEF Forms
<1>5. Stages'
  BY DEF Stages, Drains
<1>6. Drains'
  BY DEF Drains, Stages, Marks
<1>7. Verdict'
  BY DEF Verdict, Stages, Drains
<1> QED
  BY <1>1, <1>2, <1>3, <1>4, <1>5, <1>6, <1>7

(* A second drain finds the mark.                                          *)
LEMMA ExceedAgainStep ==
  ASSUME IInv, NEW s \in Streams, ExceedAgain(s)
  PROVE  IInv'
<1> USE Bounds DEF IInv, ExceedAgain, ProcessTypeOK, StreamStates, Streams, Dead,
      Captured, Started, AllDrained, childVars, budgetVars, monitorVars,
      timerVars, killVars, stdinVars, reaperVars
<1>1. ProcessTypeOK'
  OBVIOUS
<1>2. BudgetExact'
  BY DEF BudgetExact, Kept
<1>3. Marks'
  BY DEF Marks, Drains
<1>4. Forms'
  BY DEF Forms
<1>5. Stages'
  BY DEF Stages, Drains
<1>6. Drains'
  BY DEF Drains, Stages, Marks
<1>7. Verdict'
  BY DEF Verdict, Stages, Drains
<1> QED
  BY <1>1, <1>2, <1>3, <1>4, <1>5, <1>6, <1>7

LEMMA MarkOverflowStep ==
  ASSUME IInv, NEW s \in Streams, MarkOverflow(s)
  PROVE  IInv'
<1> USE Bounds DEF IInv, MarkOverflow, ProcessTypeOK, StreamStates, Streams, Dead,
      Captured, Started, AllDrained, childVars, budgetVars, monitorVars,
      timerVars, killVars, stdinVars, reaperVars
<1>1. ProcessTypeOK'
  OBVIOUS
<1>2. BudgetExact'
  BY DEF BudgetExact, Kept
<1>3. Marks'
  BY DEF Marks, Drains
<1>4. Forms'
  BY DEF Forms
<1>5. Stages'
  BY DEF Stages, Drains
<1>6. Drains'
  BY DEF Drains, Stages, Marks
<1>7. Verdict'
  BY DEF Verdict, Stages, Drains
<1> QED
  BY <1>1, <1>2, <1>3, <1>4, <1>5, <1>6, <1>7

(* The child is killed behind the mark.                                    *)
LEMMA KillOverflowStep ==
  ASSUME IInv, NEW s \in Streams, KillOverflow(s)
  PROVE  IInv'
<1> USE Bounds DEF IInv, KillOverflow, TreeKilled, ProcessTypeOK, StreamStates,
      Streams, Dead, Captured, Started, AllDrained, childVars, budgetVars,
      monitorVars, timerVars, killVars, stdinVars, reaperVars
<1>1. ProcessTypeOK'
  OBVIOUS
<1>2. BudgetExact'
  BY DEF BudgetExact, Kept
<1>3. Marks'
  BY DEF Marks, Drains
<1>4. Forms'
  BY DEF Forms
<1>5. Stages'
  BY DEF Stages, Drains
<1>6. Drains'
  BY DEF Drains, Stages, Marks
<1>7. Verdict'
  BY DEF Verdict, Stages, Drains
<1> QED
  BY <1>1, <1>2, <1>3, <1>4, <1>5, <1>6, <1>7

LEMMA KeepStep ==
  ASSUME IInv, NEW s \in Streams, Keep(s)
  PROVE  IInv'
<1> USE Bounds DEF IInv, Keep, ProcessTypeOK, StreamStates, Streams, Dead, Captured,
      Started, AllDrained, childVars, budgetVars, monitorVars, timerVars,
      killVars, stdinVars, reaperVars
<1>1. ProcessTypeOK'
  OBVIOUS
<1>2. BudgetExact'
  BY DEF BudgetExact, Kept
<1>3. Marks'
  BY DEF Marks, Drains
<1>4. Forms'
  BY DEF Forms
<1>5. Stages'
  BY DEF Stages, Drains
<1>6. Drains'
  BY DEF Drains, Stages, Marks
<1>7. Verdict'
  <2>1. UNCHANGED <<result, overflow, child>> /\ Verdict
    OBVIOUS
  <2> HIDE DEF Keep, IInv, ProcessTypeOK
  <2> QED
    BY <2>1 DEF Verdict
<1> QED
  BY <1>1, <1>2, <1>3, <1>4, <1>5, <1>6, <1>7

\* What a drain that ends leaves of its stream.
LEMMA Finished ==
  ASSUME stream \in [Streams -> StreamStates], NEW s \in Streams, Finish(s)
  PROVE  /\ stream' = [stream EXCEPT ![s] = stream'[s]]
         /\ stream'[s] \in [at : {"done"}, open : BOOLEAN, pipe : {0}, got : {0},
                            buf : {stream[s].buf + stream[s].got}, lost : BOOLEAN]
         /\ stream'[s].at = "done" /\ stream'[s].open = FALSE
         /\ stream'[s].pipe = 0 /\ stream'[s].got = 0
         /\ stream'[s].buf = stream[s].buf + stream[s].got
         /\ stream'[s].lost <=> (stream[s].lost \/ stream[s].pipe > 0)
         /\ AtEnd(s)
         /\ UNCHANGED <<mode, childVars, budgetVars, monitorVars, timerVars, killVars,
                       stdinVars, reaperVars>>
<1>1. AtEnd(s) /\ UNCHANGED <<mode, childVars, budgetVars, monitorVars, timerVars, killVars,
                            stdinVars, reaperVars>>
  BY DEF Finish
<1>2. stream' = [stream EXCEPT ![s].buf = @ + stream[s].got, ![s].got = 0,
                               ![s].lost = @ \/ stream[s].pipe > 0, ![s].pipe = 0,
                               ![s].open = FALSE, ![s].at = "done"]
  BY DEF Finish
<1>3. stream[s] \in StreamStates
  OBVIOUS
<1>4. stream' = [stream EXCEPT ![s] = stream'[s]]
  BY <1>2
<1>5. stream'[s].at = "done" /\ stream'[s].open = FALSE /\ stream'[s].pipe = 0 /\ stream'[s].got = 0
  BY <1>2, <1>3 DEF StreamStates
<1>6. stream'[s].buf = stream[s].buf + stream[s].got
  BY <1>2, <1>3 DEF StreamStates
<1>7. stream'[s].lost <=> (stream[s].lost \/ stream[s].pipe > 0)
  BY <1>2, <1>3 DEF StreamStates
<1>8. stream'[s] \in [at : {"done"}, open : BOOLEAN, pipe : {0}, got : {0},
                     buf : {stream[s].buf + stream[s].got}, lost : BOOLEAN]
  BY <1>2, <1>3 DEF StreamStates
<1> QED
  BY <1>1, <1>4, <1>5, <1>6, <1>7, <1>8

(* What a drain leaves in its pipe was cut off or was over the budget.     *)
LEMMA FinishStep ==
  ASSUME IInv, NEW s \in Streams, Finish(s)
  PROVE  IInv'
<1>0. /\ AtEnd(s)
      /\ UNCHANGED <<mode, childVars, budgetVars, monitorVars, timerVars, killVars,
                    stdinVars, reaperVars>>
  BY Finished DEF IInv, ProcessTypeOK
<1>a. /\ stream \in [Streams -> StreamStates] /\ stream[s] \in StreamStates
      /\ stream' = [stream EXCEPT ![s] = stream'[s]]
      /\ \A t \in Streams : t # s => stream'[t] = stream[t]
  BY Finished DEF IInv, ProcessTypeOK
<1>b. \A t \in Streams : stream[t].got \in Nat /\ stream[t].buf \in Nat /\ stream[t].pipe \in Nat
  BY <1>a, Bounds DEF StreamStates
<1>c. \A x, y, z, w \in Nat : (x + y) + (z + w) <= Limit =>
        y + x \in 0..Limit /\ w + z \in 0..Limit
  BY Bounds
<1>d. stream[s].buf + stream[s].got \in 0..Limit
  <2>1. (stream["stdout"].got + stream["stdout"].buf) + (stream["stderr"].got + stream["stderr"].buf) <= Limit
    BY DEF IInv, BudgetExact, Kept
  <2>2. "stdout" \in Streams /\ "stderr" \in Streams /\ s \in {"stdout", "stderr"}
    BY DEF Streams
  <2> QED
    BY <1>b, <1>c, <2>1, <2>2
<1>e. stream'[s] \in StreamStates
  <2> DEFINE b == stream[s].buf + stream[s].got
  <2>1. stream'[s] \in [at : {"done"}, open : BOOLEAN, pipe : {0}, got : {0}, buf : {b}, lost : BOOLEAN]
    BY <1>a, Finished
  <2>2. b \in 0..Limit
    BY <1>d
  <2> HIDE DEF b
  <2> QED
    BY <2>1, <2>2, Bounds DEF StreamStates
<1>f. /\ stream'[s].at = "done" /\ stream'[s].open = FALSE
      /\ stream'[s].pipe = 0 /\ stream'[s].got = 0
      /\ stream'[s].buf = stream[s].buf + stream[s].got
      /\ stream'[s].lost <=> (stream[s].lost \/ stream[s].pipe > 0)
  BY <1>a, Finished
<1>1. ProcessTypeOK'
  BY <1>0, <1>a, <1>e DEF IInv, ProcessTypeOK, childVars, budgetVars, monitorVars, timerVars, killVars,
     stdinVars, reaperVars
<1>2. BudgetExact'
  BY <1>0, <1>a, <1>b, <1>f DEF IInv, BudgetExact, Kept, Streams, budgetVars
<1>3. Marks'
  BY <1>0, <1>a, <1>f DEF IInv, Marks, childVars, budgetVars, monitorVars, timerVars, killVars
<1>4. Forms'
  BY <1>0, <1>a, <1>f DEF IInv, Forms, Captured, Started, childVars, monitorVars, timerVars, killVars,
     stdinVars, reaperVars
<1>5. Stages'
  BY <1>0, <1>a, <1>f DEF IInv, Stages, AllDrained, Captured, Started, childVars, monitorVars, stdinVars,
     reaperVars
<1>6. Drains'
  <2>1. stream[s].at # "off" /\ child # "none" /\ UNCHANGED <<child, cut, overflow>>
    BY <1>0 DEF IInv, Drains, AtEnd, childVars, budgetVars, reaperVars
  <2>2. stream[s].pipe > 0 => cut \/ overflow
    BY <1>0, <1>b DEF IInv, Drains, Marks, AtEnd
  <2>3. stream[s].lost => cut \/ overflow
    BY <1>0 DEF IInv, Drains, Marks, AtEnd
  <2>4. stream'[s].lost => cut' \/ overflow'
    BY <1>a, <1>f, <2>1, <2>2, <2>3
  <2> QED
    BY <1>a, <1>f, <2>1, <2>4 DEF IInv, Drains
<1>7. Verdict'
  BY <1>0 DEF IInv, Verdict, childVars, budgetVars, reaperVars
<1> QED
  BY <1>1, <1>2, <1>3, <1>4, <1>5, <1>6, <1>7 DEF IInv

(* Readers give back what the budget counted.                              *)
LEMMA RecvStep ==
  ASSUME IInv, NEW s \in Streams, Recv(s)
  PROVE  IInv'
<1> USE Bounds DEF IInv, Recv, ProcessTypeOK, StreamStates, Streams, Dead, Captured,
      Started, AllDrained, childVars, budgetVars, monitorVars, timerVars,
      killVars, stdinVars, reaperVars
<1>1. ProcessTypeOK'
  BY DEF BudgetExact, Kept
<1>2. BudgetExact'
  BY DEF BudgetExact, Kept
<1>3. Marks'
  BY DEF Marks, Drains
<1>4. Forms'
  BY DEF Forms
<1>5. Stages'
  BY DEF Stages, Drains
<1>6. Drains'
  BY DEF Drains, Stages, Marks
<1>7. Verdict'
  BY DEF Verdict, Stages, Drains
<1> QED
  BY <1>1, <1>2, <1>3, <1>4, <1>5, <1>6, <1>7

LEMMA WritesStep ==
  ASSUME IInv, NEW s \in Streams, Writes(s)
  PROVE  IInv'
<1> USE Bounds DEF IInv, Writes, Writers, ProcessTypeOK, StreamStates, Streams,
      Dead, Captured, Started, AllDrained, childVars, budgetVars,
      monitorVars, timerVars, killVars, stdinVars, reaperVars
<1>1. ProcessTypeOK'
  OBVIOUS
<1>2. BudgetExact'
  BY DEF BudgetExact, Kept
<1>3. Marks'
  BY DEF Marks, Drains
<1>4. Forms'
  BY DEF Forms
<1>5. Stages'
  BY DEF Stages, Drains
<1>6. Drains'
  BY DEF Drains, Stages, Marks
<1>7. Verdict'
  BY DEF Verdict, Stages, Drains
<1> QED
  BY <1>1, <1>2, <1>3, <1>4, <1>5, <1>6, <1>7

\* A drain that starts, or whose pipe is cut off.
LEMMA Reopened ==
  ASSUME NEW d \in StreamStates, NEW b \in BOOLEAN
  PROVE  /\ [d EXCEPT !.at = "read", !.open = b] \in StreamStates
         /\ [d EXCEPT !.open = b] \in StreamStates
         /\ [d EXCEPT !.at = "read", !.open = b].at = "read"
         /\ [d EXCEPT !.at = "read", !.open = b].open = b
         /\ [d EXCEPT !.at = "read", !.open = b].got = d.got
         /\ [d EXCEPT !.at = "read", !.open = b].lost = d.lost
  BY DEF StreamStates

LEMMA StartStep ==
  ASSUME IInv, Start
  PROVE  IInv'
<1> USE Bounds DEF IInv, Start, ProcessTypeOK, StreamStates, Streams, Dead,
      Captured, Started, AllDrained, childVars, budgetVars, monitorVars,
      timerVars, killVars, stdinVars, reaperVars
<1>1. ProcessTypeOK'
  <2>1. stream' \in [Streams -> StreamStates]
    <3>1. /\ stream \in [Streams -> StreamStates]
          /\ stream' = [s \in Streams |-> [stream[s] EXCEPT !.at = "read", !.open = TRUE]]
      OBVIOUS
    <3> HIDE DEF IInv, Start, ProcessTypeOK, StreamStates, Streams
    <3> QED
      BY <3>1, Reopened
  <2> QED
    BY <2>1, FormsOfCalls
<1>2. BudgetExact'
  BY DEF BudgetExact, Kept
<1>3. Marks'
  BY DEF Marks, Drains
<1>4. Forms'
  BY FormsOfCalls DEF Forms, Stages
<1>5. Stages'
  BY DEF Stages, Drains
<1>6. Drains'
  <2>1. /\ child' = "running" /\ cut' = cut /\ overflow' = overflow
        /\ stream' = [s \in Streams |-> [stream[s] EXCEPT !.at = "read", !.open = TRUE]]
    OBVIOUS
  <2>2. child = "none"
    BY DEF Stages
  <2>3. \A s \in Streams : stream[s].at = "off" /\ stream[s] \in StreamStates
    BY <2>2 DEF Drains
  <2>4. ASSUME NEW s \in Streams
        PROVE  /\ stream'[s].at = "read" /\ stream'[s].open = TRUE
               /\ stream'[s].got = stream[s].got /\ stream'[s].lost = stream[s].lost
    <3>1. stream'[s] = [stream[s] EXCEPT !.at = "read", !.open = TRUE]
      BY <2>1, <2>4
    <3>2. stream[s] \in StreamStates
      BY <2>3, <2>4
    <3> HIDE DEF IInv, Start, ProcessTypeOK, StreamStates, Streams
    <3> QED
      BY <3>1, <3>2, Reopened
  <2> HIDE DEF Start
  <2> QED
    BY <2>1, <2>3, <2>4 DEF Drains
<1>7. Verdict'
  BY DEF Verdict, Stages, Drains
<1> QED
  BY <1>1, <1>2, <1>3, <1>4, <1>5, <1>6, <1>7

LEMMA GraceOverStep ==
  ASSUME IInv, GraceOver
  PROVE  IInv'
<1> USE Bounds DEF IInv, GraceOver, ProcessTypeOK, StreamStates, Streams, Dead,
      Captured, Started, AllDrained, childVars, budgetVars, monitorVars,
      timerVars, killVars, stdinVars, reaperVars
<1>1. ProcessTypeOK'
  <2>1. stream' \in [Streams -> StreamStates]
    <3>1. /\ stream \in [Streams -> StreamStates]
          /\ stream' = [s \in Streams |-> [stream[s] EXCEPT !.open = FALSE]]
      OBVIOUS
    <3> HIDE DEF IInv, GraceOver, ProcessTypeOK, StreamStates, Streams
    <3> QED
      BY <3>1, Reopened
  <2> QED
    BY <2>1, FormsOfCalls
<1>2. BudgetExact'
  BY DEF BudgetExact, Kept
<1>3. Marks'
  BY DEF Marks, Drains
<1>4. Forms'
  BY DEF Forms
<1>5. Stages'
  BY DEF Stages, Drains
<1>6. Drains'
  BY DEF Drains, Stages, Marks
<1>7. Verdict'
  BY DEF Verdict, Stages, Drains
<1> QED
  BY <1>1, <1>2, <1>3, <1>4, <1>5, <1>6, <1>7

-----------------------------------------------------------------------------
(* The theorems.                                                           *)

LEMMA NextStep == ASSUME IInv, [ProcessNext]_processVars PROVE IInv'
<1>1. CASE ProcessNext
  <2>1. ASSUME NEW s \in Streams, Drain(s) \/ Recv(s) \/ Writes(s)
        PROVE  IInv'
    BY <2>1, TakeStep, ExceedStep, ExceedAgainStep, MarkOverflowStep,
       KillOverflowStep, KeepStep, FinishStep, RecvStep, WritesStep DEF Drain
  <2>2. CASE Outside \/ Callers
    BY <2>1, <2>2, OutsideStep, CallerStep DEF Outside, Callers
  <2>3. CASE Watch \/ TimerExpires \/ Expire
    BY <2>3, WatchStep, TimerStep DEF Watch, Expire
  <2>4. CASE Start \/ StartFails \/ Reap
    BY <2>4, StartStep, GraceOverStep, ReapStep DEF Reap
  <2>5. CASE KillProc \/ BrokenPipe
    BY <2>5, CallerStep, OutsideStep
  <2> QED
    BY <1>1, <2>1, <2>2, <2>3, <2>4, <2>5 DEF ProcessNext
<1>2. CASE UNCHANGED processVars
  BY <1>2 DEF processVars, IInv, ProcessTypeOK, BudgetExact, Kept, Marks, Forms, Stages,
     Drains, Verdict, Streams, Dead, Captured, Started, AllDrained,
     childVars, budgetVars, monitorVars, timerVars, killVars, stdinVars,
     reaperVars
<1> QED
  BY <1>1, <1>2

(* The invariant holds for every way to call start and capture.            *)
THEOREM Inductive == ProcessSpec => []IInv
<1>1. ProcessInit => IInv
  BY InitStep
<1>2. IInv /\ [ProcessNext]_processVars => IInv'
  BY NextStep
<1> QED
  BY <1>1, <1>2, PTL DEF ProcessSpec

(* Every variable keeps its type: no counter below zero or over its bound. *)
THEOREM TypeCorrect == ProcessSpec => []ProcessTypeOK
<1>1. IInv => ProcessTypeOK
  BY DEF IInv
<1> QED
  BY <1>1, Inductive, PTL

(* Drains that reserve and readers that release keep the budget exact.     *)
THEOREM BudgetIsExact == ProcessSpec => []BudgetExact
<1>1. IInv => BudgetExact
  BY DEF IInv
<1> QED
  BY <1>1, Inductive, PTL

(* An exit of its own comes with all of the child's output, unless writers *)
(* outlived the grace: when the result is out both drains are done, and    *)
(* what a drain dropped was over the budget, which the result would say.   *)
THEOREM OutputIsComplete == ProcessSpec => []NothingLost
<1>1. IInv => NothingLost
  <2> SUFFICES ASSUME IInv, result \in {"ok", "code"}, ~cut, NEW s \in Streams
               PROVE  stream[s].pipe = 0 /\ stream[s].got = 0 /\ ~stream[s].lost
    BY DEF NothingLost
  <2>1. reaper \in {"failed", "done"}
    BY DEF IInv, Stages
  <2>2. stream[s].at \in {"off", "done"}
    BY <2>1 DEF IInv, Stages, Drains, AllDrained
  <2>3. ~overflow
    BY DEF IInv, Verdict
  <2> QED
    BY <2>2, <2>3 DEF IInv, Drains
<1> QED
  BY <1>1, Inductive, PTL

(* A child that drang ended is never reported as one that ended by itself. *)
THEOREM CauseIsTold == ProcessSpec => []TellsTheCause
<1>1. IInv => TellsTheCause
  BY DEF IInv, Verdict, TellsTheCause
<1> QED
  BY <1>1, Inductive, PTL

(* What a result, or a failed start, leaves behind.                        *)
THEOREM EverythingIsReleased == ProcessSpec => []Released
<1>1. IInv => Released
  <2> SUFFICES ASSUME IInv, result # "none"
               PROVE  Released
    BY DEF Released
  <2>1. reaper \in {"failed", "done"}
    BY DEF IInv, Stages
  <2>2. CASE reaper = "failed"
    BY <2>2 DEF IInv, Stages, Drains, Released
  <2>3. CASE reaper = "done"
    BY <2>3 DEF IInv, Stages, Drains, AllDrained, Released
  <2> QED
    BY <2>1, <2>2, <2>3
<1> QED
  BY <1>1, Inductive, PTL

-----------------------------------------------------------------------------
(* The exit of the child is dealt with to the end: the argument for        *)
(* ExitIsPublished, short of the fairness it assumes.                      *)

(* Whom the reaper waits for has been told, or has nobody left to wait for.*)
Awaits ==
  /\ reaper = "new" => ~stopping
  /\ reaper \in {"join", "stdin", "job", "tree", "drain", "drains", "publish", "done"} => stopping
  /\ once = "busy" => \E s \in Streams : stream[s].at \in {"mark", "slay"}
  /\ reaper = "drains" => heir # "alive" \/ \A s \in Streams : ~stream[s].open

(* A drain touches its own stream only, and nothing of the reaper.         *)
LEMMA DrainFrame ==
  ASSUME stream \in [Streams -> StreamStates], NEW s \in Streams, Drain(s)
  PROVE  /\ UNCHANGED <<reaper, queue, watcher, stopping>>
         /\ \A t \in Streams \ {s} : stream'[t] = stream[t]
<1>1. CASE Take(s)
  BY <1>1 DEF Take, monitorVars, reaperVars
<1>2. CASE Exceed(s)
  BY <1>2 DEF Exceed, monitorVars, reaperVars
<1>3. CASE ExceedAgain(s)
  BY <1>3 DEF ExceedAgain, monitorVars, reaperVars
<1>4. CASE MarkOverflow(s)
  BY <1>4 DEF MarkOverflow, monitorVars, reaperVars
<1>5. CASE KillOverflow(s)
  BY <1>5 DEF KillOverflow, monitorVars, reaperVars
<1>6. CASE Keep(s)
  BY <1>6 DEF Keep, monitorVars, reaperVars
<1>7. CASE Finish(s)
  BY <1>7 DEF Finish, monitorVars, reaperVars
<1> QED
  BY <1>1, <1>2, <1>3, <1>4, <1>5, <1>6, <1>7 DEF Drain

(* Neither do the child, its heir and the callers.                         *)
LEMMA OutsideFrame ==
  ASSUME Outside \/ Callers
  PROVE  UNCHANGED <<reaper, watcher, stopping>> /\ (stopping => queue' = queue)
<1>1. CASE Fork
  BY <1>1 DEF Fork, monitorVars, reaperVars
<1>2. CASE ChildExits
  BY <1>2 DEF ChildExits, monitorVars, reaperVars
<1>3. CASE HeirExits
  BY <1>3 DEF HeirExits, monitorVars, reaperVars
<1>4. CASE Breach
  BY <1>4 DEF Breach, monitorVars, reaperVars
<1>5. CASE Written
  BY <1>5 DEF Written, monitorVars, reaperVars
<1>6. CASE MarkKilled
  BY <1>6 DEF MarkKilled, monitorVars, reaperVars
<1>7. CASE Send
  BY <1>7 DEF Send, monitorVars, reaperVars
<1>8. CASE CloseInput
  BY <1>8 DEF CloseInput, monitorVars, reaperVars
<1>9. CASE \E s \in Streams : Writes(s)
  BY <1>9 DEF Writes, monitorVars, reaperVars
<1>10. CASE \E s \in Streams : Recv(s)
  BY <1>10 DEF Recv, monitorVars, reaperVars
<1> QED
  BY <1>1, <1>2, <1>3, <1>4, <1>5, <1>6, <1>7, <1>8, <1>9, <1>10 DEF Outside, Callers

LEMMA AwaitsStart == ProcessInit => Awaits
  BY DEF ProcessInit, Awaits

(* A drain that moves keeps what the reaper waits for.                     *)
LEMMA DrainAwaits ==
  ASSUME IInv, Awaits, NEW s \in Streams, Drain(s)
  PROVE  Awaits'
<1>1. /\ stream \in [Streams -> StreamStates] /\ UNCHANGED <<reaper, stopping>>
      /\ heir \in {"none", "alive", "gone"}
  BY DrainFrame DEF IInv, ProcessTypeOK
<1>2. /\ heir' = heir \/ heir' = "gone"
      /\ \A t \in Streams : ~stream[t].open => ~stream'[t].open
      /\ \A t \in Streams \ {s} : stream'[t] = stream[t]
  <2>1. CASE Take(s)
    BY <1>1, <2>1 DEF Take, childVars
  <2>2. CASE Exceed(s)
    BY <1>1, <2>2 DEF Exceed, childVars
  <2>3. CASE ExceedAgain(s)
    BY <1>1, <2>3 DEF ExceedAgain, childVars
  <2>4. CASE MarkOverflow(s)
    BY <1>1, <2>4 DEF MarkOverflow, childVars
  <2>5. CASE KillOverflow(s)
    BY <1>1, <2>5 DEF KillOverflow, TreeKilled
  <2>6. CASE Keep(s)
    BY <1>1, <2>6 DEF Keep, childVars
  <2>7. CASE Finish(s)
    BY <1>1, <2>7 DEF Finish, childVars
  <2> QED
    BY <2>1, <2>2, <2>3, <2>4, <2>5, <2>6, <2>7 DEF Drain
<1>3. once' = "busy" => \E t \in Streams : stream'[t].at \in {"mark", "slay"}
  <2>1. CASE Exceed(s)
    BY <1>1, <2>1 DEF Exceed, StreamStates
  <2>2. CASE KillOverflow(s)
    BY <2>2 DEF KillOverflow
  <2>3. CASE MarkOverflow(s)
    BY <1>1, <2>3 DEF MarkOverflow, StreamStates
  <2>4. ASSUME once' = once, stream[s].at \notin {"mark", "slay"}
        PROVE  once' = "busy" => \E t \in Streams : stream'[t].at \in {"mark", "slay"}
    BY <1>2, <2>4 DEF Awaits
  <2>5. CASE Take(s) \/ ExceedAgain(s) \/ Keep(s) \/ Finish(s)
    BY <2>4, <2>5 DEF Take, ExceedAgain, Keep, Finish, AtEnd, budgetVars
  <2> QED
    BY <2>1, <2>2, <2>3, <2>5 DEF Drain
<1> QED
  BY <1>1, <1>2, <1>3 DEF Awaits

LEMMA AwaitsStep == ASSUME IInv, Awaits, [ProcessNext]_processVars PROVE Awaits'
<1>1. CASE UNCHANGED processVars
  BY <1>1 DEF processVars, Awaits, childVars, budgetVars, monitorVars, reaperVars
<1>2. CASE Start \/ StartFails
  BY <1>2 DEF Start, StartFails, Awaits, budgetVars, IInv, Marks, Stages, Drains
<1>3. CASE Fork \/ ChildExits \/ HeirExits \/ Breach \/ Written \/ BrokenPipe
  BY <1>3 DEF Fork, ChildExits, HeirExits, Breach, Written, BrokenPipe, Awaits, IInv, Stages, Dead,
              childVars, budgetVars, monitorVars, reaperVars
<1>4. CASE MarkKilled \/ Send \/ CloseInput \/ KillProc
  BY <1>4 DEF MarkKilled, Send, CloseInput, KillProc, TreeKilled, Awaits,
              childVars, budgetVars, monitorVars, reaperVars
<1>5. CASE Watch \/ TimerExpires \/ Expire
  BY <1>5 DEF Watch, Notice, KillBreach, WatchEnds, TimerExpires, Expire, StoreTimeout, KillTimeout,
              TreeKilled, Awaits, childVars, budgetVars, monitorVars, reaperVars
<1>6. ASSUME NEW s \in Streams, Writes(s) \/ Recv(s) PROVE Awaits'
  <2>1. /\ UNCHANGED <<reaper, stopping, heir, once>> /\ stream \in [Streams -> StreamStates]
        /\ \E k, l \in Nat : \/ stream' = [stream EXCEPT ![s].pipe = k]
                             \/ stream' = [stream EXCEPT ![s].buf = l]
    <3>1. /\ UNCHANGED <<reaper, stopping, heir, once>> /\ stream \in [Streams -> StreamStates]
      BY <1>6 DEF Writes, Recv, IInv, ProcessTypeOK, childVars, budgetVars, monitorVars, reaperVars
    <3>2. /\ stream[s].pipe \in Nat /\ stream[s].buf \in 0..Limit /\ Limit \in Nat
      BY <3>1, Bounds DEF StreamStates
    <3>3. CASE Writes(s)
      <4>1. stream[s].pipe + 1 \in Nat
        BY <3>2
      <4> QED
        BY <3>1, <3>3, <4>1 DEF Writes
    <3>4. CASE Recv(s)
      <4>1. PICK n \in 1..stream[s].buf : stream' = [stream EXCEPT ![s].buf = @ - n]
        BY <3>4 DEF Recv
      <4>2. stream[s].buf - n \in Nat
        BY <3>2
      <4> QED
        BY <3>1, <4>1, <4>2
    <3> QED
      BY <1>6, <3>3, <3>4
  <2>2. \A t \in Streams : stream'[t].at = stream[t].at /\ stream'[t].open = stream[t].open
    BY <2>1 DEF StreamStates
  <2> QED
    BY <2>1, <2>2 DEF Awaits
<1>7. CASE ReapExit \/ StopTimer \/ StopMonitor \/ MonitorStopped \/ CloseStdin \/ CloseJob \/ Drained \/ Publish
  BY <1>7 DEF ReapExit, StopTimer, StopMonitor, MonitorStopped, CloseStdin, CloseJob, Drained, Publish,
              Awaits, childVars, budgetVars, monitorVars
<1>8. CASE EndTree
  <2>1. heir \in {"none", "alive", "gone"}
    BY DEF IInv, ProcessTypeOK
  <2> QED
    BY <1>8, <2>1 DEF EndTree, Awaits, childVars, budgetVars, monitorVars
<1>9. CASE GraceOver
  <2>1. /\ stream \in [Streams -> StreamStates] /\ UNCHANGED <<heir, stopping, once>>
        /\ stream' = [s \in Streams |-> [stream[s] EXCEPT !.open = FALSE]]
        /\ reaper = "drain" /\ reaper' = "drains"
    BY <1>9 DEF GraceOver, IInv, ProcessTypeOK, childVars, budgetVars, monitorVars
  <2>2. \A s \in Streams : stream'[s].at = stream[s].at /\ ~stream'[s].open
    BY <2>1 DEF StreamStates
  <2> QED
    BY <2>1, <2>2 DEF Awaits
<1> QED
  BY <1>1, <1>2, <1>3, <1>4, <1>5, <1>6, <1>7, <1>8, <1>9, DrainAwaits
     DEF ProcessNext, Outside, Callers, Reap

(* What Reap, Watch and Drain(s) ask for.                                  *)
CanReap ==
  \/ reaper = "wait" /\ child \in Dead
  \/ reaper \in {"timer", "monitor", "job", "tree", "drain", "publish"}
  \/ reaper = "join" /\ watcher \in {"off", "done"}
  \/ reaper = "stdin" /\ sender = "idle"
  \/ reaper = "drains" /\ AllDrained

CanWatch == watcher = "hit" \/ (watcher = "idle" /\ (queue > 0 \/ stopping))

CanDrain(s) ==
  \/ stream[s].at = "read" /\ (~stream[s].open \/ stream[s].pipe > 0 \/ ~Writers)
  \/ stream[s].at = "limit" /\ once # "busy"
  \/ stream[s].at \in {"keep", "mark", "slay", "last"}

(* What BrokenPipe asks for.                                               *)
CanBreak == sender = "writing" /\ ~Readable

(* A send_stdin writes to an heir that has the read end of stdin.          *)
HeldByHeir == sender = "writing" /\ InheritStdin /\ heir = "alive"

(* Once the child is dead, the reaper can go on, or it waits for one of    *)
(* drang's own goroutines that can: the watcher it has told to stop, a     *)
(* drain, or a send_stdin whose pipe is broken.                            *)
NeverStuck ==
  child \in Dead /\ result = "none" =>
    \/ CanReap
    \/ reaper = "join" /\ CanWatch
    \/ reaper = "drains" /\ \E s \in Streams : CanDrain(s)
    \/ reaper = "stdin" /\ (CanBreak \/ HeldByHeir)

(* The reaper never waits for somebody who waits for it, for a full pipe,  *)
(* or for a sync.Once nobody runs (watch, jobCmd.wait, finishPipeDrains);  *)
(* only an heir that keeps stdin and does not read it can hold it up, and  *)
(* MCProcessStdin shows that it does.                                      *)
THEOREM ReaperIsNeverStuck == ProcessSpec => []NeverStuck
<1>1. IInv /\ Awaits => NeverStuck
  <2> SUFFICES ASSUME IInv, Awaits, child \in Dead, result = "none", ~CanReap
               PROVE  \/ reaper = "join" /\ CanWatch
                      \/ reaper = "drains" /\ \E s \in Streams : CanDrain(s)
                      \/ reaper = "stdin" /\ (CanBreak \/ HeldByHeir)
    BY DEF NeverStuck
  <2>1. reaper \in {"join", "stdin", "drains"}
    BY DEF CanReap, IInv, Stages, ProcessTypeOK, Dead
  <2>2. CASE reaper = "join"
    BY <2>2 DEF CanReap, CanWatch, Awaits, IInv, ProcessTypeOK
  <2>3. CASE reaper = "stdin"
    BY <2>3 DEF CanReap, CanBreak, HeldByHeir, Readable, IInv, ProcessTypeOK, Dead
  <2>4. CASE reaper = "drains"
    <3>1. PICK s \in Streams : stream[s].at # "done"
      BY <2>4 DEF CanReap, AllDrained
    <3>2. stream[s] \in StreamStates
      BY DEF IInv, ProcessTypeOK
    <3>3. stream[s].at # "off"
      BY DEF IInv, Drains, Dead
    <3>4. stream[s].open => ~Writers
      BY <2>4 DEF Awaits, Writers, Dead
    <3>5. CASE stream[s].at = "limit" /\ once = "busy"
      <4>1. PICK t \in Streams : stream[t].at \in {"mark", "slay"}
        BY <3>5 DEF Awaits
      <4> QED
        BY <2>4, <4>1 DEF CanDrain
    <3>6. CASE ~(stream[s].at = "limit" /\ once = "busy")
      <4>1. CanDrain(s)
        BY <3>1, <3>2, <3>3, <3>4, <3>6 DEF CanDrain, StreamStates
      <4> QED
        BY <2>4, <4>1
    <3> QED
      BY <3>5, <3>6
  <2> QED
    BY <2>1, <2>2, <2>3, <2>4
<1> QED
  BY <1>1, Inductive, AwaitsStart, AwaitsStep, PTL DEF ProcessSpec

(* How far the end of the child has to go.                                 *)
Stage ==
  CASE reaper = "new" -> 10
    [] reaper = "wait" -> 9
    [] reaper = "timer" -> 8
    [] reaper = "monitor" -> 7
    [] reaper = "join" -> 6
    [] reaper \in {"stdin", "tree"} -> 5
    [] reaper = "job" -> 4
    [] reaper = "drain" -> 3
    [] reaper = "drains" -> 2
    [] reaper = "publish" -> 1
    [] OTHER -> 0

(* What the watcher has to do before it has stopped.                       *)
WatchLeft == 3 * queue + (CASE watcher = "hit" -> 2 [] watcher = "idle" -> 1 [] OTHER -> 0)

(* What a drain has to do before it has ended.                             *)
Rank == [read |-> 2, keep |-> 3, last |-> 3, slay |-> 4, mark |-> 5, limit |-> 6, off |-> 0, done |-> 0]
DrainLeft(s) == 8 * stream[s].pipe + Rank[stream[s].at]

(* The reaper only goes forward; a watcher told to stop gets no more to    *)
(* do, nor does a drain the reaper joins; and each step of theirs is one   *)
(* less.                                                                   *)
EndRunsOut ==
  [][/\ Stage' <= Stage
     /\ Reap => Stage' < Stage
     /\ stopping => stopping' /\ WatchLeft' <= WatchLeft /\ (Watch => WatchLeft' < WatchLeft)
     /\ reaper = "drains" =>
          \A s \in Streams :
            DrainLeft(s)' <= DrainLeft(s) /\ (Drain(s) => DrainLeft(s)' < DrainLeft(s))]_processVars

(* The reaper: what moves it.                                              *)
LEMMA StageStep ==
  ASSUME IInv, ProcessNext
  PROVE  Stage' <= Stage /\ (Reap => Stage' < Stage)
<1>1. CASE Start \/ StartFails
  <2>1. reaper = "new" /\ reaper' \in {"wait", "failed"}
    BY <1>1 DEF Start, StartFails
  <2>2. Stage = 10 /\ Stage' \in {9, 0}
    BY <2>1 DEF Stage
  <2>3. Stage' < Stage
    BY <2>2
  <2> QED
    BY <2>2, <2>3
<1>2. ASSUME Reap PROVE Stage' < Stage /\ Stage' <= Stage
  <2> USE DEF Stage
  <2>1. CASE ReapExit
    BY <2>1 DEF ReapExit
  <2>2. CASE StopTimer
    BY <2>2 DEF StopTimer
  <2>3. CASE StopMonitor
    BY <2>3 DEF StopMonitor
  <2>4. CASE MonitorStopped
    BY <2>4 DEF MonitorStopped
  <2>5. CASE CloseStdin
    BY <2>5 DEF CloseStdin
  <2>6. CASE CloseJob
    BY <2>6 DEF CloseJob
  <2>7. CASE EndTree
    BY <2>7 DEF EndTree
  <2>8. CASE GraceOver
    BY <2>8 DEF GraceOver
  <2>9. CASE Drained
    <3>1. reaper \in {"drain", "drains"} /\ reaper' = "publish"
      BY <2>9 DEF Drained
    <3>2. Stage \in {3, 2} /\ Stage' = 1
      BY <3>1
    <3> QED
      BY <3>2
  <2>10. CASE Publish
    BY <2>10 DEF Publish
  <2> QED
    BY <1>2, <2>1, <2>2, <2>3, <2>4, <2>5, <2>6, <2>7, <2>8, <2>9, <2>10 DEF Reap
<1>3. Stage \in 0..10
  BY DEF Stage
<1>4. ASSUME reaper' = reaper PROVE Stage' = Stage
  BY <1>4 DEF Stage
<1>5. CASE Outside \/ Callers
  <2>1. reaper' = reaper
    BY <1>5, OutsideFrame
  <2> QED
    BY <1>3, <1>4, <2>1, <1>2
<1>6. ASSUME NEW s \in Streams, Drain(s) PROVE reaper' = reaper
  BY <1>6, DrainFrame DEF IInv, ProcessTypeOK
<1>7. ASSUME Watch \/ TimerExpires \/ Expire \/ KillProc \/ BrokenPipe PROVE reaper' = reaper
  BY <1>7 DEF Watch, Notice, KillBreach, WatchEnds, TimerExpires, Expire, StoreTimeout, KillTimeout,
     KillProc, BrokenPipe, reaperVars
<1>8. ASSUME reaper' = reaper PROVE Stage' <= Stage
  BY <1>3, <1>4, <1>8
<1> QED
  BY <1>1, <1>2, <1>5, <1>6, <1>7, <1>8 DEF ProcessNext

(* The watcher: what is queued, once it has been told to stop.             *)
LEMMA WatchRuns ==
  ASSUME IInv, Awaits, ProcessNext, stopping
  PROVE  stopping' /\ WatchLeft' <= WatchLeft /\ (Watch => WatchLeft' < WatchLeft)
<1>1. /\ queue \in Nat /\ watcher \in {"off", "idle", "hit", "done"}
      /\ WatchLeft \in Nat
  BY Bounds DEF IInv, ProcessTypeOK, WatchLeft
<1>2. ASSUME Watch PROVE stopping' /\ WatchLeft' < WatchLeft /\ WatchLeft' \in Int
  <2>1. CASE Notice
    BY <1>1, <2>1 DEF Notice, WatchLeft
  <2>2. CASE KillBreach
    BY <1>1, <2>2 DEF KillBreach, WatchLeft
  <2>3. CASE WatchEnds
    BY <1>1, <2>3 DEF WatchEnds, WatchLeft
  <2> QED
    BY <1>2, <2>1, <2>2, <2>3 DEF Watch
<1>3. ASSUME UNCHANGED <<queue, watcher>>, stopping' PROVE stopping' /\ WatchLeft' <= WatchLeft
  <2>1. WatchLeft' = WatchLeft
    BY <1>3 DEF WatchLeft
  <2> QED
    BY <1>1, <1>3, <2>1
<1>4. reaper # "new" /\ stopping
  BY DEF Awaits
<1>5. CASE Start \/ StartFails
  BY <1>4, <1>5 DEF Start, StartFails
<1>6. CASE Outside \/ Callers
  <2>1. UNCHANGED <<queue, watcher>> /\ stopping'
    BY <1>4, <1>6, OutsideFrame
  <2> QED
    BY <1>2, <1>3, <2>1
<1>7. ASSUME NEW s \in Streams, Drain(s) PROVE UNCHANGED <<queue, watcher>> /\ stopping'
  BY <1>4, <1>7, DrainFrame DEF IInv, ProcessTypeOK
<1>8. ASSUME TimerExpires \/ Expire \/ KillProc \/ BrokenPipe PROVE UNCHANGED <<queue, watcher>> /\ stopping'
  BY <1>4, <1>8 DEF TimerExpires, Expire, StoreTimeout, KillTimeout, KillProc, BrokenPipe, monitorVars
<1>9. ASSUME Reap PROVE UNCHANGED <<queue, watcher>> /\ stopping'
  BY <1>4, <1>9 DEF Reap, ReapExit, StopTimer, StopMonitor, MonitorStopped, CloseStdin, CloseJob, EndTree,
     GraceOver, Drained, Publish, monitorVars
<1> QED
  BY <1>1, <1>2, <1>3, <1>5, <1>6, <1>7, <1>8, <1>9 DEF ProcessNext

(* A drain the reaper joins: nobody writes to its pipe any more.           *)
LEMMA DrainRuns ==
  ASSUME IInv, Awaits, ProcessNext, reaper = "drains", NEW s \in Streams
  PROVE  DrainLeft(s)' <= DrainLeft(s) /\ (Drain(s) => DrainLeft(s)' < DrainLeft(s))
<1>1. /\ stream \in [Streams -> StreamStates] /\ stream[s] \in StreamStates
      /\ child \in Dead
  BY DEF IInv, ProcessTypeOK, Stages, Dead
<1>2. ASSUME NEW r \in StreamStates PROVE r.pipe \in Nat /\ Rank[r.at] \in 0..6
  BY <1>2, Bounds DEF StreamStates, Rank
<1>3. DrainLeft(s) \in Nat
  BY <1>1, <1>2 DEF DrainLeft
<1>4. ASSUME stream'[s].pipe = stream[s].pipe, stream'[s].at = stream[s].at
      PROVE  DrainLeft(s)' <= DrainLeft(s)
  <2>1. DrainLeft(s)' = DrainLeft(s)
    BY <1>4 DEF DrainLeft
  <2> QED
    BY <1>3, <2>1
<1>5. ASSUME NEW p \in Nat, NEW a, stream'[s].pipe = p, stream'[s].at = a,
             Rank[a] \in 0..6,
             \/ p < stream[s].pipe /\ Rank[a] <= 6 /\ Rank[stream[s].at] = 2
             \/ p <= stream[s].pipe /\ Rank[a] < Rank[stream[s].at]
      PROVE  DrainLeft(s)' < DrainLeft(s) /\ DrainLeft(s)' <= DrainLeft(s)
  <2>1. DrainLeft(s)' = 8 * p + Rank[a] /\ DrainLeft(s) = 8 * stream[s].pipe + Rank[stream[s].at]
    BY <1>5 DEF DrainLeft
  <2>2. stream[s].pipe \in Nat /\ Rank[stream[s].at] \in 0..6
    BY <1>1, <1>2
  <2>3. \A x, y \in Nat : \A i, j \in 0..6 :
          (x < y /\ j = 2) \/ (x <= y /\ i < j) => 8 * x + i < 8 * y + j
    OBVIOUS
  <2>4. 8 * p + Rank[a] < 8 * stream[s].pipe + Rank[stream[s].at]
    BY <1>5, <2>2, <2>3
  <2>5. 8 * p + Rank[a] \in Nat
    BY <1>5
  <2> QED
    BY <1>3, <2>1, <2>4, <2>5
<1>6. ASSUME NEW t \in Streams, Drain(t), t # s PROVE DrainLeft(s)' <= DrainLeft(s)
  <2>1. stream'[s] = stream[s]
    BY <1>1, <1>6, DrainFrame
  <2> QED
    BY <1>4, <2>1
<1>7. ASSUME Drain(s) PROVE DrainLeft(s)' < DrainLeft(s) /\ DrainLeft(s)' <= DrainLeft(s)
  <2> USE <1>1 DEF Rank
  <2>1. CASE Take(s)
    <3>1. PICK n \in 1..stream[s].pipe :
            /\ stream'[s].pipe = stream[s].pipe - n /\ stream'[s].at \in {"limit", "keep"}
            /\ stream[s].at = "read"
      BY <2>1 DEF Take, StreamStates
    <3>2. stream[s].pipe \in Nat
      BY <1>2
    <3>3. stream[s].pipe - n \in Nat /\ stream[s].pipe - n < stream[s].pipe
      BY <3>2
    <3> QED
      BY <1>5, <3>1, <3>3
  <2>2. ASSUME stream'[s].pipe = stream[s].pipe, Rank[stream'[s].at] < Rank[stream[s].at],
               Rank[stream'[s].at] \in 0..6
        PROVE  DrainLeft(s)' < DrainLeft(s) /\ DrainLeft(s)' <= DrainLeft(s)
    <3>1. stream[s].pipe \in Nat
      BY <1>2
    <3> HIDE DEF Rank
    <3> QED
      BY <1>5, <2>2, <3>1
  <2>3. CASE Exceed(s)
    <3>1. stream'[s].pipe = stream[s].pipe /\ stream'[s].at \in {"mark", "slay"} /\ stream[s].at = "limit"
      BY <2>3 DEF Exceed, StreamStates
    <3> QED
      BY <2>2, <3>1
  <2>4. CASE ExceedAgain(s)
    <3>1. stream'[s].pipe = stream[s].pipe /\ stream'[s].at = "last" /\ stream[s].at = "limit"
      BY <2>4 DEF ExceedAgain, StreamStates
    <3> QED
      BY <2>2, <3>1
  <2>5. CASE MarkOverflow(s)
    <3>1. stream'[s].pipe = stream[s].pipe /\ stream'[s].at = "slay" /\ stream[s].at = "mark"
      BY <2>5 DEF MarkOverflow, StreamStates
    <3> QED
      BY <2>2, <3>1
  <2>6. CASE KillOverflow(s)
    <3>1. stream'[s].pipe = stream[s].pipe /\ stream'[s].at = "last" /\ stream[s].at = "slay"
      BY <2>6 DEF KillOverflow, StreamStates
    <3> QED
      BY <2>2, <3>1
  <2>7. CASE Keep(s)
    <3>1. stream'[s].pipe = stream[s].pipe /\ stream'[s].at = "read" /\ stream[s].at \in {"keep", "last"}
      BY <2>7 DEF Keep, StreamStates
    <3> QED
      BY <2>2, <3>1
  <2>8. CASE Finish(s)
    <3>1. stream'[s].pipe = 0 /\ stream'[s].at = "done" /\ stream[s].at \in {"last", "read"}
      BY <2>8 DEF Finish, AtEnd, StreamStates
    <3>2. stream[s].pipe \in Nat /\ 0 <= stream[s].pipe
      BY <1>2
    <3> QED
      BY <1>5, <3>1, <3>2
  <2> QED
    BY <1>7, <2>1, <2>3, <2>4, <2>5, <2>6, <2>7, <2>8 DEF Drain
<1>8. CASE \E t \in Streams : Drain(t)
  BY <1>6, <1>7, <1>8
<1>9. ASSUME ~Drain(s), stream'[s].pipe = stream[s].pipe, stream'[s].at = stream[s].at
      PROVE  DrainLeft(s)' <= DrainLeft(s) /\ (Drain(s) => DrainLeft(s)' < DrainLeft(s))
  BY <1>4, <1>9
<1>10. ASSUME stream' = stream
       PROVE  DrainLeft(s)' <= DrainLeft(s) /\ (Drain(s) => DrainLeft(s)' < DrainLeft(s))
  BY <1>4, <1>7, <1>10
<1>11. CASE \E t \in Streams : Recv(t)
  <2>1. stream'[s].pipe = stream[s].pipe /\ stream'[s].at = stream[s].at
    BY <1>1, <1>11 DEF Recv, StreamStates
  <2> QED
    BY <1>4, <1>7, <2>1
<1>12. CASE \E t \in Streams : Writes(t)
  BY <1>1, <1>12 DEF Writes, Writers, Awaits, Dead
<1>13. CASE Start \/ StartFails \/ GraceOver
  BY <1>13 DEF Start, StartFails, GraceOver
<1>14. CASE Fork \/ ChildExits \/ HeirExits \/ Breach \/ Written \/ MarkKilled \/ Send \/ CloseInput
  BY <1>10, <1>14 DEF Fork, ChildExits, HeirExits, Breach, Written, MarkKilled, Send, CloseInput
<1>15. CASE Watch \/ TimerExpires \/ Expire \/ KillProc \/ BrokenPipe
  BY <1>10, <1>15 DEF Watch, Notice, KillBreach, WatchEnds, TimerExpires, Expire, StoreTimeout, KillTimeout,
     KillProc, BrokenPipe
<1>16. CASE ReapExit \/ StopTimer \/ StopMonitor \/ MonitorStopped \/ CloseStdin \/ CloseJob \/ EndTree
              \/ Drained \/ Publish
  BY <1>10, <1>16 DEF ReapExit, StopTimer, StopMonitor, MonitorStopped, CloseStdin, CloseJob, EndTree,
     Drained, Publish
<1> QED
  BY <1>8, <1>11, <1>12, <1>13, <1>14, <1>15, <1>16 DEF ProcessNext, Outside, Callers, Reap

(* No step of drang's own after the exit can be undone or go on for ever:  *)
(* breaches that still come, output that is still there and callers of     *)
(* kill, recv and send_stdin give the reaper nothing more to wait for.     *)
(* With ReaperIsNeverStuck this is the argument for ExitIsPublished.       *)
THEOREM TheEndRunsOut == ProcessSpec => EndRunsOut
<1> DEFINE Falls ==
      /\ Stage' <= Stage
      /\ Reap => Stage' < Stage
      /\ stopping => stopping' /\ WatchLeft' <= WatchLeft /\ (Watch => WatchLeft' < WatchLeft)
      /\ reaper = "drains" =>
           \A s \in Streams :
             DrainLeft(s)' <= DrainLeft(s) /\ (Drain(s) => DrainLeft(s)' < DrainLeft(s))
<1>1. IInv /\ Awaits /\ [ProcessNext]_processVars => [Falls]_processVars
  BY StageStep, WatchRuns, DrainRuns
<1> QED
  BY <1>1, Inductive, AwaitsStart, AwaitsStep, PTL DEF ProcessSpec, EndRunsOut
=============================================================================
