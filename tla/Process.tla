-------------------------------- MODULE Process --------------------------------
(***************************************************************************)
(* One child process of drang (src/internal/eval/exec.go, winexec.go and   *)
(* src/internal/winjob): either started in the background by `start`, with *)
(* its pipes, send_stdin, recv_stdout, recv_stderr, kill and await, or run *)
(* by `capture` or `capture_all`, which wait for it and may time out.      *)
(*                                                                         *)
(* Around the child run goroutines that know of each other only through    *)
(* flags and locks: the reaper (in capture: the caller) that waits for the *)
(* exit and publishes the result, one drain per output pipe, the watcher   *)
(* of resource limits, the timer, a caller of kill, a caller of            *)
(* send_stdin.  The child may leave a descendant, the heir, which inherits *)
(* its handles.                                                            *)
(*                                                                         *)
(* Output is counted in units; what is written does not matter.            *)
(***************************************************************************)
EXTENDS Naturals

CONSTANTS
  Calls,        (* the builtins and options considered                     *)
  Limit,        (* the budget of unread (start) or captured output         *)
  PipeSize,     (* units an output pipe holds                              *)
  MaxQueue,     (* breach events waiting in the completion port            *)
  InheritStdin  (* whether the heir keeps the read end of stdin            *)

ASSUME ProcessAssumption ==
  /\ Calls \subseteq [form : {"start", "capture"}, limits : BOOLEAN, timeout : BOOLEAN,
                      supervise : BOOLEAN, stdin : BOOLEAN]
  /\ \A m \in Calls : IF m.form = "start" THEN ~m.timeout ELSE ~m.supervise /\ ~m.stdin
  /\ Limit \in Nat
  /\ PipeSize \in Nat
  /\ MaxQueue \in Nat
  /\ InheritStdin \in BOOLEAN

Streams == {"stdout", "stderr"}

VARIABLES
  mode,      (* the builtin that was called and its options                *)
  child, heir,
  jobObject, (* the Job Object that holds them                             *)
  stream,    (* per output pipe: the pipe and the goroutine that drains it *)
  used,      (* the budget's counter                                       *)
  overflow,  (* outputLimit of the Proc, exceeded of the capture budget    *)
  once,      (* the sync.Once around onLimit                               *)
  queue, stopping, watcher,  (* the completion port, and who reads it      *)
  limitHit,
  timer, timedOut,
  killed, killer,
  stdin, sender,  (* the write end of stdin, and who holds its mutex       *)
  reaper,    (* how far the end of the child has been dealt with           *)
  cut,       (* whether the grace for surviving writers has run out        *)
  result

childVars == <<child, heir, jobObject>>
budgetVars == <<used, overflow, once>>
monitorVars == <<queue, stopping, watcher, limitHit>>
timerVars == <<timer, timedOut>>
killVars == <<killed, killer>>
stdinVars == <<stdin, sender>>
reaperVars == <<reaper, cut, result>>
processVars == <<mode, childVars, stream, budgetVars, monitorVars, timerVars,
                 killVars, stdinVars, reaperVars>>

Started == mode.form = "start"
Captured == mode.form = "capture"
Dead == {"zero", "nonzero", "killed"}
Exists == reaper \notin {"new", "failed"}   (* the handle has been returned *)
Writers == child = "running" \/ heir = "alive"
AllDrained == \A s \in Streams : stream[s].at = "done"

(* `at` is where the draining goroutine is, `got` what it has in hand, and *)
(* `buf` what is kept and unread; `lost` records that output was dropped,  *)
(* over the budget or left in a pipe that was closed.                      *)
StreamStates ==
  [at : {"off", "read", "keep", "limit", "mark", "slay", "last", "done"},
   open : BOOLEAN, pipe : 0..PipeSize, got : 0..Limit, buf : 0..Limit, lost : BOOLEAN]

ProcessTypeOK ==
  /\ mode \in Calls
  /\ child \in {"none", "running"} \cup Dead
  /\ heir \in {"none", "alive", "gone"}
  /\ jobObject \in {"none", "open", "closed"}
  /\ stream \in [Streams -> StreamStates]
  /\ used \in 0..Limit
  /\ overflow \in BOOLEAN
  /\ once \in {"free", "busy", "done"}
  /\ queue \in 0..MaxQueue
  /\ stopping \in BOOLEAN
  /\ watcher \in {"off", "idle", "hit", "done"}
  /\ limitHit \in BOOLEAN
  /\ timer \in {"off", "armed", "stopped", "called", "stored", "over"}
  /\ timedOut \in BOOLEAN
  /\ killed \in BOOLEAN
  /\ killer \in {"idle", "marked"}
  /\ stdin \in {"none", "open", "closed"}
  /\ sender \in {"idle", "writing"}
  /\ reaper \in {"new", "failed", "wait", "timer", "monitor", "join", "stdin",
                 "job", "tree", "drain", "drains", "publish", "done"}
  /\ cut \in BOOLEAN
  /\ result \in {"none", "unstarted", "ok", "code", "killed", "breach",
                 "overflow", "timeout"}

ProcessInit ==
  /\ mode \in Calls
  /\ child = "none" /\ heir = "none" /\ jobObject = "none"
  /\ stream = [s \in Streams |-> [at |-> "off", open |-> FALSE, pipe |-> 0, got |-> 0,
                                  buf |-> 0, lost |-> FALSE]]
  /\ used = 0 /\ overflow = FALSE /\ once = "free"
  /\ queue = 0 /\ stopping = FALSE /\ watcher = "off" /\ limitHit = FALSE
  /\ timer = "off" /\ timedOut = FALSE
  /\ killed = FALSE /\ killer = "idle"
  /\ stdin = "none" /\ sender = "idle"
  /\ reaper = "new" /\ cut = FALSE /\ result = "none"

(* Job.Terminate: the whole tree, unless the handle is closed.             *)
TreeKilled ==
  /\ child' = IF jobObject = "open" /\ child = "running" THEN "killed" ELSE child
  /\ heir' = IF jobObject = "open" /\ heir = "alive" THEN "gone" ELSE heir
  /\ UNCHANGED jobObject

-----------------------------------------------------------------------------
(* Starting: pipes, job, limits, monitor, then the child born into the     *)
(* job, then goroutines and timer.                                         *)

Start ==
  /\ reaper = "new"
  /\ child' = "running" /\ jobObject' = "open"
  /\ stream' = [s \in Streams |-> [stream[s] EXCEPT !.at = "read", !.open = TRUE]]
  /\ watcher' = IF mode.limits THEN "idle" ELSE "off"
  /\ timer' = IF mode.timeout THEN "armed" ELSE "off"
  /\ stdin' = IF mode.stdin THEN "open" ELSE "none"
  /\ reaper' = "wait"
  /\ UNCHANGED <<mode, heir, budgetVars, queue, stopping, limitHit, timedOut,
                 killVars, sender, cut, result>>

(* Any step may fail; what the earlier ones made is released again.        *)
StartFails ==
  /\ reaper = "new"
  /\ jobObject' \in {"none", "closed"}
  /\ watcher' \in IF mode.limits /\ jobObject' = "closed" THEN {"off", "done"} ELSE {"off"}
  /\ reaper' = "failed" /\ result' = "unstarted"
  /\ UNCHANGED <<mode, child, heir, stream, budgetVars, queue, stopping, limitHit,
                 timerVars, killVars, stdinVars, cut>>

-----------------------------------------------------------------------------
(* The child and its heir, which drang does not control.                   *)

Fork ==
  /\ child = "running" /\ heir = "none"
  /\ heir' = "alive"
  /\ UNCHANGED <<mode, child, jobObject, stream, budgetVars, monitorVars, timerVars,
                 killVars, stdinVars, reaperVars>>

ChildExits ==
  /\ child = "running"
  /\ child' \in {"zero", "nonzero"}
  /\ UNCHANGED <<mode, heir, jobObject, stream, budgetVars, monitorVars, timerVars,
                 killVars, stdinVars, reaperVars>>

HeirExits ==
  /\ heir = "alive"
  /\ heir' = "gone"
  /\ UNCHANGED <<mode, child, jobObject, stream, budgetVars, monitorVars, timerVars,
                 killVars, stdinVars, reaperVars>>

(* A full pipe makes the writer wait, a closed one refuses.                *)
Writes(s) ==
  /\ Writers /\ stream[s].open /\ stream[s].pipe < PipeSize
  /\ stream' = [stream EXCEPT ![s].pipe = @ + 1]
  /\ UNCHANGED <<mode, childVars, budgetVars, monitorVars, timerVars, killVars,
                 stdinVars, reaperVars>>

(* The kernel reports that a limit was crossed; behind the marker of an    *)
(* orderly stop nobody reads the report.                                   *)
Breach ==
  /\ mode.limits /\ Writers /\ jobObject = "open"
  /\ ~stopping /\ queue < MaxQueue
  /\ queue' = queue + 1
  /\ UNCHANGED <<mode, childVars, stream, budgetVars, stopping, watcher, limitHit,
                 timerVars, killVars, stdinVars, reaperVars>>

-----------------------------------------------------------------------------
(* A drain: read from the pipe, reserve, keep what the budget allows.      *)

(* pipeBufferBudget.reserve adds what it allows, and release gives it back *)
(* when it is read.  captureBudget.reserve adds what was asked for, which  *)
(* allows the same: whatever is above the limit, the room is gone.         *)
Allowed(n) == IF used + n <= Limit THEN n ELSE IF used < Limit THEN Limit - used ELSE 0

Take(s) ==
  /\ stream[s].at = "read" /\ stream[s].open
  /\ \E n \in 1..stream[s].pipe :
       /\ stream' = [stream EXCEPT ![s].pipe = @ - n, ![s].got = Allowed(n),
                                   ![s].at = IF Allowed(n) < n THEN "limit" ELSE "keep",
                                   ![s].lost = @ \/ Allowed(n) < n]
       /\ used' = used + Allowed(n)
  /\ UNCHANGED <<mode, childVars, overflow, once, monitorVars, timerVars, killVars,
                 stdinVars, reaperVars>>

Exceed_Silent(s) ==
  /\ stream[s].at = "limit" /\ once = "free"
  /\ once' = "busy"
  /\ stream' = [stream EXCEPT ![s].at = IF Started THEN "mark" ELSE "slay"]
  /\ UNCHANGED <<mode, childVars, used, overflow, monitorVars, timerVars, killVars,
                 stdinVars, reaperVars>>

(* The first to exceed the budget runs onLimit, another one waits for it.  *)
Exceed(s) ==
  /\ stream[s].at = "limit" /\ once = "free"
  /\ once' = "busy" /\ overflow' = TRUE
  /\ stream' = [stream EXCEPT ![s].at = IF Started THEN "mark" ELSE "slay"]
  /\ UNCHANGED <<mode, childVars, used, monitorVars, timerVars, killVars, stdinVars,
                 reaperVars>>

ExceedAgain(s) ==
  /\ stream[s].at = "limit" /\ once = "done"
  /\ stream' = [stream EXCEPT ![s].at = "last"]
  /\ UNCHANGED <<mode, childVars, budgetVars, monitorVars, timerVars, killVars,
                 stdinVars, reaperVars>>

(* Proc.terminate, its flag and then the job; a capture kills only.        *)
MarkOverflow(s) ==
  /\ stream[s].at = "mark"
  /\ killed' = TRUE
  /\ stream' = [stream EXCEPT ![s].at = "slay"]
  /\ UNCHANGED <<mode, childVars, budgetVars, monitorVars, timerVars, killer,
                 stdinVars, reaperVars>>

KillOverflow(s) ==
  /\ stream[s].at = "slay"
  /\ TreeKilled
  /\ once' = "done"
  /\ stream' = [stream EXCEPT ![s].at = "last"]
  /\ UNCHANGED <<mode, used, overflow, monitorVars, timerVars, killVars, stdinVars,
                 reaperVars>>

(* A capture is read on beyond its budget, so that a child which still     *)
(* writes can end.                                                         *)
Keep(s) ==
  /\ stream[s].at = "keep" \/ (Captured /\ stream[s].at = "last")
  /\ stream' = [stream EXCEPT ![s].buf = @ + stream[s].got, ![s].got = 0, ![s].at = "read"]
  /\ UNCHANGED <<mode, childVars, budgetVars, monitorVars, timerVars, killVars,
                 stdinVars, reaperVars>>

(* The end of the pipe, or a budget exceeded by a started process.         *)
AtEnd(s) ==
  \/ Started /\ stream[s].at = "last"
  \/ stream[s].at = "read" /\ (~stream[s].open \/ (stream[s].pipe = 0 /\ ~Writers))

Finish(s) ==
  /\ AtEnd(s)
  /\ stream' = [stream EXCEPT ![s].buf = @ + stream[s].got, ![s].got = 0,
                              ![s].lost = @ \/ stream[s].pipe > 0, ![s].pipe = 0,
                              ![s].open = FALSE, ![s].at = "done"]
  /\ UNCHANGED <<mode, childVars, budgetVars, monitorVars, timerVars, killVars,
                 stdinVars, reaperVars>>

Drain(s) == \/ Take(s) \/ Exceed(s) \/ ExceedAgain(s) \/ MarkOverflow(s)
            \/ KillOverflow(s) \/ Keep(s) \/ Finish(s)

Recv_Kept(s) ==
  /\ Started
  /\ \E n \in 1..stream[s].buf : stream' = [stream EXCEPT ![s].buf = @ - n]
  /\ UNCHANGED <<mode, childVars, budgetVars, monitorVars, timerVars, killVars,
                 stdinVars, reaperVars>>

(* recv_stdout, recv_stderr: one critical section of the stream, which     *)
(* returns what is there up to 64 KiB.                                     *)
Recv(s) ==
  /\ Started
  /\ \E n \in 1..stream[s].buf :
       /\ stream' = [stream EXCEPT ![s].buf = @ - n]
       /\ used' = used - n
  /\ UNCHANGED <<mode, childVars, overflow, once, monitorVars, timerVars, killVars,
                 stdinVars, reaperVars>>

-----------------------------------------------------------------------------
(* The watcher, drainLimitEvents: the first breach is recorded and ends    *)
(* the tree.                                                               *)

Notice ==
  /\ watcher = "idle" /\ queue > 0
  /\ queue' = queue - 1
  /\ limitHit' = TRUE
  /\ watcher' = IF limitHit THEN "idle" ELSE "hit"
  /\ UNCHANGED <<mode, childVars, stream, budgetVars, stopping, timerVars, killVars,
                 stdinVars, reaperVars>>

KillBreach ==
  /\ watcher = "hit"
  /\ TreeKilled
  /\ watcher' = "idle"
  /\ UNCHANGED <<mode, stream, budgetVars, queue, stopping, limitHit, timerVars,
                 killVars, stdinVars, reaperVars>>

(* The marker comes behind what was queued before it.                      *)
WatchEnds ==
  /\ watcher = "idle" /\ stopping /\ queue = 0
  /\ watcher' = "done"
  /\ UNCHANGED <<mode, childVars, stream, budgetVars, queue, stopping, limitHit,
                 timerVars, killVars, stdinVars, reaperVars>>

Watch == Notice \/ KillBreach \/ WatchEnds

-----------------------------------------------------------------------------
(* The timer of a capture: it may expire at any time, and its callback     *)
(* runs beside everything else.                                            *)

TimerExpires ==
  /\ timer = "armed"
  /\ timer' = "called"
  /\ UNCHANGED <<mode, childVars, stream, budgetVars, monitorVars, timedOut, killVars,
                 stdinVars, reaperVars>>

StoreTimeout ==
  /\ timer = "called"
  /\ timedOut' = TRUE /\ timer' = "stored"
  /\ UNCHANGED <<mode, childVars, stream, budgetVars, monitorVars, killVars, stdinVars,
                 reaperVars>>

KillTimeout ==
  /\ timer = "stored"
  /\ TreeKilled
  /\ timer' = "over"
  /\ UNCHANGED <<mode, stream, budgetVars, monitorVars, timedOut, killVars, stdinVars,
                 reaperVars>>

Expire == StoreTimeout \/ KillTimeout

-----------------------------------------------------------------------------
(* kill: Proc.terminate, its flag and then the job.                        *)

MarkKilled ==
  /\ Started /\ Exists /\ killer = "idle"
  /\ killed' = TRUE /\ killer' = "marked"
  /\ UNCHANGED <<mode, childVars, stream, budgetVars, monitorVars, timerVars, stdinVars,
                 reaperVars>>

KillProc ==
  /\ killer = "marked"
  /\ TreeKilled
  /\ killer' = "idle"
  /\ UNCHANGED <<mode, stream, budgetVars, monitorVars, timerVars, killed, stdinVars,
                 reaperVars>>

(* send_stdin holds the mutex of stdin while it writes, and a full pipe    *)
(* makes it wait until somebody reads or nobody can read any more.         *)
Send ==
  /\ stdin = "open" /\ sender = "idle"
  /\ sender' = "writing"
  /\ UNCHANGED <<mode, childVars, stream, budgetVars, monitorVars, timerVars, killVars,
                 stdin, reaperVars>>

Readable == child = "running" \/ (InheritStdin /\ heir = "alive")

Written ==
  /\ sender = "writing" /\ Readable
  /\ sender' = "idle"
  /\ UNCHANGED <<mode, childVars, stream, budgetVars, monitorVars, timerVars, killVars,
                 stdin, reaperVars>>

BrokenPipe ==
  /\ sender = "writing" /\ ~Readable
  /\ sender' = "idle"
  /\ UNCHANGED <<mode, childVars, stream, budgetVars, monitorVars, timerVars, killVars,
                 stdin, reaperVars>>

(* close_stdin.                                                            *)
CloseInput ==
  /\ stdin = "open" /\ sender = "idle"
  /\ stdin' = "closed"
  /\ UNCHANGED <<mode, childVars, stream, budgetVars, monitorVars, timerVars, killVars,
                 sender, reaperVars>>

-----------------------------------------------------------------------------
(* After the exit: the reaper of a started process, or the caller of       *)
(* capture in jobCmd.wait.                                                 *)

ReapExit_Tree ==
  /\ reaper = "wait" /\ ~Writers /\ child # "none"
  /\ reaper' = IF Started THEN "monitor" ELSE "timer"
  /\ UNCHANGED <<mode, childVars, stream, budgetVars, monitorVars, timerVars, killVars,
                 stdinVars, cut, result>>

ReapExit ==
  /\ reaper = "wait" /\ child \in Dead
  /\ reaper' = IF Started THEN "monitor" ELSE "timer"
  /\ UNCHANGED <<mode, childVars, stream, budgetVars, monitorVars, timerVars, killVars,
                 stdinVars, cut, result>>

(* timer.Stop does nothing about a callback that was called.               *)
StopTimer ==
  /\ reaper = "timer"
  /\ timer' = IF timer = "armed" THEN "stopped" ELSE timer
  /\ reaper' = "monitor"
  /\ UNCHANGED <<mode, childVars, stream, budgetVars, monitorVars, timedOut, killVars,
                 stdinVars, cut, result>>

StopMonitor ==
  /\ reaper = "monitor"
  /\ stopping' = TRUE
  /\ reaper' = "join"
  /\ UNCHANGED <<mode, childVars, stream, budgetVars, queue, watcher, limitHit, timerVars,
                 killVars, stdinVars, cut, result>>

MonitorStopped_Unjoined ==
  /\ reaper = "join"
  /\ reaper' = IF Started THEN "stdin" ELSE "tree"
  /\ UNCHANGED <<mode, childVars, stream, budgetVars, monitorVars, timerVars, killVars,
                 stdinVars, cut, result>>

MonitorStopped ==
  /\ reaper = "join" /\ watcher \in {"off", "done"}
  /\ reaper' = IF Started THEN "stdin" ELSE "tree"
  /\ UNCHANGED <<mode, childVars, stream, budgetVars, monitorVars, timerVars, killVars,
                 stdinVars, cut, result>>

(* Proc.closeStdin needs the mutex a send_stdin may hold.                  *)
CloseStdin ==
  /\ reaper = "stdin" /\ sender = "idle"
  /\ stdin' = IF stdin = "open" THEN "closed" ELSE stdin
  /\ reaper' = "job"
  /\ UNCHANGED <<mode, childVars, stream, budgetVars, monitorVars, timerVars, killVars,
                 sender, cut, result>>

(* Proc.closeJob: closing a supervised job kills who is left in it.        *)
CloseJob ==
  /\ reaper = "job"
  /\ jobObject' = "closed"
  /\ heir' = IF mode.supervise /\ heir = "alive" THEN "gone" ELSE heir
  /\ reaper' = "drain"
  /\ UNCHANGED <<mode, child, stream, budgetVars, monitorVars, timerVars, killVars,
                 stdinVars, cut, result>>

(* A synchronous form ends the whole tree before it joins the copiers.     *)
EndTree ==
  /\ reaper = "tree"
  /\ jobObject' = "closed"
  /\ heir' = IF heir = "alive" THEN "gone" ELSE heir
  /\ reaper' = "drains"
  /\ UNCHANGED <<mode, child, stream, budgetVars, monitorVars, timerVars, killVars,
                 stdinVars, cut, result>>

(* finishPipeDrains: natural ends within the grace, or the read ends are   *)
(* closed.                                                                 *)
GraceOver ==
  /\ reaper = "drain" /\ ~AllDrained
  /\ stream' = [s \in Streams |-> [stream[s] EXCEPT !.open = FALSE]]
  /\ cut' = TRUE
  /\ reaper' = "drains"
  /\ UNCHANGED <<mode, childVars, budgetVars, monitorVars, timerVars, killVars, stdinVars,
                 result>>

Drained_Unjoined ==
  /\ reaper = "drains"
  /\ reaper' = "publish"
  /\ UNCHANGED <<mode, childVars, stream, budgetVars, monitorVars, timerVars, killVars,
                 stdinVars, cut, result>>

Drained ==
  /\ reaper \in {"drain", "drains"} /\ AllDrained
  /\ reaper' = "publish"
  /\ UNCHANGED <<mode, childVars, stream, budgetVars, monitorVars, timerVars, killVars,
                 stdinVars, cut, result>>

(* What ended the child, the most decisive cause first.                    *)
OwnExit == IF child = "zero" THEN "ok" ELSE "code"

StartOutcome == CASE overflow -> "overflow"
                  [] ~overflow /\ killed -> "killed"
                  [] ~overflow /\ ~killed /\ limitHit -> "breach"
                  [] OTHER -> OwnExit

CaptureOutcome == CASE timedOut -> "timeout"
                    [] ~timedOut /\ limitHit -> "breach"
                    [] ~timedOut /\ ~limitHit /\ overflow -> "overflow"
                    [] OTHER -> OwnExit

Publish ==
  /\ reaper = "publish"
  /\ result' = IF Started THEN StartOutcome ELSE CaptureOutcome
  /\ reaper' = "done"
  /\ UNCHANGED <<mode, childVars, stream, budgetVars, monitorVars, timerVars, killVars,
                 stdinVars, cut>>

Reap == \/ ReapExit \/ StopTimer \/ StopMonitor \/ MonitorStopped \/ CloseStdin
        \/ CloseJob \/ EndTree \/ GraceOver \/ Drained \/ Publish

-----------------------------------------------------------------------------
Outside == \/ Fork \/ ChildExits \/ HeirExits \/ Breach \/ Written
           \/ \E s \in Streams : Writes(s)

Callers == \/ MarkKilled \/ Send \/ CloseInput
           \/ \E s \in Streams : Recv(s)

ProcessNext ==
  \/ Start \/ StartFails
  \/ Outside \/ Callers
  \/ \E s \in Streams : Drain(s)
  \/ Watch
  \/ TimerExpires \/ Expire
  \/ KillProc \/ BrokenPipe
  \/ Reap

ProcessSpec == ProcessInit /\ [][ProcessNext]_processVars

(* Goroutines that can run are run, the grace ends, and a write to a pipe  *)
(* nobody can read fails.  A mutex of Go is handed to a waiter in the end  *)
(* even when others take it again and again, hence the strong fairness.    *)
(* Nothing is assumed of the child, its heir, or the callers.              *)
ProcessFairness ==
  /\ \A s \in Streams : WF_processVars(Drain(s))
  /\ WF_processVars(Watch)
  /\ WF_processVars(Expire)
  /\ WF_processVars(KillProc) /\ WF_processVars(BrokenPipe)
  /\ WF_processVars(Reap) /\ SF_processVars(CloseStdin)

FairProcessSpec == ProcessSpec /\ ProcessFairness

-----------------------------------------------------------------------------
Kept(s) == stream[s].got + stream[s].buf

(* The budget counts exactly what is unread, over both pipes, and what is  *)
(* kept never exceeds the limit, although two drains reserve from it and   *)
(* readers give back to it without a common lock (reserve, release, read). *)
BudgetExact ==
  /\ used = Kept("stdout") + Kept("stderr")
  /\ used <= Limit

(* A result that says the child ended by itself comes with everything the  *)
(* child wrote, kept for the readers or returned; only writers that        *)
(* outlive the grace lose output (finishPipeDrains, jobCmd.wait).          *)
NothingLost ==
  result \in {"ok", "code"} /\ ~cut =>
    \A s \in Streams : stream[s].pipe = 0 /\ stream[s].got = 0 /\ ~stream[s].lost

(* When drang ended the child, because of kill, a limit, its output or the *)
(* timeout, the result says so: it is never taken for an exit of its own,  *)
(* whoever was between a flag and a kill when the child was reaped.        *)
TellsTheCause == child = "killed" => result \notin {"ok", "code"}

(* Once the result is out, or the start has failed, nothing of the child   *)
(* is left: no open job handle, watcher, drain, or pipe end, and no        *)
(* descendant of a command that owns its tree.                             *)
Released ==
  result # "none" =>
    /\ jobObject # "open" /\ stdin # "open"
    /\ watcher \in {"off", "done"}
    /\ \A s \in Streams : ~stream[s].open /\ stream[s].at \in {"off", "done"}
    /\ Captured \/ mode.supervise => heir # "alive"

(* The end of the child is published: await, status and capture hang on    *)
(* no heir, no pipe and no caller.  (Who is dead stays so.)                *)
ExitIsPublished == []<>(child \in Dead => result # "none")
=============================================================================
