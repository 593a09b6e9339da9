------------------------------ MODULE MCOutside ------------------------------
(* What drang does outside its own memory, as TLC checks it: the shared map  *)
(* of a store, the files behind it, the other commands that replace files,   *)
(* and child processes.  They do not interact, so a behaviour has one of     *)
(* them as its scene and the rest stand still.                               *)
EXTENDS Store, StoreFiles, Rewrites, MCProcess

CONSTANTS p1, p2, s1, s2, s3

VARIABLE scene

(* Two strands of one process, one of another. *)
TwoProcesses == [s \in {s1, s2, s3} |-> IF s = s3 THEN p2 ELSE p1]

(* A counter modulo two, which starts at 0 from an absent key. *)
Count == [v \in {0, 1, Absent} |-> IF v = Absent THEN 1 ELSE 1 - v]
Counting == {Count}

-----------------------------------------------------------------------------
(* Outside its scene, a command is one that has nothing to do. *)
Scenes == {"store", "files", "rewrites", "process"}
Idle == command = "fmt" /\ \A f \in Names : target[f] = File("old", "own")
Unasked == mode = Form("start", TRUE, FALSE, FALSE, FALSE)

SceneInit ==
  /\ scene \in Scenes
  /\ Init /\ FilesInit /\ RewriteInit /\ ProcessInit
  /\ scene # "rewrites" => Idle
  /\ scene # "process" => Unasked

InStore == scene = "store" /\ UNCHANGED <<scene, fileVars, rewriteVars, processVars>>
InFiles == scene = "files" /\ UNCHANGED <<scene, vars, rewriteVars, processVars>>
InRewrites == scene = "rewrites" /\ UNCHANGED <<scene, vars, fileVars, processVars>>
InProcess == scene = "process" /\ UNCHANGED <<scene, vars, fileVars, rewriteVars>>

(* Next, FilesNext, RewriteNext and ProcessNext, action by action. *)
SceneNext ==
  \/ \E p \in Sessions : InStore /\ Open(p)
  \/ \E p \in Sessions : InStore /\ Close(p)
  \/ \E p \in Sessions : InStore /\ Crash(p)
  \/ \E s \in Strands : InStore /\ Clear(s)
  \/ \E s \in Strands : InStore /\ UpdateCommit(s)
  \/ \E s \in Strands : InStore /\ UpdateUndone(s)
  \/ \E s \in Strands : InStore /\ UpdateRetry(s)
  \/ \E s \in Strands : InStore /\ UpdateBusy(s)
  \/ \E s \in Strands : InStore /\ UpdateAbort(s)
  \/ \E s \in Strands : InStore /\ BatchBegin(s)
  \/ \E s \in Strands : InStore /\ BatchCommit(s)
  \/ \E s \in Strands : InStore /\ BatchUndone(s)
  \/ \E s \in Strands, k \in Keys : InStore /\ Delete(s, k)
  \/ \E s \in Strands, k \in Keys, v \in Vals : InStore /\ Set(s, k, v)
  \/ \E s \in Strands, k \in Keys, f \in Transforms : InStore /\ UpdateBegin(s, k, f)
  \/ InFiles /\ Load
  \/ InFiles /\ Change
  \/ InFiles /\ ReadPrevious
  \/ InFiles /\ BakWrite
  \/ InFiles /\ BakSync
  \/ InFiles /\ BakRename
  \/ InFiles /\ WriteData
  \/ InFiles /\ SyncData
  \/ InFiles /\ RenameData
  \/ InFiles /\ PowerFails
  \/ InFiles /\ Damage
  \/ InRewrites /\ OpenSource
  \/ InRewrites /\ Formatted
  \/ InRewrites /\ Create
  \/ InRewrites /\ Write
  \/ InRewrites /\ Sync
  \/ InRewrites /\ BackupWrite
  \/ InRewrites /\ BackupSync
  \/ InRewrites /\ BackupChmod
  \/ InRewrites /\ BackupRename
  \/ InRewrites /\ Chmod
  \/ InRewrites /\ Rename
  \/ InRewrites /\ PowerOff
  \/ InProcess /\ Start
  \/ InProcess /\ StartFails
  \/ InProcess /\ Fork
  \/ InProcess /\ ChildExits
  \/ InProcess /\ HeirExits
  \/ InProcess /\ Breach
  \/ InProcess /\ Written
  \/ \E s \in Streams : InProcess /\ Writes(s)
  \/ \E s \in Streams : InProcess /\ Take(s)
  \/ \E s \in Streams : InProcess /\ Exceed(s)
  \/ \E s \in Streams : InProcess /\ ExceedAgain(s)
  \/ \E s \in Streams : InProcess /\ MarkOverflow(s)
  \/ \E s \in Streams : InProcess /\ KillOverflow(s)
  \/ \E s \in Streams : InProcess /\ Keep(s)
  \/ \E s \in Streams : InProcess /\ Finish(s)
  \/ \E s \in Streams : InProcess /\ Recv(s)
  \/ InProcess /\ Notice
  \/ InProcess /\ KillBreach
  \/ InProcess /\ WatchEnds
  \/ InProcess /\ TimerExpires
  \/ InProcess /\ StoreTimeout
  \/ InProcess /\ KillTimeout
  \/ InProcess /\ MarkKilled
  \/ InProcess /\ KillProc
  \/ InProcess /\ Send
  \/ InProcess /\ BrokenPipe
  \/ InProcess /\ CloseInput
  \/ InProcess /\ ReapExit
  \/ InProcess /\ StopTimer
  \/ InProcess /\ StopMonitor
  \/ InProcess /\ MonitorStopped
  \/ InProcess /\ CloseStdin
  \/ InProcess /\ CloseJob
  \/ InProcess /\ EndTree
  \/ InProcess /\ GraceOver
  \/ InProcess /\ Drained
  \/ InProcess /\ Publish

SceneSpec ==
  /\ SceneInit /\ [][SceneNext]_<<scene, vars, fileVars, rewriteVars, processVars>>
  /\ Fairness /\ ProcessFairness
=============================================================================
