------------------------------ MODULE MCModules ------------------------------
(* What strands do beside running code, as TLC checks it: they import        *)
(* modules, share out the items of a pmap, serve requests, and start further *)
(* strands on a copy of what these are given.  These do not interact, so a   *)
(* behaviour has one of them as its scene and the rest stand still.          *)
EXTENDS MCImports, Pmap, MCServe, MCHeaps

CONSTANTS q1, q2, q3, MaxDepth, MaxNodes

VARIABLES scene, memory, given, snapshot

spawnVars == <<memory, given, snapshot>>

Copy == INSTANCE Snapshot WITH Memories <- Heaps, Roots <- Spawned

(* Two nested calls under one that takes the whole budget; two calls of the  *)
(* program, one with both kinds of failure, one with a nested empty call.    *)
Some == { (q1 :> <<q2, q3>>) @@ (q2 :> <<"ok">>) @@ (q3 :> <<"ok", "err">>),
          (q1 :> <<"err", "ok", "abort", "ok">>) @@ (q2 :> <<"ok", q3>>) @@ (q3 :> <<>>) }

-----------------------------------------------------------------------------
Scenes == {"modules", "pmap", "serve", "spawn"}

(* Outside its scene, a component has one initial state. *)
Among(s, all, idle) == IF scene = s THEN all ELSE {idle}

SceneInit ==
  /\ scene \in Scenes
  /\ Init /\ PmapInit /\ ServeInit
  /\ memory \in Among("spawn", Heaps, EmptyHeap)
  /\ given \in Among("spawn", Spawned, <<RefTo(1)>>)
  /\ snapshot = Copy!NotYet
  /\ scene # "modules" => graph = Diamond
  /\ scene # "pmap" => what[q1] = <<q2, q3>>
  /\ scene # "serve" => script[r1] = "panic"
  /\ script[r2] # "await" => helper = "ended"

InModules == scene = "modules" /\ UNCHANGED <<scene, pmapVars, serveVars, spawnVars>>
InPmap == scene = "pmap" /\ UNCHANGED <<scene, vars, serveVars, spawnVars>>
InServe == scene = "serve" /\ UNCHANGED <<scene, vars, pmapVars, spawnVars>>
InSpawn == scene = "spawn" /\ UNCHANGED <<scene, vars, pmapVars, serveVars>>

(* Next, PmapNext, ServeNext and SnapshotNext, action by action. *)
SceneNext ==
  \/ \E s \in Strands, m \in ModuleNames : InModules /\ Refuse(s, m)
  \/ \E s \in Strands, m \in ModuleNames : InModules /\ Wait(s, m)
  \/ \E s \in Strands, m \in ModuleNames : InModules /\ Call(s, m)
  \/ \E s \in Strands, m \in ModuleNames, e \in Loads : InModules /\ Lead(s, m, e)
  \/ \E s \in Strands : InModules /\ Resume(s)
  \/ \E s \in Strands : InModules /\ Return(s)
  \/ \E s \in Strands, phase \in {"loaded", "failed"} : InModules /\ Finish(s, phase)
  \/ \E s, t \in Strands : InModules /\ Spawn(s, t)
  \/ \E q \in Calls : InPmap /\ Begin(q)
  \/ \E q \in Calls : InPmap /\ Acquire(q)
  \/ \E q \in Calls : InPmap /\ RunHere(q)
  \/ \E q \in Calls : InPmap /\ Launch(q)
  \/ \E q \in Calls : InPmap /\ SnapshotFails(q)
  \/ \E q \in Calls : InPmap /\ Collect(q)
  \/ \E q \in Calls : InPmap /\ ApplyHere(q)
  \/ \E q \in Calls : InPmap /\ CollectHere(q)
  \/ \E q \in Calls : InPmap /\ Leave(q)
  \/ \E q \in Calls, w \in Workers : InPmap /\ Take(q, w)
  \/ \E q \in Calls, w \in Workers : InPmap /\ Apply(q, w)
  \/ \E q \in Calls, w \in Workers : InPmap /\ Exit(q, w)
  \/ \E q \in Calls, w \in Workers : InPmap /\ Done(q, w)
  \/ \E r \in Requests : InServe /\ Arrive(r)
  \/ \E r \in Requests : InServe /\ Parse(r)
  \/ \E r \in Requests : InServe /\ Lock(r)
  \/ \E r \in Requests : InServe /\ Enter(r)
  \/ \E r \in Requests : InServe /\ Await(r)
  \/ \E r \in Requests : InServe /\ Awaited(r)
  \/ \E r \in Requests : InServe /\ Read(r)
  \/ \E r \in Requests : InServe /\ Write(r)
  \/ \E r \in Requests : InServe /\ Unlock(r)
  \/ InServe /\ HelperEnds
  \/ InServe /\ OpenWindow
  \/ InServe /\ WindowCloses
  \/ InServe /\ Check
  \/ InServe /\ Recreate
  \/ InServe /\ Shutdown
  \/ InServe /\ Continue
  \/ InSpawn /\ Copy!Spawn

(* Fairness, PmapFairness and ServeFairness, each in its scene. *)
SceneFairness ==
  /\ \A s \in Strands : WF_vars(InModules /\ Ends(s))
  /\ \A q \in Calls : WF_pmapVars(InPmap /\ Caller(q)) /\ \A w \in Workers : WF_pmapVars(InPmap /\ Worker(q, w))
  /\ \A r \in Requests : WF_serveVars(InServe /\ Handle(r))
  /\ WF_serveVars(InServe /\ HelperEnds) /\ WF_serveVars(InServe /\ Watch)

SceneSpec ==
  SceneInit /\ [][SceneNext]_<<scene, vars, pmapVars, serveVars, spawnVars>> /\ SceneFairness

-----------------------------------------------------------------------------
(* A spawned strand works on its own copy of all it can reach, shaped like   *)
(* the original: SnapshotFaithful of Snapshot (closureSnapshot).             *)
SnapshotFaithful == Copy!SnapshotFaithful
=============================================================================
