-------------------------------- MODULE Modules --------------------------------
(***************************************************************************)
(* Module imports (src/internal/eval/module.go): the registry that loads   *)
(* each module once for all strands of a session, and the two ways it      *)
(* detects an import cycle: the chain of imports a module environment      *)
(* carries, and the edges between loads that wait for each other.          *)
(*                                                                         *)
(* What the files hold is the import graph: which modules the code of a    *)
(* module names.  Its top level imports some of them, in any order, and    *)
(* succeeds or fails; so do its functions, whenever they are called.       *)
(* An import that finds a finished load changes nothing and is no step.    *)
(***************************************************************************)
EXTENDS Naturals, Sequences, FiniteSets

CONSTANTS
  ModuleNames,
  Graphs,    (* the import graphs considered, by importer                  *)
  Strands,
  Main,      (* the strand that runs the program; the others are spawned   *)
  Loads,     (* moduleEntry objects, in the order of their creation        *)
  NoLoad,    (* the program itself, or no entry                            *)
  MaxUses,   (* how many imports, calls and spawns a strand makes          *)
  Unused

ASSUME ModulesAssumption ==
  /\ IsFiniteSet(ModuleNames)
  /\ Graphs \subseteq [ModuleNames -> SUBSET ModuleNames]
  /\ Main \in Strands
  /\ Loads \subseteq Nat
  /\ NoLoad \notin Loads
  /\ MaxUses \in Nat
  /\ Unused \notin ModuleNames

VARIABLES
  graph,     (* the import graph of the files                              *)
  registry,  (* registry[m]: the entry of m, NoLoad when there is none     *)
  entry,     (* entry[e]: what the entry e holds                           *)
  stack,     (* stack[s]: the activations of strand s, the innermost last  *)
  parked,    (* parked[s]: the entry whose done channel s waits for        *)
  unborn,    (* strands not spawned yet                                    *)
  uses,      (* uses[s]: how many imports, calls and spawns s has made     *)
  refused    (* <<importer, module>> pairs reported as import cycles       *)

vars == <<graph, registry, entry, stack, parked, unborn, uses, refused>>

-----------------------------------------------------------------------------
Entries == [module : ModuleNames, phase : {"loading", "loaded", "failed"},
            chain : SUBSET ModuleNames, waitsFor : SUBSET Loads]

NoEntry == [module |-> Unused, phase |-> "none", chain |-> {}, waitsFor |-> {}]

(* An activation runs code of the module of the entry `env` (NoLoad: of    *)
(* the program), lexically; it is the load of that entry when `leads`.     *)
Frames == [env : Loads \cup {NoLoad}, leads : BOOLEAN]

TypeOK ==
  /\ graph \in Graphs
  /\ registry \in [ModuleNames -> Loads \cup {NoLoad}]
  /\ entry \in [Loads -> Entries \cup {NoEntry}]
  /\ stack \in [Strands -> Seq(Frames)]
  /\ parked \in [Strands -> Loads \cup {NoLoad}]
  /\ unborn \subseteq Strands
  /\ uses \in [Strands -> 0..MaxUses]
  /\ refused \subseteq ModuleNames \X ModuleNames
  /\ \A m \in ModuleNames : registry[m] # NoLoad =>
       LET e == entry[registry[m]] IN e.module = m /\ e.phase \in {"loading", "loaded"}

Init ==
  /\ graph \in Graphs
  /\ registry = [m \in ModuleNames |-> NoLoad]
  /\ entry = [e \in Loads |-> NoEntry]
  /\ stack = [s \in Strands |-> IF s = Main THEN <<[env |-> NoLoad, leads |-> FALSE]>> ELSE <<>>]
  /\ parked = [s \in Strands |-> NoLoad]
  /\ unborn = Strands \ {Main}
  /\ uses = [s \in Strands |-> 0]
  /\ refused = {}

-----------------------------------------------------------------------------
Top(s) == stack[s][Len(stack[s])]
Pop(s) == SubSeq(stack[s], 1, Len(stack[s]) - 1)

(* s executes code of its innermost activation. *)
Running(s) == stack[s] # <<>> /\ parked[s] = NoLoad

Current(s) == Top(s).env  (* currentModuleEntry *)

Chain(s) == IF Current(s) = NoLoad THEN {} ELSE entry[Current(s)].chain

(* What the code s executes may import. *)
Named(s) == IF Current(s) = NoLoad THEN ModuleNames ELSE graph[entry[Current(s)].module]

Use(s) == uses[s] < MaxUses /\ uses' = [uses EXCEPT ![s] = @ + 1]

InFlight(e) == e # NoLoad /\ entry[e].phase = "loading"

(* moduleWaitPath: target is reached from e along edges of loads in flight. *)
WaitPath(e, target) ==
  \A S \in SUBSET Loads :
    e \in S /\ (\A x \in S : InFlight(x) => entry[x].waitsFor \subseteq S) => target \in S

(* A slip: a module being loaded by anyone is a cycle. *)
Cyclic_Anywhere(s, m) == Current(s) # NoLoad /\ InFlight(registry[m])

(* env.loading: m is being, or was, loaded up the chain of this import. *)
Cyclic(s, m) == m \in Chain(s)

(* A slip: two loads may wait for each other. *)
Entangled_Never(s, m) == FALSE

(* To wait for m would close a circle of recorded waits. *)
Entangled(s, m) == InFlight(Current(s)) /\ WaitPath(registry[m], Current(s))

(* The import is reported as a cycle: by the chain, or by the edges. *)
Refuse(s, m) ==
  /\ Running(s) /\ m \in Named(s) /\ Use(s)
  /\ Cyclic(s, m) \/ (InFlight(registry[m]) /\ Entangled(s, m))
  /\ refused' = refused \cup {<<entry[Current(s)].module, m>>}
  /\ UNCHANGED <<graph, registry, entry, stack, parked, unborn>>

(* A slip: the edge is not recorded. *)
Wait_Unrecorded(s, m) ==
  /\ Running(s) /\ m \in Named(s) /\ Use(s)
  /\ ~Cyclic(s, m) /\ InFlight(registry[m]) /\ ~Entangled(s, m)
  /\ parked' = [parked EXCEPT ![s] = registry[m]]
  /\ UNCHANGED <<graph, registry, entry, stack, unborn, refused>>

(* Another import of m is in flight: s waits for it. *)
Wait(s, m) ==
  /\ Running(s) /\ m \in Named(s) /\ Use(s)
  /\ ~Cyclic(s, m) /\ InFlight(registry[m]) /\ ~Entangled(s, m)
  /\ parked' = [parked EXCEPT ![s] = registry[m]]
  /\ entry' = IF InFlight(Current(s))
                THEN [entry EXCEPT ![Current(s)].waitsFor = @ \cup {registry[m]}]
                ELSE entry
  /\ UNCHANGED <<graph, registry, stack, unborn, refused>>

(* The load s waits for is over, well or badly; its edge goes. *)
Resume(s) ==
  /\ parked[s] # NoLoad /\ ~InFlight(parked[s])
  /\ parked' = [parked EXCEPT ![s] = NoLoad]
  /\ entry' = IF Current(s) = NoLoad
                THEN entry
                ELSE [entry EXCEPT ![Current(s)].waitsFor = @ \ {parked[s]}]
  /\ UNCHANGED <<graph, registry, stack, unborn, uses, refused>>

Fresh(e) == entry[e] = NoEntry /\ \A d \in Loads : entry[d] = NoEntry => e <= d

(* s is the first to import m: it makes the entry and runs the module. *)
Lead(s, m, e) ==
  /\ Running(s) /\ m \in Named(s) /\ Use(s)
  /\ ~Cyclic(s, m) /\ Fresh(e)
  /\ registry[m] = NoLoad
  /\ registry' = [registry EXCEPT ![m] = e]
  /\ entry' = [entry EXCEPT ![e] = [module |-> m, phase |-> "loading",
                                    chain |-> Chain(s) \cup {m}, waitsFor |-> {}]]
  /\ stack' = [stack EXCEPT ![s] = Append(@, [env |-> e, leads |-> TRUE])]
  /\ UNCHANGED <<graph, parked, unborn, refused>>

(* A slip: a failed load stays in flight for those who wait. *)
Finish_Unannounced(s, phase) ==
  LET e == Current(s)
  IN  /\ Running(s) /\ Top(s).leads
      /\ entry' = IF phase = "loaded"
                    THEN [entry EXCEPT ![e].phase = phase, ![e].waitsFor = {}]
                    ELSE entry
      /\ registry' = IF phase = "failed"
                       THEN [registry EXCEPT ![entry[e].module] = NoLoad]
                       ELSE registry
      /\ stack' = [stack EXCEPT ![s] = Pop(s)]
      /\ UNCHANGED <<graph, parked, unborn, uses, refused>>

(* The top level of the module has ended: the entry is answered, and a     *)
(* failed one leaves the registry, so that an import may try again.        *)
Finish(s, phase) ==
  LET e == Current(s)
  IN  /\ Running(s) /\ Top(s).leads
      /\ entry' = [entry EXCEPT ![e].phase = phase, ![e].waitsFor = {}]
      /\ registry' = IF phase = "failed" /\ registry[entry[e].module] = e
                       THEN [registry EXCEPT ![entry[e].module] = NoLoad]
                       ELSE registry
      /\ stack' = [stack EXCEPT ![s] = Pop(s)]
      /\ UNCHANGED <<graph, parked, unborn, uses, refused>>

(* s calls a function of a module its code has imported. *)
Call(s, m) ==
  /\ Running(s) /\ m \in Named(s) /\ Use(s)
  /\ ~Cyclic(s, m) /\ registry[m] # NoLoad /\ ~InFlight(registry[m])
  /\ stack' = [stack EXCEPT ![s] = Append(@, [env |-> registry[m], leads |-> FALSE])]
  /\ UNCHANGED <<graph, registry, entry, parked, unborn, refused>>

(* The function, or the strand, ends. *)
Return(s) ==
  /\ Running(s) /\ ~Top(s).leads
  /\ stack' = [stack EXCEPT ![s] = Pop(s)]
  /\ UNCHANGED <<graph, registry, entry, parked, unborn, uses, refused>>

(* The snapshot of the environment keeps its chain and its entry. *)
Spawn(s, t) ==
  /\ Running(s) /\ t \in unborn /\ Use(s)
  /\ unborn' = unborn \ {t}
  /\ stack' = [stack EXCEPT ![t] = <<[env |-> Current(s), leads |-> FALSE]>>]
  /\ UNCHANGED <<graph, registry, entry, parked, refused>>

Ends(s) == Resume(s) \/ Return(s) \/ \E phase \in {"loaded", "failed"} : Finish(s, phase)

Imports(s) ==
  \E m \in ModuleNames : Refuse(s, m) \/ Wait(s, m) \/ Call(s, m) \/ \E e \in Loads : Lead(s, m, e)

Next == \E s \in Strands : Imports(s) \/ Ends(s) \/ \E t \in Strands : Spawn(s, t)

Spec == Init /\ [][Next]_vars

(* Code ends, and a closed channel wakes those who wait for it. *)
Fairness == \A s \in Strands : WF_vars(Ends(s))

-----------------------------------------------------------------------------
(* Properties.                                                             *)

Leading(s) == {stack[s][i].env : i \in {j \in 1..Len(stack[s]) : stack[s][j].leads}}

(* The edges between loads in flight are the waits of the strands that     *)
(* execute module code, neither more nor fewer, though several strands     *)
(* share an environment and the edges are a set (waitsFor).                *)
EdgesAreWaits ==
  \A e, d \in Loads : InFlight(e) /\ InFlight(d) =>
    (d \in entry[e].waitsFor <=> \E s \in Strands : parked[s] = d /\ Current(s) = e)

(* Strands of S wait for each other: no load they wait for can end. *)
Deadlocked(S) ==
  S # {} /\ \A s \in S : parked[s] # NoLoad /\ \E t \in S : parked[s] \in Leading(t)

(* REFERENCE.md:339: cycles, including cross-worker wait cycles, are       *)
(* errors and never deadlock.                                              *)
NoImportDeadlock == \A S \in SUBSET Strands : ~Deadlocked(S)

(* A strand executes the top level of the one module it loads. *)
Flat(s) == Len(stack[s]) = 2 /\ Top(s).leads

(* What the edges are there for: strands that each load one module never   *)
(* wait for each other in a circle (the A->B / B->A case of moduleEntry).  *)
NoFlatDeadlock == \A S \in SUBSET Strands : (\A s \in S : Flat(s)) => ~Deadlocked(S)

(* m is reached from n along one import or more. *)
Reaches(n, m) ==
  \A S \in SUBSET ModuleNames :
    graph[n] \subseteq S /\ (\A x \in S : graph[x] \subseteq S) => m \in S

(* Only imports that do form a circle are reported as one, however the     *)
(* loads of the strands are interleaved ("concurrent loads of the same     *)
(* module never false-trigger a cycle", loadModule).                       *)
RefusalsAreReal ==
  \A r \in refused : r[2] \in graph[r[1]] /\ (r[1] = r[2] \/ Reaches(r[2], r[1]))

(* Where the imports form no circle, every import is answered. *)
ImportsEnd ==
  (\A m \in ModuleNames : ~Reaches(m, m)) =>
    \A s \in Strands : []<>(parked[s] = NoLoad)
=============================================================================
