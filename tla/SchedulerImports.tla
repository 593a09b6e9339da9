--------------------------- MODULE SchedulerImports ---------------------------
(***************************************************************************)
(* Scheduler composed with the single-flight import of one module          *)
(* (loadModule and runModule of src/internal/eval/module.go): the first    *)
(* importer runs the module's top level, as an entry of the same execution *)
(* context, and the others wait for its done channel.                      *)
(***************************************************************************)
EXTENDS Scheduler

VARIABLES
  modState,  (* "absent", "loading" or "loaded": the registry entry         *)
  leader,    (* the strand that runs the module's top level                 *)
  owns,      (* beginRun returned true to the module's program              *)
  importing  (* the strands waiting for entry.done                          *)

importVars == <<modState, leader, owns, importing>>
allVars == <<vars, importVars>>

InitImports == Init /\ modState = "absent" /\ leader = None /\ owns = FALSE /\ importing = {}

(* use: the first importer becomes the leader, and the program it runs     *)
(* enters the context with beginRun.                                       *)
ImportLead(s) ==
  /\ pc[s] = "run" /\ s \notin importing
  /\ modState = "absent"
  /\ modState' = "loading" /\ leader' = s
  /\ owns' = ~mainActive
  /\ mainActive' = TRUE
  /\ runnable' = IF mainActive THEN runnable ELSE runnable + 1
  /\ UNCHANGED <<importing, owned, waiters, uncounted, awaiters, parked, chanVars, taskVars, strandVars>>

(* The module's top level ended: endRun, then the entry is published. *)
ImportEnd(s) ==
  /\ leader = s /\ pc[s] = "run"
  /\ modState' = "loaded" /\ leader' = None
  /\ owns' = FALSE
  /\ IF owns
       THEN /\ mainActive' = FALSE
            /\ ClaimDeadlocked(IF runnable > 0 THEN runnable - 1 ELSE 0, waiters, awaiters, reply)
       ELSE UNCHANGED <<mainActive, runnable, waiters, uncounted, awaiters, reply>>
  /\ UNCHANGED <<importing, owned, parked, chanVars, taskVars, pc, op, todo, budget, runs>>

(* Another importer waits for entry.done; nothing tells the context. *)
ImportWait(s) ==
  /\ pc[s] = "run" /\ s \notin importing
  /\ modState = "loading" /\ leader # s
  /\ importing' = importing \cup {s}
  /\ UNCHANGED <<modState, leader, owns, vars>>

ImportResume(s) ==
  /\ s \in importing /\ modState = "loaded"
  /\ importing' = importing \ {s}
  /\ UNCHANGED <<modState, leader, owns, vars>>

(* Everything else a strand does; the leader finishes the module first. *)
Otherwise(s) ==
  /\ s \notin importing
  /\ Step(s) \/ (s = Main /\ EndRun)
  /\ leader = s => pc'[s] \notin {"publish", "quit", "quitLast", "off"}
  /\ UNCHANGED importVars

NextImports ==
  \/ BeginRun /\ UNCHANGED importVars
  \/ \E s \in Strands :
       ImportLead(s) \/ ImportEnd(s) \/ ImportWait(s) \/ ImportResume(s) \/ Otherwise(s)

SpecImports == InitImports /\ [][NextImports]_allVars

-----------------------------------------------------------------------------
(* No live strand can take a step that depends only on itself. *)
NobodyProgresses ==
  \A s \in Live :
    \/ s \in waiters /\ pc[s] = "wait"
    \/ s \in awaiters \cup parked
    \/ s \in importing /\ modState = "loading"

(* "When no strand can progress, every unmatched channel waiter and        *)
(* same-context task awaiter is atomically claimed and woken"              *)
(* (concurrency.go, executionContext): then none is left waiting.          *)
StuckWaitsAreClaimed == NobodyProgresses => waiters \cup awaiters = {}
=============================================================================
