-------------------------------- MODULE Serve --------------------------------
(***************************************************************************)
(* The GUI server (src/internal/eval/serve.go): requests whose handlers    *)
(* run one at a time on the captured graph of the program, the strand that *)
(* called serve, and the watcher that waits for the browser, removes its   *)
(* profile and shuts the server down.                                      *)
(*                                                                         *)
(* net/http is external: it runs ServeHTTP on a goroutine per request and  *)
(* recovers its panics; Shutdown stops the listener, makes Serve return at *)
(* once and waits for the requests in flight, up to a timeout.             *)
(* A handler updates a variable it captures, in two steps.  It may first   *)
(* wait on a channel for a strand that was spawned before, which itself    *)
(* may wait for a handler.  Helpers of the browser linger after it is gone *)
(* and may create the profile again, Linger checks after the last removal  *)
(* at most.                                                                *)
(***************************************************************************)
EXTENDS Naturals, FiniteSets

CONSTANTS
  Requests,
  Scripts,    (* functions from requests to what their handler does        *)
  Nobody,
  MaxChecks,  (* how often the watcher looks for the profile (50)          *)
  Stable,     (* consecutive absences it asks for (5)                      *)
  Linger      (* checks after which helpers are gone                       *)

Kinds == {"update", "panic", "arity", "badRequest", "wake", "await"}

ASSUME ServeAssumption ==
  /\ IsFiniteSet(Requests) /\ Nobody \notin Requests
  /\ Scripts \subseteq [Requests -> Kinds]
  /\ MaxChecks \in Nat /\ Stable \in Nat /\ Linger \in Nat /\ Linger < Stable

VARIABLES
  script,     (* script[r]: what the handler of r does                     *)
  request,    (* request[r]: how far the request is                        *)
  mu,         (* the request that holds the lock, or Nobody                *)
  cell,       (* the captured variable                                     *)
  seen,       (* seen[r]: what the handler of r read from it               *)
  helper,     (* the spawned strand                                        *)
  caller,     (* the strand that called serve                              *)
  ready,      (* the scheduler's count of runnable strands                 *)
  browser,    (* the browser and the watcher                               *)
  profile,    (* the profile directory exists                              *)
  absent,     (* consecutive checks that did not find it                   *)
  checks      (* checks made                                               *)

handling == <<request, mu, cell, seen>>
watching == <<browser, profile, absent, checks>>
serveVars == <<script, handling, helper, caller, ready, watching>>

ServeInit ==
  /\ script \in Scripts
  /\ request = [r \in Requests |-> "new"]
  /\ mu = Nobody /\ cell = 0 /\ seen = [r \in Requests |-> 0]
  /\ helper \in {"running", "waiting", "ended"}
  /\ caller = "serving"
  /\ ready = IF helper = "running" THEN 2 ELSE 1
  /\ browser = "off" /\ profile = FALSE /\ absent = 0 /\ checks = 0

-----------------------------------------------------------------------------
(* A request.                                                              *)

Go(r, to) == request' = [request EXCEPT ![r] = to]

(* The listener accepts it while the server is up. *)
Arrive(r) ==
  /\ request[r] = "new" /\ caller = "serving"
  /\ Go(r, "arrived")
  /\ UNCHANGED <<script, mu, cell, seen, helper, caller, ready, watching>>

(* requestValue, before the lock. *)
Parse(r) ==
  /\ request[r] = "arrived"
  /\ Go(r, IF script[r] = "badRequest" THEN "answered" ELSE "locking")
  /\ UNCHANGED <<script, mu, cell, seen, helper, caller, ready, watching>>

(* A slip: the handler runs without the lock. *)
Lock_Free(r) ==
  /\ request[r] = "locking"
  /\ mu' = r
  /\ Go(r, "called")
  /\ UNCHANGED <<script, cell, seen, helper, caller, ready, watching>>

Lock(r) ==
  /\ request[r] = "locking" /\ mu = Nobody
  /\ mu' = r
  /\ Go(r, "called")
  /\ UNCHANGED <<script, cell, seen, helper, caller, ready, watching>>

(* callHandlerSafely: the strand is counted, then the arity is checked. *)
Enter(r) ==
  /\ request[r] = "called"
  /\ Go(r, CASE script[r] = "arity" -> "leaving" [] script[r] = "await" -> "awaiting"
             [] OTHER -> "evaluating")
  /\ ready' = ready + 1
  /\ UNCHANGED <<script, mu, cell, seen, helper, caller, watching>>

(* The handler waits for the strand: it is not runnable meanwhile. *)
Await(r) ==
  /\ request[r] = "awaiting"
  /\ IF helper = "ended" THEN Go(r, "evaluating") /\ UNCHANGED ready
     ELSE Go(r, "suspended") /\ ready' = ready - 1
  /\ UNCHANGED <<script, mu, cell, seen, helper, caller, watching>>

Awaited(r) ==
  /\ request[r] = "suspended" /\ helper = "ended"
  /\ Go(r, "evaluating")
  /\ ready' = ready + 1
  /\ UNCHANGED <<script, mu, cell, seen, helper, caller, watching>>

Read(r) ==
  /\ request[r] = "evaluating"
  /\ seen' = [seen EXCEPT ![r] = cell]
  /\ Go(r, "updating")
  /\ UNCHANGED <<script, mu, cell, helper, caller, ready, watching>>

(* It writes, and ends, well or with a value that is no response; or it    *)
(* panics; or it sends to the strand that waits.                           *)
Write(r) ==
  /\ request[r] = "updating"
  /\ cell' = IF script[r] = "panic" THEN cell ELSE seen[r] + 1
  /\ Go(r, "leaving")
  /\ IF script[r] = "wake" /\ helper = "waiting"
       THEN helper' = "running" /\ ready' = ready + 1
       ELSE UNCHANGED <<helper, ready>>
  /\ UNCHANGED <<script, mu, seen, caller, watching>>

(* A slip: a panic leaves with the lock, and net/http recovers it. *)
Unlock_Panicked(r) ==
  /\ request[r] = "leaving" /\ mu = r
  /\ Go(r, "answered")
  /\ mu' = IF script[r] = "panic" THEN mu ELSE Nobody
  /\ ready' = ready - 1
  /\ UNCHANGED <<script, cell, seen, helper, caller, watching>>

(* callHandlerSafely recovers a panic; its slot and the lock go in any     *)
(* case, and writeResult answers without them.                             *)
Unlock(r) ==
  /\ request[r] = "leaving"
  /\ Go(r, "answered")
  /\ mu' = Nobody
  /\ ready' = ready - 1
  /\ UNCHANGED <<script, cell, seen, helper, caller, watching>>

(* The strand that handlers and it wait for. *)
HelperEnds ==
  /\ helper = "running"
  /\ helper' = "ended" /\ ready' = ready - 1
  /\ UNCHANGED <<script, handling, caller, watching>>

-----------------------------------------------------------------------------
(* The watcher, when the program asked for a window (open).                *)

(* The profile is made and the browser starts; or there is none to watch,  *)
(* the profile goes, and the server runs until it is interrupted.          *)
OpenWindow ==
  /\ browser = "off"
  /\ \/ browser' \in {"open", "failed"} /\ profile' = TRUE
     \/ browser' = "unwatched" /\ UNCHANGED profile
  /\ UNCHANGED <<script, handling, helper, caller, ready, absent, checks>>

WindowCloses ==
  /\ browser = "open"
  /\ browser' = "closed"
  /\ UNCHANGED <<script, handling, helper, caller, ready, profile, absent, checks>>

Removing == browser \in {"closed", "failed"}

(* removeBrowserProfile: a look at the profile, and an attempt to remove   *)
(* it, which a retained handle may defeat.                                 *)
Check ==
  /\ Removing /\ absent < Stable /\ checks < MaxChecks
  /\ checks' = checks + 1
  /\ IF profile THEN absent' = 0 /\ profile' \in BOOLEAN
     ELSE absent' = absent + 1 /\ UNCHANGED profile
  /\ UNCHANGED <<script, handling, helper, caller, ready, browser>>

(* Helpers of the browser make the profile again, between two checks. *)
Recreate ==
  /\ browser \in {"closed", "failed", "shutdown"} /\ ~profile /\ absent < Linger
  /\ profile' = TRUE
  /\ UNCHANGED <<script, handling, helper, caller, ready, browser, absent, checks>>

Cleaned == absent = Stable \/ checks = MaxChecks

(* A slip: the server shuts down before the profile is removed. *)
Shutdown_First ==
  /\ browser = "closed"
  /\ browser' = "shutdown"
  /\ caller' = "returned"
  /\ UNCHANGED <<script, handling, helper, ready, profile, absent, checks>>

(* Shutdown: the listener closes and Serve returns to the program. *)
Shutdown ==
  /\ browser = "closed" /\ Cleaned
  /\ browser' = "shutdown"
  /\ caller' = "returned"
  /\ UNCHANGED <<script, handling, helper, ready, profile, absent, checks>>

(* What the program does with its variables after serve. *)
Continue ==
  /\ caller = "returned"
  /\ caller' = "ended" /\ ready' = ready - 1
  /\ UNCHANGED <<script, handling, helper, watching>>

-----------------------------------------------------------------------------
Handle(r) ==
  \/ Parse(r) \/ Lock(r) \/ Enter(r) \/ Await(r) \/ Awaited(r)
  \/ Read(r) \/ Write(r) \/ Unlock(r)

Watch == OpenWindow \/ Check \/ Shutdown

ServeNext ==
  \/ \E r \in Requests : Arrive(r) \/ Handle(r)
  \/ HelperEnds \/ Watch \/ WindowCloses \/ Recreate \/ Continue

ServeSpec == ServeInit /\ [][ServeNext]_serveVars

(* Goroutines run, handlers end, and the strand they wait for does.        *)
ServeFairness ==
  /\ \A r \in Requests : WF_serveVars(Handle(r))
  /\ WF_serveVars(HelperEnds) /\ WF_serveVars(Watch)

-----------------------------------------------------------------------------
(* Properties.                                                             *)

(* "The original captured graph ... remains safe and stateful across       *)
(* requests" (callHandlerSafely): no update of a handler is lost, whatever *)
(* other requests are under way.                                           *)
Updates(r) ==
  /\ script[r] \in {"update", "wake", "await"}
  /\ request[r] \in {"leaving", "answered"}
NoLostUpdate == cell = Cardinality({r \in Requests : Updates(r)})

(* "A handler that dies becomes a 500 response, never a crashed server"    *)
(* (MANUAL.md:4541): every request is answered, whatever the handlers      *)
(* before it did, unless one waits for a strand that waits for a handler.  *)
Stuck == helper = "waiting" /\ \E r \in Requests : request[r] = "suspended"
RequestsAnswered ==
  \A r \in Requests : []<>(request[r] \in {"new", "answered"} \/ Stuck)

(* "Once Serve returns, a standalone can exit immediately" (openAndWatch): *)
(* by then the profile is gone for good, unless its removal gave up.       *)
ProfileGone == caller # "serving" /\ checks < MaxChecks => ~profile

(* "Blocks until shutdown" (REFERENCE.md:755), with one handler at a time  *)
(* on the captured graph: the caller of serve and a handler never evaluate *)
(* at the same time.                                                       *)
Evaluating(r) == request[r] \in {"called", "awaiting", "evaluating", "updating", "leaving"}
BlocksUntilShutdown == caller = "returned" => \A r \in Requests : ~Evaluating(r)
=============================================================================
