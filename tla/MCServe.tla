------------------------------ MODULE MCServe ------------------------------
(* Three requests, and what their handlers can do. *)
EXTENDS Serve, TLC

CONSTANTS r1, r2, r3

(* A handler that waits for a strand and one that may wake it; the ways a    *)
(* handler can fail.                                                         *)
Visits == { (r1 :> "update") @@ (r2 :> "await") @@ (r3 :> "wake"),
            (r1 :> "panic") @@ (r2 :> "update") @@ (r3 :> "arity"),
            (r1 :> "badRequest") @@ (r2 :> "update") @@ (r3 :> "update") }
=============================================================================
