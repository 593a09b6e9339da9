------------------------------- MODULE AbsStore -------------------------------
(***************************************************************************)
(* What a drang store promises its callers: one durable map.  A plain      *)
(* write is one change of it; store_update applies its function to the     *)
(* value that is current at the moment of the change; the writes of a      *)
(* with_store batch go to a draft that only the batch sees and replaces    *)
(* the map at once, or is dropped.  A call may fail, or die with its       *)
(* process, and then it has changed nothing.                               *)
(***************************************************************************)
CONSTANTS Strands, Keys, Vals, Absent, Transforms, None

VARIABLES
  committed, (* the durable map                                      *)
  draft,     (* the map as the open batch sees it, None when no batch *)
  pending    (* pending[s]: the store_update strand s is executing   *)

vars == <<committed, draft, pending>>

Contents == [Keys -> Vals \cup {Absent}]
Updates == [key : Keys, fn : Transforms]

Init ==
  /\ committed \in Contents
  /\ draft = None
  /\ pending = [s \in Strands |-> None]

(* m' is m with one key changed, or emptied. *)
Changed(m, new) ==
  \/ \E k \in Keys, v \in Vals \cup {Absent} : new = [m EXCEPT ![k] = v]
  \/ new = [k \in Keys |-> Absent]

Write ==
  /\ draft = None
  /\ Changed(committed, committed')
  /\ UNCHANGED <<draft, pending>>

Call(s) ==
  /\ pending[s] = None /\ draft = None
  /\ \E c \in Updates : pending' = [pending EXCEPT ![s] = c]
  /\ UNCHANGED <<committed, draft>>

Update(s) ==
  LET c == pending[s]
  IN  /\ c # None /\ draft = None
      /\ committed' = [committed EXCEPT ![c.key] = c.fn[@]]
      /\ pending' = [pending EXCEPT ![s] = None]
      /\ UNCHANGED draft

BeginBatch ==
  /\ draft = None /\ \A s \in Strands : pending[s] = None
  /\ draft' = committed
  /\ UNCHANGED <<committed, pending>>

WriteDraft ==
  /\ draft # None
  /\ Changed(draft, draft')
  /\ UNCHANGED <<committed, pending>>

Commit ==
  /\ draft # None
  /\ committed' = draft /\ draft' = None
  /\ UNCHANGED pending

(* Calls that fail or die, a batch among them. *)
GiveUp ==
  /\ draft' \in {draft, None}
  /\ \E S \in SUBSET Strands :
       pending' = [s \in Strands |-> IF s \in S THEN None ELSE pending[s]]
  /\ UNCHANGED committed

Next ==
  \/ Write \/ BeginBatch \/ WriteDraft \/ Commit \/ GiveUp
  \/ \E s \in Strands : Call(s) \/ Update(s)

Spec == Init /\ [][Next]_vars
=============================================================================
