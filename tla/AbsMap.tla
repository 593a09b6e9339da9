------------------------------- MODULE AbsMap -------------------------------
(***************************************************************************)
(* What pmap promises: the callback is applied to every item once, the     *)
(* answer is the array of the results in the order of the items, or the    *)
(* first failure heard of, and an abort is never downgraded to an Err.     *)
(***************************************************************************)
EXTENDS Naturals, Sequences

CONSTANTS
  Calls,    (* calls of pmap                                               *)
  Budget,   (* how many callbacks may be under way in a call               *)
  Pending   (* the answer of a call that has not returned                  *)

VARIABLES
  what,     (* what[c]: what the callback does with each item of c         *)
  ran,      (* ran[c]: the items the callback was applied to, in order     *)
  result    (* result[c]: the answer of c                                  *)

vars == <<what, ran, result>>

Init ==
  /\ ran = [c \in Calls |-> <<>>]
  /\ result = [c \in Calls |-> Pending]

(* A callback that calls pmap itself ends the way that call does. *)
Outcome(c, i) == IF what[c][i] \in Calls THEN result[what[c][i]][1] ELSE what[c][i]
Ready(c, i) == what[c][i] \in Calls => result[what[c][i]] # Pending

Applied(c) == {ran[c][k] : k \in DOMAIN ran[c]}

(* A failure is followed by callbacks that were under way, and no others. *)
Heeded(c) ==
  \A k \in DOMAIN ran[c] : Outcome(c, ran[c][k]) # "ok" => Len(ran[c]) - k < Budget - 1

Apply(c, i) ==
  /\ result[c] = Pending /\ i \notin Applied(c) /\ Ready(c, i) /\ Heeded(c)
  /\ ran' = [ran EXCEPT ![c] = Append(@, i)]
  /\ UNCHANGED <<what, result>>

Failed(c, how) == {i \in Applied(c) : Outcome(c, i) = how}

Answers(c) ==
  IF Failed(c, "abort") # {} THEN {<<"abort", i>> : i \in Failed(c, "abort")}
  ELSE IF Failed(c, "err") # {} THEN {<<"err", i>> : i \in Failed(c, "err")}
  ELSE IF Applied(c) = DOMAIN what[c] THEN {<<"ok", [i \in DOMAIN what[c] |-> i]>>}
  ELSE {}

(* The snapshot of the callback may exceed its limits before anything runs. *)
Answer(c) ==
  /\ result[c] = Pending
  /\ \E r \in Answers(c) \cup (IF ran[c] = <<>> THEN {<<"err", 0>>} ELSE {}) :
       result' = [result EXCEPT ![c] = r]
  /\ UNCHANGED <<what, ran>>

Next == \E c \in Calls : Answer(c) \/ \E i \in DOMAIN what[c] : Apply(c, i)

Spec == Init /\ [][Next]_vars
=============================================================================
