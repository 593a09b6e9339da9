----------------------------- MODULE MCScheduler -----------------------------
(* The instances of Scheduler that TLC checks. *)
EXTENDS Scheduler, TLC

CONSTANTS c1, c2

OneSlot == [c \in Chans |-> 1]
Mixed == [c \in Chans |-> IF c = c1 THEN 0 ELSE 1]

PoolSymmetry == Permutations(Pool)
=============================================================================
