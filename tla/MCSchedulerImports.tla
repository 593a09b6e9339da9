-------------------------- MODULE MCSchedulerImports --------------------------
(* The instances of SchedulerImports that TLC checks. *)
EXTENDS SchedulerImports, TLC

Unbuffered == [c \in Chans |-> 0]
=============================================================================
