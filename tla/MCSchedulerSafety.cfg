\* Three goroutines beside Main and one channel with one buffer slot.
SPECIFICATION Spec
CONSTANTS
  Main = main
  Pool = {p1, p2, p3}
  c1 = c1
  c2 = c2
  Chans = {c1}
  Capacity <- OneSlot
  MaxLive = 2
  MaxOps = 2
  MaxRuns = 1
  MaxWorkers = 2
  None = None
SYMMETRY PoolSymmetry
INVARIANTS RunnableExact NoMissedMatch NoLostWaiter NoForgottenClaim CountersExact
PROPERTIES DeadlockSound
CHECK_DEADLOCK FALSE
