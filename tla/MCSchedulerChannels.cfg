\* Two channels, one unbuffered and one with a slot, against their promise; and
\* whether every wait ends.  Liveness forbids symmetry.
SPECIFICATION FairSpec
CONSTANTS
  Main = main
  Pool = {p1, p2}
  c1 = c1
  c2 = c2
  Chans = {c1, c2}
  Capacity <- Mixed
  MaxLive = 1
  MaxOps = 2
  MaxRuns = 1
  MaxWorkers = 2
  None = None
PROPERTIES ImplementsChannels EveryStrandEnds
CHECK_DEADLOCK FALSE
