\* A script: one submission, one goroutine, one channel.
SPECIFICATION SpecImports
CONSTANTS
  Main = main
  Pool = {p1}
  Chans = {c1}
  Capacity <- Unbuffered
  MaxLive = 1
  MaxOps = 2
  MaxRuns = 1
  MaxWorkers = 1
  None = None
INVARIANT StuckWaitsAreClaimed
CHECK_DEADLOCK FALSE
