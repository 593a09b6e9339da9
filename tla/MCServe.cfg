\* The window closes while a handler runs.
SPECIFICATION ServeSpec
CONSTANTS
  r1 = r1
  r2 = r2
  r3 = r3
  Requests = {r1, r2, r3}
  Scripts <- Visits
  Nobody = Nobody
  MaxChecks = 4
  Stable = 2
  Linger = 1
INVARIANT BlocksUntilShutdown
CHECK_DEADLOCK FALSE
