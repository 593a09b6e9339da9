\* Imports, pmap, serve and spawn, each in its scene; the graphs a strand is
\* given have two scopes and three objects, at both limits.
SPECIFICATION SceneSpec
CONSTANTS
  a = a
  b = b
  c = c
  ModuleNames <- Three
  Graphs <- AllShapes
  Strands = {main, s1}
  Main = main
  Loads = {1, 2, 3}
  NoLoad = NoLoad
  MaxUses = 3
  Unused = Unused
  q1 = q1
  q2 = q2
  q3 = q3
  Calls = {q1, q2, q3}
  Behaviours <- Some
  Budget = 2
  Pending = Pending
  r1 = r1
  r2 = r2
  r3 = r3
  Requests = {r1, r2, r3}
  Scripts <- Visits
  Nobody = Nobody
  MaxChecks = 4
  Stable = 2
  Linger = 1
  MaxDepth = 4
  MaxNodes = 7
INVARIANTS EdgesAreWaits NoFlatDeadlock RefusalsAreReal NeverIdle SlotsHeld NoLostUpdate ProfileGone SnapshotFaithful
PROPERTIES ImportsEnd ImplementsMap PmapEnds RequestsAnswered
CHECK_DEADLOCK FALSE
