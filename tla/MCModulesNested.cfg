SPECIFICATION Spec
CONSTANTS
  a = a
  b = b
  c = c
  ModuleNames <- Three
  Graphs <- OneCircle
  Strands = {main, s1}
  Main = main
  Loads = {1, 2, 3}
  NoLoad = NoLoad
  MaxUses = 3
  Unused = Unused
INVARIANTS NoImportDeadlock
CHECK_DEADLOCK FALSE
