\* The store: two processes, three strands, two keys; the third conflict is
\* one too many.  Its files: two mutations' worth of contents beside the empty
\* map, and the data file is ruined at most once.  Rewrites: two targets.
\* Processes: a budget that two writers exceed, and one breach event at a time.
SPECIFICATION SceneSpec
CONSTANTS
  p1 = p1
  p2 = p2
  s1 = s1
  s2 = s2
  s3 = s3
  Sessions = {p1, p2}
  Strands = {s1, s2, s3}
  SessionOf <- TwoProcesses
  Keys = {k1, k2}
  Vals = {0, 1}
  Absent = Absent
  Transforms <- Counting
  MaxRetries = 3
  None = None
  Empty = e
  Snapshots = {e, a, b}
  Missing = Missing
  Torn = Torn
  MaxDamage = 1
  Targets = 2
  NoFile = NoFile
  Calls <- AllKinds
  Limit = 1
  PipeSize = 1
  MaxQueue = 1
  InheritStdin = FALSE
INVARIANTS MemoryIsDisk Exclusive OnlyAcknowledged BackupIsGood BackupFirst BudgetExact NothingLost TellsTheCause Released
PROPERTIES ImplementsStore UpdateEnds OldOrNewUndamaged ReplacedWhole ExitIsPublished
CHECK_DEADLOCK FALSE
