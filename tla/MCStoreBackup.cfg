\* The data file is ruined once: the backup must carry the store.
SPECIFICATION FilesSpec
CONSTANTS
  Empty = e
  Snapshots = {e, a, b}
  Missing = Missing
  Torn = Torn
  MaxDamage = 1
PROPERTY OldOrNew
CHECK_DEADLOCK FALSE
