\* The heir keeps the read end of the standard input as well.
SPECIFICATION FairProcessSpec
CONSTANTS
  Calls <- Fed
  Limit = 1
  PipeSize = 1
  MaxQueue = 0
  InheritStdin = TRUE
PROPERTIES ExitIsPublished
CHECK_DEADLOCK FALSE
