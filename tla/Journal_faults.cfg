SPECIFICATION JournalSpec
CONSTANTS
  MaxAppends = 5
  MaxCrashes = 4
\* the bounds end a history
CHECK_DEADLOCK FALSE
INVARIANT MemoryIsFile
INVARIANT AckedOutlastRepairs
