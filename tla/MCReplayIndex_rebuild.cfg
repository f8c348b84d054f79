SPECIFICATION ReplaySpec
CONSTANTS
    Sessions = {a, b}
    MaxEvents = 4
    MaxFaults = 2
    MaxRestarts = 1
    CatchUpLimit = 1
    MaxAttempts = 1
SYMMETRY Symmetry
\* the bounds end a history
CHECK_DEADLOCK FALSE
INVARIANT IndexExact
INVARIANT DiskFaithful
INVARIANT QuietBeforeFlush
PROPERTY RestartSettlesTurns
