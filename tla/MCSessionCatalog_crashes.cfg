SPECIFICATION Spec
CONSTANTS
    Wsids = {a, b}
    Callers = {c1, c2}
    Cap = 2
    MaxView = 2
    MaxFaults = 2
    MaxRestarts = 1
    Shared = FALSE
SYMMETRY Symmetry
\* the bounds end a history
CHECK_DEADLOCK FALSE
INVARIANT Kept
INVARIANT SlotsMatch
INVARIANT EntriesFitViews
INVARIANT IdentityRecorded
