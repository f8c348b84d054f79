\* Two sessions on one connection, one call may time out.
SPECIFICATION Spec
CONSTANTS
  Sessions = {w1, w2}
  MaxCalls = 5
  MaxTimeouts = 1
  MaxItems = 1
SYMMETRY Interchangeable
INVARIANT CompletedIsNotBusy
INVARIANT TurnHasRunner
INVARIANT OverlapIsMarked
PROPERTY RoutesOwn
\* when the calls are used up nothing is left to do
CHECK_DEADLOCK FALSE
