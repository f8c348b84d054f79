\* The reaper of an old host against a new one.
SPECIFICATION Spec
CONSTANTS
  Claude = {"c"}
  Codex = {}
  Uses <- OneCaller
  MaxHosts = 2
  Sockets = 2
  StuckPumps = FALSE
INVARIANT IdleHasNoHost
\* after a shutdown nothing is left to do
CHECK_DEADLOCK FALSE
