\* A Claude session with two callers and a Codex session, every binding, a
\* restart, shutdown; fair goroutines, pumps that may stick, a single socket.
SPECIFICATION FairSpec
CONSTANTS
  Claude = {"c"}
  Codex = {"x"}
  Uses <- Both
  MaxHosts = 2
  Sockets = 1
  StuckPumps = TRUE
INVARIANT TokensCurrent
INVARIANT EndRefusedWhileBusy
PROPERTY EverySlotSettles
PROPERTY ShutdownCompletes
\* after a shutdown nothing is left to do
CHECK_DEADLOCK FALSE
