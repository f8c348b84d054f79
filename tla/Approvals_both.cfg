SPECIFICATION FairSpec
CONSTANTS
  Requests = {"r1", "r2"}
  Providers = {"claude", "codex"}
  QueueCap = 1
\* every request has been answered
CHECK_DEADLOCK FALSE
INVARIANT FailClosed
INVARIANT CodexAuditNamesAnswer
PROPERTY FrozenStaysClosed
PROPERTY EventuallyAnswered
