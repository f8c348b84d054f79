\* One working session, and one that competes with it for the only place.
SPECIFICATION Spec
CONSTANTS
  WSIDs = {w1, w2}
  Working = {w1}
  Providers = {"claude"}
  MaxSessions = 1
  Events = {"approval", "result", "usage"}
  MaxGen = 2
  MaxSeq = 3
  MaxEnd = 2
  MaxReset = 1
  MaxArrivals = 3
CHECK_DEADLOCK FALSE
INVARIANT Ownership
INVARIANT AuditIsArrivalOrder
INVARIANT OneTurnInFlight
PROPERTY NoTokenRevival
PROPERTY LifecycleSpec
