\* Two sessions, three generations, three closed segments, one end of the process and one fault.
SPECIFICATION Spec
CONSTANTS
  Sessions = {w1, w2}
  MaxGens = 3
  MaxFrames = 1
  MaxViews = 3
  MaxCrashes = 1
  MaxFaults = 1
SYMMETRY Interchangeable
INVARIANT ResolvedIsComplete
INVARIANT JobsSurvive
INVARIANT QueueIsSeen
\* The process may be down for good once the bound on crashes is reached.
CHECK_DEADLOCK FALSE
