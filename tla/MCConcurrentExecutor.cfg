\* Two calls of two tasks share two permits; failures, timeouts, dropped calls.
SPECIFICATION FairExec
CONSTANTS
  c1 = c1
  c2 = c2
  Call <- TwoCalls
  TasksPerCall = 2
  MaxConcurrency = 2
  HasTimeout = TRUE
  CounterSize = 8
INVARIANTS
  RunningBounded
  LoneReportIsExact
PROPERTIES
  CallsReturn
CHECK_DEADLOCK FALSE
