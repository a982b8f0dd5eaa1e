\* From an edited schema to the migrated database, on five backends.
SPECIFICATION Spec
CONSTANTS
  Absent = Absent
  Table <- MCTable
  Edits <- MCEdits
  MaxRetries = 1
INVARIANTS
  ReferencedComeFirst
  EachTableOnce
  AdditiveKeepsEverything
  AppliedReachesTarget
  CreationsRunThrough
  
CHECK_DEADLOCK FALSE
