\* Two engines migrate two files with every pair of resolutions and some
\* histories and logs; two writers append up to three events.
SPECIFICATION MCSpec
CONSTANTS
  e1 = e1
  e2 = e2
  m0 = m0
  m1 = m1
  m2 = m2
  a = a
  b = b
  x1 = x1
  x2 = x2
  NoSum = NoSum
  Idle = Idle
  NoResolution = NoResolution
  Nobody = Nobody
  Migration <- ThreeMigrations
  Checksum <- Sums
  Writer <- TwoWriters
  MaxEvents = 3
  MaxRows = 4
  Engine <- TwoEngines
  Files <- TwoFiles
  Histories <- SomeHistories
  Logs <- SomeLogs
  Resolution <- SomeResolutions
  Addition <- OneAddition
INVARIANTS
  
  ReplayIsLastWord
PROPERTIES
  HistoryIsHonest
SYMMETRY EngineSymmetry
CHECK_DEADLOCK FALSE
