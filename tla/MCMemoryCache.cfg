\* Two threads, room for two of four keys: expiry, evictions and overshoot.
SPECIFICATION FairSpec
CONSTANTS
  w1 = w1
  w2 = w2
  k1 = k1
  k2 = k2
  k3 = k3
  k4 = k4
  Absent = Absent
  Worker <- TwoWorkers
  Key <- FourKeys
  MaxCapacity = 2
  Ttls = {1}
  MaxTime = 1
INVARIANTS
  CountIsSize
  OvershootBounded
PROPERTIES
  SetReturns
