SPECIFICATION Spec
INVARIANTS
  TypeOK
  AcceptedOnce
  RepeatsWereAccepted
PROPERTIES
  LiveEntriesStay
CONSTANTS
  r1 = r1
  r2 = r2
  r3 = r3
  r4 = r4
  k1 = k1
  k2 = k2
  k3 = k3
  c1 = c1
  c2 = c2
  c3 = c3
  c4 = c4
  None = None
  Requests = {r1, r2, r3, r4}
  Ids = {k1, k2, k3}
  IdOf <- MCIdOf
  Timestamp <- MCTimestamp
  Checks = {c1, c2, c3, c4}
  Backends = {"memory", "redis"}
  MaxSize = 2
  TimeWindow <- MCTimeWindow
  ExpireTime <- MCExpireTime
  Delay = 1
  MaxTime = 4
  Faults = {"redis", "crash"}
SYMMETRY MCSymmetry
CHECK_DEADLOCK FALSE
