SPECIFICATION Spec
INVARIANTS
  ConnectedIsReachable
  OfflineIsFinal
  SessionsFollowMaps
PROPERTY LooksLikeAccess
CONSTANTS
  n1 = n1
  n2 = n2
  u1 = u1
  c1 = c1
  c2 = c2
  c3 = c3
  m1 = m1
  m2 = m2
  None = None
  Nodes = {n1, n2}
  Users = {u1}
  Conns = {c1, c2, c3}
  Msgs = {}
  QueueCap = 1
  Patient = {u1}
  Faults = {"redis", "kafka", "crash", "shutdown"}
  ConnUser <- MCConnUser
  ConnNode <- MCConnNode
CHECK_DEADLOCK FALSE
