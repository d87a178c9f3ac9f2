SPECIFICATION Spec
INVARIANT OnlineEventDelivers
CONSTANTS
  u1 = u1
  n1 = n1
  c1 = c1
  c2 = c2
  t1 = t1
  t2 = t2
  t3 = t3
  p1 = p1
  p2 = p2
  None = None
  Users = {u1}
  Nodes = {n1}
  Conns = {c1}
  ConnUser <- MCConnUser
  ConnNode <- MCConnNode
  Patient = {u1}
  Msgs = {1}
  MsgUser <- MCMsgUser
  Tasks = {t1}
  TaskMsgs <- MCDisjoint
  Partitions = {p1}
  MaxMessageCount = 1
  BatchArchiveSize = 1
  Faults = {}
CHECK_DEADLOCK FALSE
