SPECIFICATION FairSpec
PROPERTIES
  PushesReturn
  EventsAreMarked
  LooksLikeMailbox
CONSTANTS
  u1 = u1
  n1 = n1
  c1 = c1
  c2 = c2
  t1 = t1
  t2 = t2
  t3 = t3
  p1 = p1
  p2 = p2
  None = None
  Users = {u1}
  Nodes = {n1}
  Conns = {c1, c2}
  ConnUser <- MCConnUser
  ConnNode <- MCConnNode
  Patient = {}
  Msgs = {1, 2}
  MsgUser <- MCMsgUser
  Tasks = {t1}
  TaskMsgs <- MCTogether
  Partitions = {p1}
  MaxMessageCount = 2
  BatchArchiveSize = 2
  Faults = {"redis", "rpc", "discovery", "exit", "crash"}
ACTION_CONSTRAINTS
  MCFewCrashes
  MCSecond
CHECK_DEADLOCK FALSE
