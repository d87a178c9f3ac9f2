SPECIFICATION FairSpec
INVARIANTS
  TypeOK
  NoGhostClient
  NobodyIsStuck
PROPERTIES
  PumpsEndTogether
  QueuesDrain
  SessionsDieOut
  LooksLikeAccess
CONSTANTS
  n1 = n1
  n2 = n2
  u1 = u1
  c1 = c1
  c2 = c2
  c3 = c3
  m1 = m1
  m2 = m2
  None = None
  Nodes = {n1}
  Users = {u1}
  Conns = {c1, c2}
  Msgs = {m1, m2}
  QueueCap = 1
  Patient = {}
  Faults = {"redis", "crash"}
  ConnUser <- MCConnUser
  ConnNode <- MCConnNode
ACTION_CONSTRAINT MCInOrder
CHECK_DEADLOCK FALSE
