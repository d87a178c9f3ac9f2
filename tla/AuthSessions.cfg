SPECIFICATION Spec
INVARIANTS
  TypeOK
  IdentifiersAreExclusive
  RevokedIsRefused
  UsedTokensAreDead
  TokensMatchSessions
CONSTANTS
  a1 = a1
  a2 = a2
  a3 = a3
  a4 = a4
  l1 = l1
  l2 = l2
  f1 = f1
  o1 = o1
  v1 = v1
  w1 = w1
  bob = bob
  ada = ada
  mail = mail
  post = post
  number = number
  None = None
  Accounts = {a1, a2, a3, a4}
  Identifiers = {bob, ada, mail, post, number}
  Kind <- MCKind
  Username <- MCUsername
  Email <- MCEmail
  Phone <- MCPhone
  Logins = {l1, l2}
  Refreshes = {f1}
  Logouts = {o1}
  Revocations = {v1}
  Verifications = {w1}
  Faults = {"redis", "crash"}
ACTION_CONSTRAINT MCApart
SYMMETRY MCSymmetry
CHECK_DEADLOCK FALSE
