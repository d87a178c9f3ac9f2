SPECIFICATION FairSpec
INVARIANTS
  TypeOK
  ReportedOnce
  LossIsExcused
PROPERTIES
  EventsAreCommitted
CONSTANTS
  report = report
  chat = chat
  p1 = p1
  p2 = p2
  Msgs = {report, chat}
  Anonymous = {chat}
  Reports = {report}
  Partitions = {p1, p2}
  MaxEvents = 3
  MaxCrashes = 2
  Faults = {"redis", "kafka"}
ACTION_CONSTRAINT MCFirst
CHECK_DEADLOCK FALSE
