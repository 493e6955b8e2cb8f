SPECIFICATION FairSpec
CONSTANTS
  Records = {v1,v2}
  IsoRecords = {v1,v2}
  AuditLogs = {}
  Handlers = {h1}
  BatchSize = 2
  MaxBackups = 2
  MaxCrashes = 0
PROPERTIES JobEnds
CHECK_DEADLOCK FALSE
