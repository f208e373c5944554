SPECIFICATION RolledOutSpec
CONSTANTS
  v1 = v1
  v2 = v2
  v3 = v3
  None = None
  Version <- MCVersion
  AcceptanceMode <- PassiveFirst
  ValidFrom <- MCValidFrom
  HardDeadline <- PassiveFirstDeadline
  ObjectionPeriod <- MCPeriod
  Customer = {c1}
  Holder = {c1}
  Handler = {p1}
  Sweeper = {}
  Publisher = {a1}
  MaxTime = 1
  MaxFaults = 0
CHECK_DEADLOCK FALSE
PROPERTIES AcceptedNeverSuperseded
