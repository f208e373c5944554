SPECIFICATION FirstSpec
CONSTANTS
  v1 = v1
  v2 = v2
  None = None
  Version <- MCVersion
  AcceptanceMode <- ActiveFirst
  ValidFrom <- AllAtOnce
  HardDeadline <- MCDeadline
  ObjectionPeriod <- MCPeriod
  Audience = audience
  Customer = {c1}
  Holder = {c1}
  Handler = {}
  Sweeper = {s1}
  Publisher = {a1}
  MaxTime = 0
  MaxFaults = 0
CHECK_DEADLOCK FALSE
PROPERTIES InForceNeverRetired
