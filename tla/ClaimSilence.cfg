SPECIFICATION Spec
CONSTANTS
  v1 = v1
  v2 = v2
  v3 = v3
  None = None
  Version <- MCVersion
  AcceptanceMode <- ActiveFirst
  ValidFrom <- MCValidFrom
  HardDeadline <- ActiveFirstDeadline
  ObjectionPeriod <- MCPeriod
  Customer = {c1}
  Holder = {c1}
  Handler = {p1}
  Sweeper = {s1}
  Publisher = {a1}
  MaxTime = 2
  MaxFaults = 0
CHECK_DEADLOCK FALSE
PROPERTIES SilenceNeverLiftsBlock
