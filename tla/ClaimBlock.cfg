SPECIFICATION Spec
CONSTANTS
  v1 = v1
  v2 = v2
  v3 = v3
  None = None
  Version <- ThreeVersions
  AcceptanceMode <- AllActive
  ValidFrom <- AllAtOnce
  HardDeadline <- Deadlines
  ObjectionPeriod <- Deadlines
  Customer = {c1}
  Holder = {c1}
  Handler = {}
  Sweeper = {s1}
  Publisher = {a1}
  MaxTime = 1
  MaxFaults = 0
CHECK_DEADLOCK FALSE
PROPERTIES BlockingRowCarriesOver
