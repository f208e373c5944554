SPECIFICATION RolledOutSpec
CONSTANTS
  v1 = v1
  v2 = v2
  None = None
  Version <- MCVersion
  AcceptanceMode <- ActiveFirst
  ValidFrom <- MCValidFrom
  HardDeadline <- ActiveFirstDeadline
  ObjectionPeriod <- MCPeriod
  Customer = {c1}
  Holder = {c1}
  Handler = {p1}
  Sweeper = {s1}
  Publisher = {a1}
  MaxTime = 2
  MaxFaults = 1
CHECK_DEADLOCK FALSE
INVARIANTS LifecycleInv EvidenceSettlesRow TacitAfterFullWindow HardDeadlineNeverMoves BlockedOnlyAfterLapse
PROPERTIES SupersededIsFinal StatusOnlyAdvances
