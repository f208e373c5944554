SPECIFICATION RolledOutSpec
CONSTANTS
  v1 = v1
  v2 = v2
  None = None
  Version <- MCVersion
  AcceptanceMode <- PassiveFirst
  ValidFrom <- MCValidFrom
  HardDeadline <- PassiveFirstDeadline
  ObjectionPeriod <- MCPeriod
  Customer = {c1}
  Holder = {c1}
  Handler = {p1, p2}
  Sweeper = {s1, s2}
  Publisher = {}
  MaxTime = 2
  MaxFaults = 1
CHECK_DEADLOCK FALSE
INVARIANTS AcceptedRowHasEvidence OneWriterWins ObjectionStopsTacit
PROPERTIES ImplementsLedger
SYMMETRY Handlers
