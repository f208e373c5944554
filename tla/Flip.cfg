SPECIFICATION ScheduledFair
CONSTANTS
  v1 = v1
  v2 = v2
  None = None
  Version <- MCVersion
  AcceptanceMode <- ActiveFirst
  ValidFrom <- MCValidFrom
  HardDeadline <- MCDeadline
  ObjectionPeriod <- MCPeriod
  Audience = audience
  Customer = {c1}
  Holder = {c1}
  Handler = {p1}
  Sweeper = {s1}
  Publisher = {}
  MaxTime = 1
  MaxFaults = 1
CHECK_DEADLOCK FALSE
INVARIANTS ScheduledInv BlockedCanAnswer ChipMatchesFilter BreakdownSums
PROPERTIES InForceNeverRetired BlockIsAccountedFor OlderIsRetired BlockReachesSuccessor GateOpensForCause DueIsSettled AcceptanceIsRecorded
