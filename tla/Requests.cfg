SPECIFICATION RetriedSpec
CONSTANTS
  v1 = v1
  None = None
  Version <- OnlyV1
  AcceptanceMode <- AllPassive
  ValidFrom <- DayZero
  HardDeadline <- DayZero
  ObjectionPeriod <- OneDay
  Customer = {c1}
  Holder = {c1}
  Handler = {p1, p2}
  Sweeper = {s1}
  Publisher = {}
  Key = {k1}
  KeyVersion <- ForV1
  MaxPolls = 2
  MaxTime = 1
  MaxFaults = 1
CHECK_DEADLOCK FALSE
INVARIANTS RequestTypeOK ReservationExclusive RefusedWithoutEffect
PROPERTIES KeepsPromise CallEnds
