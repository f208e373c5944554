SPECIFICATION OutreachFair
CONSTANTS
  v1 = v1
  c1 = c1
  mail1 = mail1
  mail2 = mail2
  None = None
  UserId = userId
  Version <- MCVersion
  AcceptanceMode <- Active
  ValidFrom <- DayZero
  HardDeadline <- DayTwo
  ObjectionPeriod <- DayOne
  Customer = {c1}
  Holder = {c1}
  Contact <- OneContact
  Deleted = {}
  REMINDER_THRESHOLDS_DAYS <- OneThreshold
  Batch = 1
  Handler = {}
  Sweeper = {}
  Publisher = {}
  Mailer = {m1}
  Reminder = {r1}
  Webhook = {w1}
  Poller = {q1}
  Admin = {}
  NewDeadline = {}
  MaxMails = 4
  Reported = {1}
  MaxTime = 1
  MaxFaults = 1
CHECK_DEADLOCK FALSE
INVARIANTS DeliveryRecordedOnce
