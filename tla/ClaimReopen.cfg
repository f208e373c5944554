SPECIFICATION OutreachSpec
CONSTANTS
  v1 = v1
  c1 = c1
  mail1 = mail1
  mail2 = mail2
  None = None
  UserId = userId
  Version <- MCVersion
  AcceptanceMode <- Passive
  ValidFrom <- DayZero
  HardDeadline <- DayZero
  ObjectionPeriod <- DayOne
  Customer = {c1}
  Holder = {c1}
  Contact <- OneContact
  Deleted = {}
  REMINDER_THRESHOLDS_DAYS <- OneThreshold
  Batch = 1
  Handler = {p1}
  Sweeper = {s1}
  Publisher = {}
  Mailer = {m1}
  Reminder = {}
  Webhook = {}
  Poller = {}
  Admin = {a1}
  NewDeadline = {1}
  MaxMails = 3
  Reported = {}
  MaxTime = 1
  MaxFaults = 1
CHECK_DEADLOCK FALSE
PROPERTIES ReopenedIsAnswerable
