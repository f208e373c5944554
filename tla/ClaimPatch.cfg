SPECIFICATION MCBackOfficeSpec
CONSTANTS
  customer = customer
  terms = terms
  v1 = v1
  v2 = v2
  v3 = v3
  custom = custom
  notification = notification
  reminder = reminder
  confirmation = confirmation
  None = None
  Audience = {customer}
  DocType = {terms}
  Name = {"Customers", "Clients"}
  Config <- MCConfig
  Template = {custom, notification, reminder, confirmation}
  DefaultTemplate <- MCDefaults
  Customer = {c1, c2}
  Version = {v1, v2, v3}
  DocumentOf <- MCDocumentOf
  Text = {"now", "later"}
  Scheduled = {"later"}
  Operator = {p1, p2}
  MaxOps = 3
  MaxFaults = 1
CHECK_DEADLOCK FALSE
PROPERTIES PublishedIsImmutable
