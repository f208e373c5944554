SPECIFICATION MCOnboardingSpec
CONSTANTS
  c1 = c1
  c2 = c2
  A = A
  B = B
  a1 = a1
  a2 = a2
  b1 = b1
  Customer = {c1, c2}
  Role = {A, B}
  Version = {a1, a2, b1}
  AudienceOf <- audienceOf
  ValidFrom <- validFrom
  Today = 1
  Ref = {"x"}
  Reachable = {c2}
  Operator = {p1, p2}
  MaxOps = 2
  MaxFaults = 1
  None = None
SYMMETRY Operators
INVARIANTS OnboardingInv HolderIsAsked HeardOnce NoDuplicateInAudience
CHECK_DEADLOCK FALSE
