SPECIFICATION Spec
CONSTANTS
  p1 = p1  p2 = p2  p3 = p3  p4 = p4
  c1 = c1  c2 = c2  w1 = w1  w2 = w2  t1 = t1  t2 = t2  ou = ou
  None = None
  Clients = {p1, p2, p4}
  Cases = {c1, c2}
  Workflows = {w1, w2}
  Templates = {t1, t2}
  Owners = {ou}
  MaxVersion = 2
  Request <- MCContended
  TemplatesAt <- MCTemplatesAt
  EnsuredCases = {c1}
  MaxFaults = 1
INVARIANTS TypeOK FinishedExact RunsAsRecorded
PROPERTIES RerunOnlyFromStaleRead RecordedForGood ImplementsLedger
