SPECIFICATION Spec
CONSTANTS
  h1 = h1  h2 = h2
  Workers = {h1}
  Kinds <- MCSettling
  MaxDispatches = 2
  MaxSends = 2
  FaultSites = {}
  MaxFaults = 0
CHECK_DEADLOCK FALSE
INVARIANTS WaitReleasedByItsNote
