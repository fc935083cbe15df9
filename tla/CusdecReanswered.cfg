SPECIFICATION Spec
CONSTANTS
  Workers = {h1}
  Kinds <- MCMoving
  MaxDispatches = 2
  MaxSends = 2
  FaultSites = {"update"}
  MaxFaults = 1
CHECK_DEADLOCK FALSE
INVARIANTS ReviewAnsweredByItsDispatch
