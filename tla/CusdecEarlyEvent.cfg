SPECIFICATION FairSpec
CONSTANTS
  Workers = {h1}
  Kinds <- MCMoving
  MaxDispatches = 2
  MaxSends = 2
  FaultSites = {}
  MaxFaults = 0
CHECK_DEADLOCK FALSE
PROPERTIES EventReleasesItsWait
