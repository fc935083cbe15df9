SPECIFICATION FairSpec
CONSTANTS
  h1 = h1  h2 = h2
  Workers = {h1, h2}
  Kinds <- MCAll
  MaxDispatches = 1
  MaxSends = 2
  FaultSites = {}
  MaxFaults = 0
CHECK_DEADLOCK FALSE
INVARIANTS HeldOrLanded
PROPERTIES EveryCallbackLands
