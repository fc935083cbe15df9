SPECIFICATION FairSpec
CONSTANTS
  Workers = {h1}
  Kinds <- MCNoticed
  MaxDispatches = 2
  MaxSends = 2
  FaultSites <- MCBeforeTheTask
  MaxFaults = 1
CHECK_DEADLOCK FALSE
INVARIANTS ReviewAnsweredByItsDispatch HeldOrLanded
PROPERTIES EveryCallbackLands
