SPECIFICATION Spec
CONSTANTS
  Workers = {h1}
  Kinds <- MCRelease
  MaxDispatches = 2
  MaxSends = 2
  FaultSites <- MCEverywhere
  MaxFaults = 1
CHECK_DEADLOCK FALSE
INVARIANTS TypeOK RecordedAfterReview
PROPERTIES StatusNeverFallsBack
