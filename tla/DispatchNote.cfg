SPECIFICATION Spec
CONSTANTS
  h1 = h1  h2 = h2
  Workers = {h1, h2}
  Kinds <- MCSettling
  MaxDispatches = 2
  MaxSends = 2
  FaultSites <- MCEverywhere
  MaxFaults = 1
SYMMETRY MCAlike
CHECK_DEADLOCK FALSE
INVARIANTS TypeOK SettledNotesReleased OneRegisteredNote
 
