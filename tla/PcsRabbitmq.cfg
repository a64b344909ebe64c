SPECIFICATION Spec
CONSTANTS
  MaxRev = 2
  MaxFaults = 2
  None = None
INVARIANTS TypeOK RebuiltMeansCurrent
PROPERTIES StartedLast RefinesRebuildable
