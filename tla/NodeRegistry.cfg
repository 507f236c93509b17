CONSTANTS
  Hash = {ha, hb}
  Name = {na, nb}
  Request = {r1, r2}
  None = None
  MaxNodes = 2
  MaxHashes = 2
  MaxPasses = 1
  MaxActors = 2
SPECIFICATION Spec
CHECK_DEADLOCK FALSE
SYMMETRY Symmetry
INVARIANTS TypeOK DuplicatesOnlyByRace StoredWasSent
PROPERTIES ActivationIsExclusive ActiveNeverComesBack TaskRebindsOnlyStale
