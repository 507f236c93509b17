CONSTANTS
  a1 = a1
  a2 = a2
  tok = tok
  Native = coti
  None = None
  Address = {a1, a2}
  Currency = {coti, tok}
  Batches <- UpToTwo
SPECIFICATION Spec
INVARIANTS ConcernedRoomsAreTold StopsOnlyAtGeneration SuppliesOfConfirmedMintings
CHECK_DEADLOCK FALSE
