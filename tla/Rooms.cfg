CONSTANTS
  Client = {c, d}
  Kind = {address, hash}
  Name = {x}
  Flag = {"nodeUpdates", "activeWallets"}
  EventOf <- MCEventOf
  None = None
  NodeUpdates = "nodeUpdates"
  MaxMessages = 2
SPECIFICATION Spec
CHECK_DEADLOCK FALSE
SYMMETRY Symmetry
PROPERTIES NothingMissed NothingUnwanted
