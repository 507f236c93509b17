CONSTANTS
  Hash = {ha, hb}
  Name = {na, nb}
  Request = {r1}
  None = None
  MaxNodes = 2
  MaxHashes = 2
  MaxPasses = 0
  MaxActors = 2
SPECIFICATION Spec
CHECK_DEADLOCK FALSE
PROPERTY UnknownNameIsCreated
