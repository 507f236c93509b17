CONSTANTS
  Coti = coti
  Currency = {coti, hash}
  Field = {website, discord}
  Value = {v1, v2}
  Null = Null
  Request = {r1}
  MaxRows = 1
SPECIFICATION Spec
CHECK_DEADLOCK FALSE
SYMMETRY Symmetry
INVARIANT IconUrlMeansStored
