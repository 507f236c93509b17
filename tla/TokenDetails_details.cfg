CONSTANTS
  Coti = coti
  Currency = {coti, hash}
  Field = {website}
  Value = {v1, v2}
  Null = Null
  Request = {r1, r2}
  MaxRows = 3
SPECIFICATION Spec
CHECK_DEADLOCK FALSE
SYMMETRY Symmetry
INVARIANTS DuplicatesOnlyByRace AnswerShowsRequest
