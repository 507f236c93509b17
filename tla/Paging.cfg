CONSTANTS
  t1 = t1
  t2 = t2
  t3 = t3
  t4 = t4
  t5 = t5
  Tx = {t1, t2, t3, t4, t5}
  ZeroSpend = {t3}
  AttachedAt <- MCAttachedAt
  Parts <- MCParts
  Limits = {0, 3}
  Window = 6
  MaxOffset = 6
SPECIFICATION Spec
CHECK_DEADLOCK FALSE
INVARIANTS TypeOK NothingSkipped ShortPageIsLast CutOnlyAtTheEdges
PROPERTY RepeatsOnlyAfterInsert
