CONSTANTS
  Tx = {t1, t2}
  Addr = {}
  Handler = {h1, h2}
  ZeroSpend = {}
  TokenTx = {t1, t2}
  Touches <- MCTouches
  Confirmed = 2
  MaxVersion = 2
  MaxSaved = 1
  MaxRestarts = 1
SPECIFICATION Spec
CHECK_DEADLOCK FALSE
SYMMETRY HandlerSymmetry
INVARIANTS FirstResultIsSwallowed RoomsConverge TotalCountsNewTokens
PROPERTIES GoesBackOnlyAfterOverlap ImplementsNotifier
