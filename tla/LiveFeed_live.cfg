CONSTANTS
  Tx = {t1}
  Addr = {}
  Handler = {h1, h2}
  ZeroSpend = {}
  TokenTx = {t1}
  Touches <- MCTouches
  Confirmed = 2
  MaxVersion = 3
  MaxSaved = 1
  MaxRestarts = 1
SPECIFICATION FairSpec
CHECK_DEADLOCK FALSE
PROPERTIES NothingHangs ChangesAreSent
