CONSTANTS
  Tx = {t1, t2}
  Addr = {a1, a2}
  Handler = {h1, h2}
  ZeroSpend = {t2}
  TokenTx = {t1, t2}
  Touches <- MCTouchesApart
  Confirmed = 1
  MaxVersion = 1
  MaxSaved = 1
  MaxRestarts = 1
SPECIFICATION Spec
CHECK_DEADLOCK FALSE
SYMMETRY HandlerSymmetry
INVARIANTS TypeOK SentIsNotOlderThanDiff WalletCountConverges ZeroSpendIsSilent
PROPERTY HalfSentOnlyByGeneration
