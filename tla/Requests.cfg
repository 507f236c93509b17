CONSTANTS
  Request = {r1, r2}
  Kind <- AllKinds
  Limit = 1
SPECIFICATION FairSpec
INVARIANTS AnsweredHoldsNothing ErrorMeansUnwritten BlameIsTold
PROPERTIES EveryRequestIsAnswered
CHECK_DEADLOCK FALSE
