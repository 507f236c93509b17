CONSTANTS
  Task = {conf, price}
  Saving = {conf}
  Shared = {conf}
  Http = {price}
  Handler = {h1}
  Interval = 1
  MaxChange = 2
  MaxRestarts = 1
  MaxSets = 1
SPECIFICATION FairSpec
INVARIANTS TypeOK ApiIsNotBehindRoom RoomShowsLastRow
PROPERTIES CallsAreSpaced LoopsGoOn ImplementsNotifier
