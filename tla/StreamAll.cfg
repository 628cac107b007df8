\* One client, a ring buffer and a queue that overflow.
SPECIFICATION FairSpec
CONSTANTS
  Client = {c1}
  Line = {l1}
  MaxUpdates = 2
  Done = Done
  Other = Other
  MaxOther = 1
  MaxEvents = 2
  QueueSize = 2
  CheckEvery = 2
  Since = {0, 1, 2}
CHECK_DEADLOCK FALSE  \* the operation is over and the client gone
INVARIANTS
  OnceInOrder
  MissedIsExplained
PROPERTY
  StreamsEnd
