SPECIFICATION FairSpec
CONSTANTS
  Launch = {l1, l2}
  Stopper = {z1, z2}
  None = None
INVARIANTS FoundUnlessRaced StoppedIsDown
PROPERTY StopsEnd
CHECK_DEADLOCK FALSE
