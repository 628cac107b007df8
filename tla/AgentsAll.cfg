\* Two calls, of the endpoint or of a plan, every fault.
SPECIFICATION Spec
CONSTANTS
  None = None
  Call = {d1, d2}
  Hook = {h1}
  Who = {w1}
  MaxSession = 2
  MaxQuestions = 1
  Faults = {"unwritten", "raise", "cancel", "crash"}
CHECK_DEADLOCK FALSE  \* every call of the model was made
INVARIANTS
  OneCallPerSession
  StatusAgrees
PROPERTIES
  OutcomeStays
  SessionsEnd
