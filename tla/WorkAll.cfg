\* Test runs, the events they fire and the notifications these cause.
SPECIFICATION WorkSpec
CONSTANTS
  ann = ann
  phone = phone
  laptop = laptop
  rules = rules
  Caller = {r1}
  Run = {r1}
  Audited = {"tests.run.DONE"}
  Plugin = {rules}
  Subscribed <- MCSubscribed
  User = {ann}
  Device = {phone, laptop}
  Owner <- MCOwner
  Delivery = {p1, p2}
  MaxLists = 4
  MaxLines = 2
  OtherEvents <- MCOtherEvents
  Toggled = {"test_results"}
  MaxInputs = 5
SYMMETRY Symmetric
CHECK_DEADLOCK FALSE  \* the inputs are used up
INVARIANTS
  OutputIsComplete
  EveryHandlerRuns
  KeptUnlessRaced
  EachDeviceOnce
