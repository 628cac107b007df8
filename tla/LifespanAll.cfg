SPECIFICATION LifeSpec
CONSTANTS
  web = web
  ui = ui
  Terminal = {t1}
  Conn = {c1, c2}
  Owner = {c1}
  MaxChunks = 2
  Container = {web}
  NameOf <- MCNameOf
  Services <- MCServices
  Project <- MCProject
  ComposeService <- MCComposeService
  BatchSize = 1
  BufferSize = 2
  MaxLines = 3
  MaxThreads = 2
  Task = {k1, k2}
  Enabled = {k1, k2}
  Branch = {b1}
  Poller = {m1, m2}
  UpdateChecker = m3
  MaxInputs = 5
SYMMETRY Symmetric
CHECK_DEADLOCK FALSE
INVARIANTS
  NothingLeft
  SharedViewIsWhole
  LogsInOrder
