\* Two threads of the server and a client on every store, with crashes, next
\* to the port allocator.
SPECIFICATION Spec
CONSTANTS
  Service = {s1, s2}
  Branch = {b1, b2}
  Default = 8080
  Ephemeral = {e1}
  MaxStacks = 2
  NoPort = NoPort
  Thread = {t1, t2}
  Client = {c1}
  Key = {github, k}
  Value = {v}
  Github = github
  HomeHas = TRUE
  None = None
  Unsure = Unsure
  MaxCalls = 6
  ConfigFiles <- MCConfigFiles
  SlotPorts <- MCSlotPorts
  ProjectId = "branch"
SYMMETRY Symmetric
CHECK_DEADLOCK FALSE  \* no more calls
INVARIANTS
  UpdatesKept
  StateWhole
  AllocationsApart
  PatchIsExact
