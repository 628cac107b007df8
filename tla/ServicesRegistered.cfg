\* A stack, the compose service that needs it and a compose-native service.  No service
\* leaves the registry and no command reports an error, so what the registry says is
\* what runs, over server restarts, some of which find the port file truncated.
SPECIFICATION FairSpec
CONSTANTS
  sb = sb
  web = web
  nat = nat
  s1 = s1
  s2 = s2
  w1 = w1
  w2 = w2
  n1 = n1
  n2 = n2
  None = None
  Branch = {b1}
  Sweep = {c1}
  MaxStacks = 1
  Kind <- MCKind
  BranchOf <- MCBranchOf
  Needs <- MCNeeds
  KeyOf <- MCKeyOf
  Key = {sb, web, nat}
  Inst = {s1, w1, n1}
  Task = {t1, t2}
  Requests = {"start", "restart", "reinstall"}
  Faults = {"raise", "crash", "torn"}
CHECK_DEADLOCK FALSE  \* nothing is requested any more
INVARIANTS
  RunningIsBacked
PROPERTIES
  RecoversAll
  RequestsEnd
