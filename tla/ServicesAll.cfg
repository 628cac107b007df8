\* Every request, on a stack and the service that needs it, registered twice.
SPECIFICATION Spec
CONSTANTS
  sb = sb
  web = web
  nat = nat
  s1 = s1
  s2 = s2
  w1 = w1
  w2 = w2
  n1 = n1
  n2 = n2
  None = None
  Branch = {b1}
  Sweep = {c1}
  MaxStacks = 1
  Kind <- MCKind
  BranchOf <- MCBranchOf
  Needs <- MCNeeds
  KeyOf <- MCKeyOf
  Key = {sb, web}
  Inst = {s1, w1, w2}
  Task = {t1, t2}
  Requests = {"start", "force", "restart", "reinstall", "migrate", "unregister", "cleanup"}
  Faults = {"fail", "raise"}
SYMMETRY Symmetric
CHECK_DEADLOCK FALSE  \* nothing is requested any more
INVARIANTS
  HolderFindsItsState
PROPERTIES
  Attended
  SerializedSpec
