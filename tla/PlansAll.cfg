\* Every request, two executors over one plan.
SPECIFICATION FairSpec
CONSTANTS
  None = None
  test = test
  failing = failing
  passing = passing
  fix = fix
  approve = approve
  extra = extra
  Node <- MCNode
  Type <- MCType
  Deps <- MCDeps
  IfTrue <- MCIfTrue
  IfFalse <- MCIfFalse
  OnFailure = {failing}
  Exec = {e1, e2}
  Plan = {p}
  Requests = {"execute", "pause", "delete", "answer", "crash"}
CHECK_DEADLOCK FALSE  \* a deleted plan is not requested again
INVARIANT
  DependenciesFirst
PROPERTIES
  OutcomesStay
  ExecutorsEnd
