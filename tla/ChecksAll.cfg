\* Every group of at most three checks, with every outcome of their commands.
SPECIFICATION Spec
CONSTANTS
  Check = {a, b, c}
  Unknown = Unknown
  Misname = {Unknown}
SYMMETRY Symmetric
CHECK_DEADLOCK FALSE  \* the group has ended
INVARIANTS
  RunsAfterDependencies
  VerdictIsEarned
  NoCommandSurvives
