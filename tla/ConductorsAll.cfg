\* Two starts, two stops and two levels for one branch, in any overlap.
SPECIFICATION ConductorSpec
CONSTANTS
  Unset = Unset
  Starter = {a1, a2}
  Stopper = {z1, z2}
  Setter = {v1, v2}
CHECK_DEADLOCK FALSE  \* every request was made
INVARIANTS
  NoOrphans
  AutonomyFollowed
