SPECIFICATION Spec
CONSTANTS
  Plan = {p1, p2}
  Request = {r1, r2}
  MaxRestarts = 0
  NoPlan = NoPlan
INVARIANT CopyIsActive
CHECK_DEADLOCK FALSE
