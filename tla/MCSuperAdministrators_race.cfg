SPECIFICATION AdminSpec
CONSTANTS
  Users = {a, b, c}
  Managers = {c}
  Requests = {r1, r2}
INVARIANT AnActiveSuperAdministratorRemains
CHECK_DEADLOCK FALSE
