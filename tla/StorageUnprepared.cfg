SPECIFICATION Spec
CONSTANTS
  None = None
  here = here there = there
  r1 = r1 r2 = r2 h1 = h1 h2 = h2 k1 = k1
  Origin = {here, there}
  Req = {r1, r2}
  Channel = {h1, h2}
  Connection = {k1}
  HookStatus = {304, 405}
  Env = {}
  Scenarios <- MCScenarios
CHECK_DEADLOCK FALSE
INVARIANTS ServingCanStore
