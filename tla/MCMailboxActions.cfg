SPECIFICATION Spec
CONSTANTS
  s1 = s1
  s2 = s2
  McpSessions = {s1, s2}
  Names <- MCNames
  Existing <- MCExisting
  MaxActions = 2
  MaxFaults = 2
SYMMETRY Symmetry
CHECK_DEADLOCK FALSE
INVARIANTS
  TypeOK
  OkActionDone
  FailsForAReason
