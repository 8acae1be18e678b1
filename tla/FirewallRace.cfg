SPECIFICATION Spec
CONSTANTS
  r1 = r1
  r2 = r2
  Procs = {p1}
  Rules <- MCRules
  Empty = r1
  Configs <- MCConfigs
  NoFile = NoFile
  StopMayFail = FALSE
  MaxEdits = 0
CHECK_DEADLOCK FALSE
INVARIANT
  SuccessIsKept
