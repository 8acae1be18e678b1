SPECIFICATION FairSpec
CONSTANTS
  r1 = r1
  r2 = r2
  Procs = {p1}
  Rules <- MCRules
  Empty = r1
  Configs <- MCConfigs
  NoFile = NoFile
  StopMayFail = TRUE
  MaxEdits = 1
CHECK_DEADLOCK FALSE
INVARIANTS
  TypeOK
  ChangeIsCovered
  FailureRestores
  SuccessIsLive
  BackupIsSource
PROPERTY
  ChangeIsSettled
