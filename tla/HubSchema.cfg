SPECIFICATION FairSpec
CONSTANTS
  old = old  new = new  odd = odd
  Clients = {old, new, odd}
  Latest = 4
  Known <- MCKnown
  Script <- MCScript
  Sum <- MCSum
  NoSum = "none"
  Optional <- MCOptional
  Nobody = Nobody
  MaxFaults = 2
INVARIANT UsableIsThere SuccessIsComplete FailsOnlyAfterFault
PROPERTY LockIsReleased UpgradesInOrder
