SPECIFICATION FairSpec
CONSTANTS
  Hosts = {h1}
  HubValues = {d1, d2}
  Names = {m1}
  NoName = NoName
  Accounts = {a1}
  Offsets <- MCOffsets
  MaxExports = 2
  MaxEdits = 3
  MaxFaults = 1
INVARIANT TypeOK ManagedIsCentral
PROPERTY IdentityIsKept MarkersMoveForward PackageArrives

