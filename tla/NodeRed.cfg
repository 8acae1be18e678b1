SPECIFICATION Spec
CONSTANTS
  u1 = u1
  u2 = u2
  p1 = p1
  p2 = p2
  Users <- MCUsers
  Ports <- MCPorts
  None = None
  Hosts <- MCHosts
  LTS = 3
  Distro = 1
  MaxActs = 2
  MaxFaults = 1
  MaxWork = 1
PROPERTIES RemovedIsArchived ServiceComesBack InstalledPortIsFree NodeIsNotLost
SYMMETRY MCSymmetry
CHECK_DEADLOCK FALSE
