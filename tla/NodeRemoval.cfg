SPECIFICATION Spec
CONSTANTS
  u1 = u1
  u2 = u2
  p1 = p1
  p2 = p2
  Users <- MCUsers
  Ports <- MCPorts
  None = None
  Hosts <- MCHosts
  LTS = 3
  Distro = 1
  MaxActs = 1
  MaxFaults = 1
  MaxWork = 1
PROPERTY RemovalIsBackedUp
CHECK_DEADLOCK FALSE
