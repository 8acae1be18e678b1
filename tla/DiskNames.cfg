SPECIFICATION FairSpec
CONSTANTS
  h1 = h1  h2 = h2
  menu1 = menu1  service1 = service1  menu2 = menu2  service2 = service2
  d1 = d1
  Hosts = {h1, h2}
  Disks = {d1}
  Procs = {menu1, service1, menu2, service2}
  Services = {service1, service2}
  HostOf <- MCHostOf
  Names <- MCNames
  Skew <- MCSkew
  Nowhere = Nowhere
  MaxEdits = 2
  MaxMoves = 1
  MaxFaults = 1
INVARIANT NamesAreGenuine
PROPERTY NewerNameStays HostsAgree PlacesAreFound
