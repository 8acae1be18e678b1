SPECIFICATION FairSpec
CONSTANTS
  h1 = h1
  menu = menu
  service = service
  Hosts = {h1}
  Procs = {menu, service}
  HostOf <- MCHostOf
  Timers = {service}
  Providers <- MCProviders
  MinSchema <- MCMinSchema
  Latest = 1
  Broken = {"bacula_fd"}
  Nobody = Nobody
  MaxChanges = 2
  MaxFaults = 1
INVARIANTS
  TypeOK
  SourceTellsTheRows
PROPERTIES
  PublishesOnly
  EverythingIsPublished
