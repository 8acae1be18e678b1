SPECIFICATION PolicySpec
CONSTANTS
  Hosts <- MCHosts
  Span <- MCSpan
  First <- MCFirst
  V6 = {"six", "here6"}
  Interfaces = {"tun1", "tun2"}
  Labels = {"A", "B"}
  Packets <- MCPackets
  ServerForms <- MCServerForms
  RuleForms <- MCRuleForms
  Clients = {"c1", "c2"}
  Dates = {0, 1}
  Legacies <- MCLegacies
  Starts <- MCStarts
  StartFiles <- MCStartFiles
  ServerIds = {1, 2}
  LegacyId = 0
  Star = Star
  LastDay = 2
  MaxRules = 3
  MaxServers = 2
  MaxSaves = 2
  MaxTouches = 1
INVARIANT PolicyTypeOK FileTellsPolicy
PROPERTY RulesKeepTheirSide IsolationFollowsServer
CHECK_DEADLOCK FALSE
